-------------------------- MODULE PagedForwardProofs --------------------------
(***************************************************************************)
(* Theorems about PagedForward, for any batch, model depth, page size,     *)
(* chunk of the decode kernel, and scores.                                 *)
(***************************************************************************)
EXTENDS PagedForward, QueueLemmas, PagedRunnerProofs

-----------------------------------------------------------------------------
(* Powers of two.                                                          *)

PowersUpTo(f, n) ==
    /\ f[0] = 1
    /\ \A i \in 1 .. n : f[i] = 2 * f[i - 1]
    /\ \A i \in 0 .. n : f[i] \in Nat

LEMMA PowersExist == \A n \in Nat : \E f : PowersUpTo(f, n)
  <1> DEFINE B == {n \in Nat : ~ \E f : PowersUpTo(f, n)}
  <1>1. SUFFICES ASSUME B # {} PROVE FALSE
    OBVIOUS
  <1>2. PICK n \in B : \A m \in B : n <= m
    <2>1. B \in SUBSET Nat
      OBVIOUS
    <2> HIDE DEF B
    <2> QED
      BY <1>1, <2>1, SmallestNat
  <1>3. n # 0
    <2>1. PowersUpTo([i \in {0} |-> 1], 0)
      BY DEF PowersUpTo
    <2> QED
      BY <1>2, <2>1
  <1>4. n \in Nat /\ n - 1 \in Nat /\ n - 1 \notin B
    BY <1>2, <1>3
  <1>5. PICK f : PowersUpTo(f, n - 1)
    BY <1>4
  <1> DEFINE g == [i \in 0 .. n |-> IF i = n THEN 2 * f[n - 1] ELSE f[i]]
  <1>6. PowersUpTo(g, n)
    <2>1. f[0] = 1 /\ (\A i \in 1 .. n - 1 : f[i] = 2 * f[i - 1]) /\ (\A i \in 0 .. n - 1 : f[i] \in Nat)
      BY <1>5 DEF PowersUpTo
    <2>2. g[0] = 1
      BY <1>3, <1>4, <2>1
    <2>3. \A i \in 1 .. n : g[i] = 2 * g[i - 1]
      <3> SUFFICES ASSUME NEW i \in 1 .. n PROVE g[i] = 2 * g[i - 1]
        OBVIOUS
      <3>1. g[i - 1] = f[i - 1]
        BY <1>4
      <3>2. g[i] = IF i = n THEN 2 * f[n - 1] ELSE f[i]
        BY <1>4
      <3> HIDE DEF g
      <3>3. CASE i = n
        BY <3>1, <3>2, <3>3
      <3>4. CASE i # n
        <4>1. i \in 1 .. n - 1
          BY <1>4, <3>4
        <4> QED
          BY <2>1, <3>1, <3>2, <3>4, <4>1
      <3> QED
        BY <3>3, <3>4
    <2>4. \A i \in 0 .. n : g[i] \in Nat
      BY <1>4, <2>1
    <2> HIDE DEF g
    <2> QED
      BY <2>2, <2>3, <2>4 DEF PowersUpTo
  <1> QED
    BY <1>2, <1>6

LEMMA PowersAgree ==
    ASSUME NEW n \in Nat, NEW m \in Nat, NEW f, PowersUpTo(f, n), NEW g, PowersUpTo(g, m)
    PROVE  \A i \in Nat : i <= n /\ i <= m => f[i] = g[i]
  <1> DEFINE B == {i \in Nat : i <= n /\ i <= m /\ f[i] # g[i]}
  <1>1. SUFFICES ASSUME B # {} PROVE FALSE
    OBVIOUS
  <1>2. PICK i \in B : \A j \in B : i <= j
    <2>1. B \in SUBSET Nat
      OBVIOUS
    <2> HIDE DEF B
    <2> QED
      BY <1>1, <2>1, SmallestNat
  <1>3. i # 0 /\ i \in Nat /\ i <= n /\ i <= m
    BY <1>2 DEF PowersUpTo
  <1>4. i - 1 \in Nat /\ i - 1 \notin B
    BY <1>2, <1>3
  <1>5. f[i - 1] = g[i - 1]
    BY <1>3, <1>4
  <1>6. f[i] = 2 * f[i - 1] /\ g[i] = 2 * g[i - 1]
    BY <1>3 DEF PowersUpTo
  <1> QED
    BY <1>2, <1>5, <1>6

LEMMA Powers ==
    /\ Pow2[0] = 1
    /\ \A n \in Nat : Pow2[n + 1] = 2 * Pow2[n]
  <1> DEFINE Step(f) == [n \in Nat |-> IF n = 0 THEN 1 ELSE 2 * f[n - 1]]
             A(n) == CHOOSE f : PowersUpTo(f, n)
             w == [n \in Nat |-> A(n)[n]]
  <1>1. \A n \in Nat : PowersUpTo(A(n), n)
    BY PowersExist
  <1>2. w[0] = 1
    BY <1>1 DEF PowersUpTo
  <1>3. \A n \in Nat : n # 0 => w[n] = 2 * w[n - 1]
    <2> SUFFICES ASSUME NEW n \in Nat, n # 0 PROVE w[n] = 2 * w[n - 1]
      OBVIOUS
    <2>1. n - 1 \in Nat
      OBVIOUS
    <2> HIDE DEF A
    <2>2. PowersUpTo(A(n), n) /\ PowersUpTo(A(n - 1), n - 1)
      BY <1>1, <2>1
    <2>3. A(n)[n - 1] = A(n - 1)[n - 1]
      BY <2>1, <2>2, PowersAgree
    <2>4. A(n)[n] = 2 * A(n)[n - 1]
      BY <2>2 DEF PowersUpTo
    <2> QED
      BY <2>1, <2>3, <2>4
  <1>4. w = Step(w)
    <2>1. w = [n \in Nat |-> w[n]]
      OBVIOUS
    <2> HIDE DEF w
    <2>2. \A n \in Nat : w[n] = IF n = 0 THEN 1 ELSE 2 * w[n - 1]
      BY <1>2, <1>3
    <2> QED
      BY <2>1, <2>2
  <1> HIDE DEF w
  <1>5. Pow2 = Step(Pow2)
    BY <1>4 DEF Pow2
  <1>6. \A n \in Nat : Pow2[n] = IF n = 0 THEN 1 ELSE 2 * Pow2[n - 1]
    BY <1>5
  <1>7. \A n \in Nat : n + 1 \in Nat /\ n + 1 # 0 /\ (n + 1) - 1 = n
    OBVIOUS
  <1> QED
    BY <1>6, <1>7

LEMMA PowersPositive == \A n \in Nat : Pow2[n] \in Nat \ {0} /\ Pow2[n] > n
  <1> DEFINE B == {n \in Nat : ~ (Pow2[n] \in Nat \ {0} /\ Pow2[n] > n)}
  <1>1. SUFFICES ASSUME B # {} PROVE FALSE
    OBVIOUS
  <1>2. PICK n \in B : \A m \in B : n <= m
    <2>1. B \in SUBSET Nat
      OBVIOUS
    <2> HIDE DEF B
    <2> QED
      BY <1>1, <2>1, SmallestNat
  <1>3. n # 0
    BY <1>2, Powers
  <1>4. n \in Nat /\ n - 1 \in Nat /\ n - 1 \notin B /\ (n - 1) + 1 = n
    BY <1>2, <1>3
  <1>5. Pow2[n - 1] \in Nat \ {0} /\ Pow2[n - 1] > n - 1 /\ Pow2[n] = 2 * Pow2[n - 1]
    BY <1>4, Powers
  <1> QED
    BY <1>2, <1>4, <1>5

LEMMA PowersMultiply == \A m, n \in Nat : Pow2[m + n] = Pow2[m] * Pow2[n]
  <1> SUFFICES ASSUME NEW m \in Nat PROVE \A n \in Nat : Pow2[m + n] = Pow2[m] * Pow2[n]
    OBVIOUS
  <1> DEFINE B == {n \in Nat : Pow2[m + n] # Pow2[m] * Pow2[n]}
  <1>1. SUFFICES ASSUME B # {} PROVE FALSE
    OBVIOUS
  <1>2. PICK n \in B : \A k \in B : n <= k
    <2>1. B \in SUBSET Nat
      OBVIOUS
    <2> HIDE DEF B
    <2> QED
      BY <1>1, <2>1, SmallestNat
  <1>3. n # 0
    BY <1>2, Powers, PowersPositive
  <1>4. n \in Nat /\ n - 1 \in Nat /\ n - 1 \notin B /\ (n - 1) + 1 = n
    BY <1>2, <1>3
  <1>5. Pow2[m + (n - 1)] = Pow2[m] * Pow2[n - 1]
    BY <1>4
  <1>6. Pow2[n] = 2 * Pow2[n - 1]
    BY <1>4, Powers
  <1>7. Pow2[m + n] = 2 * Pow2[m + (n - 1)]
    <2>1. m + (n - 1) \in Nat /\ (m + (n - 1)) + 1 = m + n
      BY <1>4
    <2> QED
      BY <2>1, Powers
  <1>8. Pow2[m] \in Nat /\ Pow2[n - 1] \in Nat
    BY <1>4, PowersPositive
  <1>9. \A x, y \in Nat : 2 * (x * y) = x * (2 * y)
    OBVIOUS
  <1>10. Pow2[m + n] = Pow2[m] * Pow2[n]
    BY <1>5, <1>6, <1>7, <1>8, <1>9
  <1> QED
    BY <1>2, <1>10

-----------------------------------------------------------------------------
(* Greatest elements and sums.                                             *)

Greatest(S, x) == x \in S /\ \A y \in S : x >= y

LEMMA GreatestOfFinite ==
    ASSUME NEW S, IsFiniteSet(S), S \subseteq Int, S # {}
    PROVE  Greatest(S, Max(S))
  <1> DEFINE B == {T \in SUBSET S : T # {} /\ ~ \E x : Greatest(T, x)}
  <1>1. B = {}
    <2>1. SUFFICES ASSUME B # {} PROVE FALSE
      OBVIOUS
    <2>2. PICK T \in B : \A U \in B : Cardinality(T) <= Cardinality(U)
      <3>1. B \in SUBSET (SUBSET S)
        OBVIOUS
      <3> HIDE DEF B
      <3> QED
        BY <2>1, <3>1, SmallestSubset
    <2>3. PICK x \in T : TRUE
      BY <2>2
    <2>4. IsFiniteSet(T) /\ T \subseteq Int /\ T \in SUBSET S /\ T # {}
      BY <2>2, FS_Subset
    <2>5. T \ {x} # {}
      <3> SUFFICES ASSUME T \ {x} = {} PROVE FALSE
        OBVIOUS
      <3>1. Greatest(T, x)
        BY <2>3, <2>4 DEF Greatest
      <3> QED
        BY <2>2, <3>1
    <2>6. T \ {x} \notin B
      <3> SUFFICES ASSUME T \ {x} \in B PROVE FALSE
        OBVIOUS
      <3>1. Cardinality(T) <= Cardinality(T \ {x})
        BY <2>2
      <3>2. Cardinality(T \ {x}) = Cardinality(T) - 1 /\ Cardinality(T) \in Nat
        BY <2>3, <2>4, Smaller
      <3> QED
        BY <3>1, <3>2
    <2>7. PICK y : Greatest(T \ {x}, y)
      BY <2>4, <2>5, <2>6
    <2>8. y \in T /\ y \in Int /\ x \in Int /\ \A z \in T : z = x \/ y >= z
      BY <2>3, <2>4, <2>7 DEF Greatest
    <2>9. CASE y >= x
      <3>1. Greatest(T, y)
        BY <2>8, <2>9 DEF Greatest
      <3> QED
        BY <2>2, <3>1
    <2>10. CASE x >= y
      <3>1. \A z \in T : z \in Int
        BY <2>4
      <3>2. \A a, b, c \in Int : a >= b /\ b >= c => a >= c
        OBVIOUS
      <3>3. Greatest(T, x)
        BY <2>3, <2>8, <2>10, <3>1, <3>2 DEF Greatest
      <3> QED
        BY <2>2, <3>3
    <2> QED
      BY <2>8, <2>9, <2>10
  <1>2. \E x : Greatest(S, x)
    BY <1>1
  <1> QED
    BY <1>2 DEF Greatest, Max

\* A sum over two sets that have no element in common.
LEMMA SumOfUnion ==
    ASSUME NEW S, NEW T, IsFiniteSet(S), IsFiniteSet(T), S \intersect T = {},
           NEW f, \A x \in S \union T : f[x] \in Int
    PROVE  /\ SumFunctionOnSet(f, S) \in Int
           /\ SumFunctionOnSet(f, T) \in Int
           /\ SumFunctionOnSet(f, S \union T) = SumFunctionOnSet(f, S) + SumFunctionOnSet(f, T)
  <1> DEFINE Sums(U) == /\ SumFunctionOnSet(f, U) \in Int
                        /\ SumFunctionOnSet(f, S \union U) \in Int
                        /\ SumFunctionOnSet(f, S \union U)
                              = SumFunctionOnSet(f, S) + SumFunctionOnSet(f, U)
             B == {U \in SUBSET T : ~ Sums(U)}
  <1>1. SumFunctionOnSet(f, S) \in Int
    <2>1. PICK g \in [SUBSET S -> Int] : SumsUp(g, f, S) /\ SumFunctionOnSet(f, S) = g[S]
      BY SumWitness
    <2> QED
      BY <2>1
  <1>2. B = {}
    <2>1. SUFFICES ASSUME B # {} PROVE FALSE
      OBVIOUS
    <2>2. PICK U \in B : \A V \in B : Cardinality(U) <= Cardinality(V)
      <3>1. B \in SUBSET (SUBSET T)
        OBVIOUS
      <3> HIDE DEF B
      <3> QED
        BY <2>1, <3>1, SmallestSubset
    <2>3. IsFiniteSet(U) /\ U \in SUBSET T /\ ~ Sums(U)
      BY <2>2, FS_Subset
    <2>4. U # {}
      <3> SUFFICES ASSUME U = {} PROVE FALSE
        OBVIOUS
      <3>1. S \union U = S
        OBVIOUS
      <3> QED
        BY <1>1, <2>3, <3>1, SumOfNone
    <2>5. PICK x \in U : TRUE
      BY <2>4
    <2> DEFINE V == U \ {x}
    <2>6. V \notin B
      <3> SUFFICES ASSUME V \in B PROVE FALSE
        OBVIOUS
      <3>1. Cardinality(U) <= Cardinality(V)
        BY <2>2
      <3>2. Cardinality(V) = Cardinality(U) - 1 /\ Cardinality(U) \in Nat
        BY <2>3, <2>5, Smaller
      <3> QED
        BY <3>1, <3>2
    <2>7. Sums(V) /\ V \in SUBSET T /\ IsFiniteSet(V) /\ x \notin V /\ V \union {x} = U
      BY <2>3, <2>5, <2>6, FS_Subset
    <2>8. x \notin S \union V /\ (S \union V) \union {x} = S \union U /\ IsFiniteSet(S \union V)
      BY <2>3, <2>5, <2>7, FS_Union
    <2> HIDE DEF V
    <2>9. /\ SumFunctionOnSet(f, V) \in Int
          /\ SumFunctionOnSet(f, V \union {x}) = f[x] + SumFunctionOnSet(f, V)
      BY <2>3, <2>5, <2>7, SumWithOne
    <2>10. SumFunctionOnSet(f, (S \union V) \union {x}) = f[x] + SumFunctionOnSet(f, S \union V)
      BY <2>3, <2>5, <2>7, <2>8, SumWithOne
    <2>11. f[x] \in Int
      BY <2>3, <2>5
    <2>12. SumFunctionOnSet(f, U) = f[x] + SumFunctionOnSet(f, V)
      BY <2>7, <2>9, Zenon
    <2>13. SumFunctionOnSet(f, S \union U) = f[x] + SumFunctionOnSet(f, S \union V)
      BY <2>8, <2>10, Zenon
    <2>14. /\ SumFunctionOnSet(f, V) \in Int
           /\ SumFunctionOnSet(f, S \union V)
                 = SumFunctionOnSet(f, S) + SumFunctionOnSet(f, V)
      BY <2>7
    <2>15. Sums(U)
      BY <1>1, <2>11, <2>12, <2>13, <2>14
    <2> QED
      BY <2>3, <2>15
  <1>3. Sums(T)
    BY <1>2
  <1> QED
    BY <1>1, <1>3

\* A common factor of what is summed up.
LEMMA SumScaled ==
    ASSUME NEW S, IsFiniteSet(S), NEW f, \A x \in S : f[x] \in Int, NEW a \in Int,
           NEW e, \A x \in S : e[x] = a * f[x]
    PROVE  /\ SumFunctionOnSet(f, S) \in Int
           /\ SumFunctionOnSet(e, S) = a * SumFunctionOnSet(f, S)
  <1> DEFINE Sums(U) == /\ SumFunctionOnSet(f, U) \in Int
                        /\ SumFunctionOnSet(e, U) = a * SumFunctionOnSet(f, U)
             B == {U \in SUBSET S : ~ Sums(U)}
  <1>1. \A x \in S : e[x] \in Int
    BY SMT
  <1>2. B = {}
    <2>1. SUFFICES ASSUME B # {} PROVE FALSE
      OBVIOUS
    <2>2. PICK U \in B : \A V \in B : Cardinality(U) <= Cardinality(V)
      <3>1. B \in SUBSET (SUBSET S)
        OBVIOUS
      <3> HIDE DEF B
      <3> QED
        BY <2>1, <3>1, SmallestSubset
    <2>3. IsFiniteSet(U) /\ U \in SUBSET S /\ ~ Sums(U)
      BY <2>2, FS_Subset
    <2>4. U # {}
      BY <2>3, SumOfNone
    <2>5. PICK x \in U : TRUE
      BY <2>4
    <2> DEFINE V == U \ {x}
    <2>6. V \notin B
      <3> SUFFICES ASSUME V \in B PROVE FALSE
        OBVIOUS
      <3>1. Cardinality(U) <= Cardinality(V)
        BY <2>2
      <3>2. Cardinality(V) = Cardinality(U) - 1 /\ Cardinality(U) \in Nat
        BY <2>3, <2>5, Smaller
      <3> QED
        BY <3>1, <3>2
    <2>7. Sums(V) /\ V \in SUBSET S /\ IsFiniteSet(V) /\ x \notin V /\ V \union {x} = U
      BY <2>3, <2>5, <2>6, FS_Subset
    <2> HIDE DEF V
    <2>8. SumFunctionOnSet(f, V \union {x}) = f[x] + SumFunctionOnSet(f, V)
      BY <2>3, <2>5, <2>7, SumWithOne
    <2>9. SumFunctionOnSet(e, V \union {x}) = e[x] + SumFunctionOnSet(e, V)
      BY <1>1, <2>3, <2>5, <2>7, SumWithOne
    <2>10. f[x] \in Int /\ e[x] = a * f[x]
      BY <2>3, <2>5
    <2>11. \A y, z \in Int : a * y + a * z = a * (y + z)
      OBVIOUS
    <2>12. SumFunctionOnSet(e, U) = a * f[x] + a * SumFunctionOnSet(f, V)
      BY <2>7, <2>9, <2>10
    <2>13. SumFunctionOnSet(f, U) = f[x] + SumFunctionOnSet(f, V) /\ SumFunctionOnSet(f, V) \in Int
      BY <2>7, <2>8
    <2>14. SumFunctionOnSet(f, U) \in Int
      BY <2>10, <2>13
    <2>15. SumFunctionOnSet(e, U) = a * SumFunctionOnSet(f, U)
      BY <2>10, <2>11, <2>12, <2>13, Zenon
    <2> QED
      BY <2>3, <2>14, <2>15
  <1>3. Sums(S)
    BY <1>2
  <1> QED
    BY <1>3

\* Nothing adds up to nothing.
LEMMA SumOfZeros ==
    ASSUME NEW S, IsFiniteSet(S), NEW f, \A x \in S : f[x] = 0
    PROVE  SumFunctionOnSet(f, S) = 0
  <1>1. \A x \in S : f[x] \in Int /\ f[x] = 0 * f[x]
    OBVIOUS
  <1>2. /\ SumFunctionOnSet(f, S) \in Int
        /\ SumFunctionOnSet(f, S) = 0 * SumFunctionOnSet(f, S)
    BY <1>1, SumScaled
  <1> QED
    BY <1>2

LEMMA SumOfNaturals ==
    ASSUME NEW S, IsFiniteSet(S), NEW f, \A x \in S : f[x] \in Nat
    PROVE  SumFunctionOnSet(f, S) \in Nat
  <1> DEFINE B == {U \in SUBSET S : SumFunctionOnSet(f, U) \notin Nat}
  <1>1. B = {}
    <2>1. SUFFICES ASSUME B # {} PROVE FALSE
      OBVIOUS
    <2>2. PICK U \in B : \A V \in B : Cardinality(U) <= Cardinality(V)
      <3>1. B \in SUBSET (SUBSET S)
        OBVIOUS
      <3> HIDE DEF B
      <3> QED
        BY <2>1, <3>1, SmallestSubset
    <2>3. IsFiniteSet(U) /\ U \in SUBSET S /\ SumFunctionOnSet(f, U) \notin Nat
      BY <2>2, FS_Subset
    <2>4. U # {}
      BY <2>3, SumOfNone
    <2>5. PICK x \in U : TRUE
      BY <2>4
    <2> DEFINE V == U \ {x}
    <2>6. V \notin B
      <3> SUFFICES ASSUME V \in B PROVE FALSE
        OBVIOUS
      <3>1. Cardinality(U) <= Cardinality(V)
        BY <2>2
      <3>2. Cardinality(V) = Cardinality(U) - 1 /\ Cardinality(U) \in Nat
        BY <2>3, <2>5, Smaller
      <3> QED
        BY <3>1, <3>2
    <2>7. /\ SumFunctionOnSet(f, V) \in Nat /\ V \in SUBSET S /\ IsFiniteSet(V)
          /\ x \notin V /\ V \union {x} = U
      BY <2>3, <2>5, <2>6, FS_Subset
    <2> HIDE DEF V
    <2>8. \A y \in V \union {x} : f[y] \in Int
      BY <2>3, <2>5, <2>7
    <2>9. SumFunctionOnSet(f, V \union {x}) = f[x] + SumFunctionOnSet(f, V)
      BY <2>7, <2>8, SumWithOne
    <2>10. f[x] \in Nat
      BY <2>3, <2>5
    <2>11. SumFunctionOnSet(f, U) = f[x] + SumFunctionOnSet(f, V)
      BY <2>7, <2>9, Zenon
    <2> QED
      BY <2>3, <2>7, <2>10, <2>11
  <1> QED
    BY <1>1

-----------------------------------------------------------------------------
(* The online softmax of the decode kernel.                                *)

LEMMA ExactDivision ==
    ASSUME NEW a \in Nat \ {0}, NEW b \in Nat
    PROVE  (a * b) \div a = b
  <1> DEFINE q == (a * b) \div a
             r == (a * b) % a
  <1>1. a * b \in Nat
    BY SMTT(30)
  <1>2. \A x \in Nat : x \div a \in Int /\ x % a \in 0 .. a - 1 /\ x = a * (x \div a) + (x % a)
    BY SMTT(30)
  <1>3. q \in Int /\ r \in 0 .. a - 1 /\ a * b = a * q + r
    BY <1>1, <1>2
  <1> HIDE DEF q, r
  <1>4. ~ (q < b)
    <2>1. \A x \in Int : x < b => a * (b - x) >= a /\ a * (b - x) = a * b - a * x
      BY SMTT(30)
    <2> QED
      BY <1>1, <1>3, <2>1, SMTT(30)
  <1>5. ~ (q > b)
    <2>1. \A x \in Int : x > b => a * (x - b) >= a /\ a * (x - b) = a * x - a * b
      BY SMTT(30)
    <2> QED
      BY <1>1, <1>3, <2>1, SMTT(30)
  <1>6. q = b
    BY <1>3, <1>4, <1>5
  <1> QED
    BY <1>6 DEF q

LEMMA NextPower ==
    ASSUME NEW n \in Nat \ {0}
    PROVE  NextPowerOf2(n) \in Nat /\ NextPowerOf2(n) >= n
  <1> DEFINE B == {k \in Nat : Pow2[k] >= n}
             Powered == {Pow2[k] : k \in 0 .. n}
  <1>1. B \in SUBSET Nat /\ n \in B
    BY PowersPositive
  <1>2. PICK k \in B : \A j \in B : k <= j
    <2> HIDE DEF B
    <2> QED
      BY <1>1, SmallestNat
  <1>3. k \in 0 .. n /\ Pow2[k] >= n
    BY <1>1, <1>2
  <1>4. Pow2[k] = 1 \/ Pow2[k] \div 2 < n
    <2>1. CASE k = 0
      BY <2>1, Powers
    <2>2. CASE k # 0
      <3>1. k - 1 \in Nat /\ k - 1 \notin B /\ (k - 1) + 1 = k
        BY <1>2, <2>2
      <3>2. Pow2[k] = 2 * Pow2[k - 1] /\ Pow2[k - 1] \in Nat /\ Pow2[k - 1] < n
        BY <3>1, Powers, PowersPositive
      <3>3. \A x \in Nat : (2 * x) \div 2 = x
        OBVIOUS
      <3> QED
        BY <3>2, <3>3
    <2> QED
      BY <2>1, <2>2
  <1>5. \E m \in Powered : m >= n /\ (m = 1 \/ m \div 2 < n)
    BY <1>3, <1>4
  <1>6. Powered \subseteq Nat
    BY PowersPositive
  <1>7. NextPowerOf2(n) = CHOOSE m \in Powered : m >= n /\ (m = 1 \/ m \div 2 < n)
    BY DEF NextPowerOf2
  <1> HIDE DEF Powered
  <1>8. NextPowerOf2(n) \in Powered /\ NextPowerOf2(n) >= n
    BY <1>5, <1>7
  <1> QED
    BY <1>6, <1>8

Lengths(lens, n) == lens \in [1 .. n -> Nat \ {0}]

\* The kernel is compiled for a context as long as any of the batch.
LEMMA MaxContextCovers ==
    ASSUME NEW n \in Nat \ {0}, NEW lens, Lengths(lens, n)
    PROVE  /\ MaxContext(lens) \in Nat
           /\ \A i \in 1 .. n : MaxContext(lens) >= lens[i]
  <1> DEFINE R == Range(lens)
             longest == Max(R)
             power == NextPowerOf2(longest)
  <1>1. R \subseteq Nat \ {0} /\ R # {} /\ \A i \in 1 .. n : lens[i] \in R
    BY DEF Lengths, Range
  <1>2. IsFiniteSet(R)
    <2>1. IsFiniteSet(1 .. n)
      BY FS_Interval
    <2>2. lens \in [1 .. n -> R] /\ \A x \in R : \E i \in 1 .. n : lens[i] = x
      BY DEF Lengths, Range
    <2> HIDE DEF R
    <2>3. lens \in Surjection(1 .. n, R)
      BY <2>2 DEF Surjection
    <2> QED
      BY <2>1, <2>3, FS_Surjection
  <1>3. R \subseteq Int
    BY <1>1
  <1> HIDE DEF R
  <1>4. Greatest(R, longest)
    BY <1>1, <1>2, <1>3, GreatestOfFinite
  <1>5. longest \in Nat \ {0} /\ \A i \in 1 .. n : longest >= lens[i]
    BY <1>1, <1>4 DEF Greatest
  <1> HIDE DEF longest
  <1>6. power \in Nat /\ power >= longest
    BY <1>5, NextPower
  <1>7. MaxContext(lens) = Max({MinContext, power})
    BY DEF MaxContext, R, longest
  <1> HIDE DEF power
  <1>8. MinContext \in Nat
    BY MinContextAssumption
  <1>9. MaxContext(lens) = IF MinContext <= power THEN power ELSE MinContext
    BY <1>6, <1>7, <1>8, MaxOfTwo
  <1>10. \A i \in 1 .. n : lens[i] \in Nat
    BY DEF Lengths
  <1> QED
    BY <1>5, <1>6, <1>8, <1>9, <1>10

\* The offsets of a context of the given length among the first n.
InContext(n, length) == {k \in 0 .. n - 1 : k < length}

Probabilities(score, max, live) == [k \in live |-> Pow2[MaxScore + score[k] - max]]

ScoresOf(score, length) == \A k \in 0 .. length - 1 : score[k] \in 0 .. MaxScore

\* What the kernel has accumulated over the first n offsets.
Accumulated(run, n, length, score) ==
    /\ run.max \in -1 .. MaxScore
    /\ run.max = -1 <=> InContext(n, length) = {}
    /\ \A k \in InContext(n, length) : score[k] <= run.max
    /\ DOMAIN run.weight = 0 .. n - 1
    /\ \A k \in 0 .. n - 1 :
            run.weight[k] = IF k < length THEN Pow2[MaxScore + score[k] - run.max] ELSE 0
    /\ run.sum = SumFunctionOnSet(Probabilities(score, run.max, InContext(n, length)), InContext(n, length))

\* The share of a score under a greater maximum.
LEMMA ShareRescaled ==
    ASSUME NEW x \in 0 .. MaxScore, NEW max \in 0 .. MaxScore, NEW next \in max .. MaxScore
    PROVE  /\ Pow2[MaxScore + x - next] \in Nat
           /\ Pow2[MaxScore + x - max] = Pow2[next - max] * Pow2[MaxScore + x - next]
           /\ Pow2[MaxScore + x - max] \div Pow2[next - max] = Pow2[MaxScore + x - next]
  <1> DEFINE a == Pow2[next - max]
             b == Pow2[MaxScore + x - next]
  <1>1. next - max \in Nat /\ MaxScore + x - next \in Nat
    BY MaxScoreAssumption
  <1>2. (next - max) + (MaxScore + x - next) = MaxScore + x - max
    BY MaxScoreAssumption
  <1>3. a \in Nat \ {0} /\ b \in Nat
    BY <1>1, PowersPositive
  <1>4. Pow2[(next - max) + (MaxScore + x - next)] = a * b
    BY <1>1, PowersMultiply
  <1> HIDE DEF a, b
  <1>5. (a * b) \div a = b
    BY <1>3, ExactDivision
  <1>6. Pow2[MaxScore + x - max] = a * b
    BY <1>2, <1>4, Zenon
  <1> QED
    BY <1>3, <1>5, <1>6 DEF a, b

\* The sum of the shares under a greater maximum.
LEMMA SumRescaled ==
    ASSUME NEW live, IsFiniteSet(live), NEW score, NEW max \in 0 .. MaxScore,
           NEW next \in max .. MaxScore, \A k \in live : score[k] \in 0 .. MaxScore
    PROVE  SumFunctionOnSet(Probabilities(score, max, live), live) \div Pow2[next - max]
             = SumFunctionOnSet(Probabilities(score, next, live), live)
  <1> DEFINE a == Pow2[next - max]
             f == Probabilities(score, next, live)
             e == Probabilities(score, max, live)
  <1>1. next - max \in Nat
    BY MaxScoreAssumption
  <1>2. a \in Nat \ {0}
    BY <1>1, PowersPositive
  <1>3. \A k \in live : f[k] \in Nat /\ e[k] = a * f[k]
    BY ShareRescaled DEF Probabilities
  <1> HIDE DEF a, f, e
  <1>4. SumFunctionOnSet(e, live) = a * SumFunctionOnSet(f, live)
    BY <1>2, <1>3, SumScaled
  <1>5. SumFunctionOnSet(f, live) \in Nat
    BY <1>3, SumOfNaturals
  <1>6. SumFunctionOnSet(e, live) \div a = SumFunctionOnSet(f, live)
    BY <1>2, <1>4, <1>5, ExactDivision
  <1> QED
    BY <1>6 DEF a, f, e

\* A turn of the kernel's loop accumulates the next BlockN offsets.
LEMMA NextChunk ==
    ASSUME NEW n \in Nat, NEW length \in Nat, NEW score, ScoresOf(score, length),
           NEW run, Accumulated(run, n, length, score)
    PROVE  Accumulated(SoftmaxChunk(run, n, length, score), n + BlockN, length, score)
  <1> DEFINE offsets == n .. n + BlockN - 1
             live == {k \in offsets : TokenMask(k, length)}
             next == Max({run.max} \union {score[k] : k \in live})
             probability == [k \in offsets |->
                IF k \in live THEN Pow2[MaxScore + score[k] - next] ELSE 0]
             old == InContext(n, length)
             new == InContext(n + BlockN, length)
             out == SoftmaxChunk(run, n, length, score)
  <1>1. BlockN \in Nat /\ BlockN > 0 /\ MaxScore \in Nat
    BY BlockNAssumption, MaxScoreAssumption
  <1>2. /\ out.max = next
        /\ out.sum = Correction(run.sum, run.max, next) + SumFunction(probability)
        /\ out.weight = [k \in DOMAIN run.weight \union offsets |->
                            IF k \in offsets THEN probability[k]
                            ELSE Correction(run.weight[k], run.max, next)]
    BY DEF SoftmaxChunk
  <1>3. /\ run.max \in -1 .. MaxScore
        /\ run.max = -1 <=> old = {}
        /\ \A k \in old : score[k] <= run.max
        /\ DOMAIN run.weight = 0 .. n - 1
        /\ \A k \in 0 .. n - 1 :
                run.weight[k] = IF k < length THEN Pow2[MaxScore + score[k] - run.max] ELSE 0
        /\ run.sum = SumFunctionOnSet(Probabilities(score, run.max, old), old)
    BY DEF Accumulated
  <1>4. \A k \in Int : k \in live <=> k \in offsets /\ k < length
    BY DEF TokenMask
  <1>5. offsets \subseteq Nat /\ live \subseteq offsets /\ 0 .. (n + BlockN) - 1 = (0 .. n - 1) \union offsets
    BY <1>1
  <1>6. new = old \union live /\ old \intersect live = {}
    BY <1>1, <1>4 DEF InContext
  <1>7. /\ IsFiniteSet(offsets) /\ IsFiniteSet(live) /\ IsFiniteSet(old) /\ IsFiniteSet(offsets \ live)
    <2>1. IsFiniteSet(offsets) /\ IsFiniteSet(0 .. n - 1)
      BY <1>1, FS_Interval
    <2>2. old \subseteq 0 .. n - 1 /\ offsets \ live \subseteq offsets
      BY DEF InContext
    <2> HIDE DEF offsets, live, old
    <2> QED
      BY <1>5, <2>1, <2>2, FS_Subset
  <1>8. /\ \A k \in live : score[k] \in 0 .. MaxScore
        /\ \A k \in old : score[k] \in 0 .. MaxScore
    <2>1. \A k \in live : k \in 0 .. length - 1
      BY <1>4, <1>5
    <2>2. \A k \in old : k \in 0 .. length - 1
      BY DEF InContext
    <2> HIDE DEF live, old
    <2> QED
      BY <2>1, <2>2 DEF ScoresOf
  <1> HIDE DEF offsets, live, old, new, out
  <1>9. Greatest({run.max} \union {score[k] : k \in live}, next)
    <2> DEFINE M == {run.max} \union {score[k] : k \in live}
    <2>1. M \subseteq -1 .. MaxScore /\ M # {}
      BY <1>1, <1>3, <1>8
    <2>2. IsFiniteSet(-1 .. MaxScore)
      BY <1>1, FS_Interval
    <2>3. M \subseteq Int
      BY <2>1
    <2> HIDE DEF M
    <2>4. IsFiniteSet(M)
      BY <2>1, <2>2, FS_Subset
    <2>5. Greatest(M, Max(M))
      BY <2>1, <2>3, <2>4, GreatestOfFinite
    <2> QED
      BY <2>5 DEF M
  <1>10. /\ next \in {run.max} \union {score[k] : k \in live}
         /\ next >= run.max /\ \A k \in live : next >= score[k]
    BY <1>9 DEF Greatest
  <1> HIDE DEF next
  <1>11. next \in -1 .. MaxScore
    BY <1>1, <1>3, <1>8, <1>10
  <1>12. next = -1 <=> new = {}
    <2>1. ASSUME next = -1 PROVE new = {}
      <3>1. run.max = -1
        BY <1>3, <1>10, <2>1
      <3>2. live = {}
        BY <1>8, <1>10, <2>1
      <3> QED
        BY <1>3, <1>6, <3>1, <3>2
    <2>2. ASSUME new = {} PROVE next = -1
      <3>1. run.max = -1 /\ live = {}
        BY <1>3, <1>6, <2>2
      <3> QED
        BY <1>10, <3>1
    <2> QED
      BY <2>1, <2>2
  <1>13. \A k \in new : score[k] <= next
    <2>1. ASSUME NEW k \in old PROVE score[k] <= next
      <3>1. score[k] \in Int /\ run.max \in Int /\ next \in Int /\ score[k] <= run.max /\ run.max <= next
        BY <1>3, <1>8, <1>10, <1>11
      <3> QED
        BY <3>1
    <2>2. ASSUME NEW k \in live PROVE score[k] <= next
      BY <1>8, <1>10, <1>11
    <2> QED
      BY <1>6, <2>1, <2>2
  <1>14. DOMAIN out.weight = 0 .. (n + BlockN) - 1
    BY <1>2, <1>3, <1>5
  <1>15. \A x : run.max = -1 => Correction(x, run.max, next) = 0
    BY DEF Correction
  <1>16. run.max # -1 =>
            /\ run.max \in 0 .. MaxScore /\ next \in run.max .. MaxScore
            /\ \A x : Correction(x, run.max, next) = x \div Pow2[next - run.max]
    BY <1>3, <1>10, <1>11 DEF Correction
  <1>17. ASSUME NEW k \in 0 .. (n + BlockN) - 1
         PROVE  out.weight[k] = IF k < length THEN Pow2[MaxScore + score[k] - next] ELSE 0
    <2>1. CASE k \in offsets
      <3>1. out.weight[k] = probability[k]
        BY <1>2, <1>3, <2>1
      <3>2. probability[k] = IF k \in live THEN Pow2[MaxScore + score[k] - next] ELSE 0
        BY <2>1
      <3>3. k \in live <=> k < length
        BY <1>4, <2>1
      <3> QED
        BY <3>1, <3>2, <3>3
    <2>2. CASE k \notin offsets
      <3>1. k \in 0 .. n - 1
        BY <1>5, <2>2
      <3>2. out.weight[k] = Correction(run.weight[k], run.max, next)
        BY <1>2, <1>3, <2>2, <3>1
      <3>3. CASE k < length
        <4>1. k \in old
          BY <3>1, <3>3 DEF old, InContext
        <4>2. run.max # -1 /\ run.weight[k] = Pow2[MaxScore + score[k] - run.max]
          BY <1>3, <3>1, <3>3, <4>1
        <4>3. Pow2[MaxScore + score[k] - run.max] \div Pow2[next - run.max]
                = Pow2[MaxScore + score[k] - next]
          <5>1. run.max \in 0 .. MaxScore /\ next \in run.max .. MaxScore
            BY <1>16, <4>2
          <5>2. score[k] \in 0 .. MaxScore
            BY <1>8, <4>1
          <5> QED
            BY <5>1, <5>2, ShareRescaled
        <4> QED
          BY <1>16, <3>2, <3>3, <4>1, <4>2, <4>3
      <3>4. CASE ~ (k < length)
        <4>1. run.weight[k] = 0
          BY <1>3, <3>1, <3>4
        <4>2. Correction(0, run.max, next) = 0
          <5>1. CASE run.max = -1
            BY <1>15, <5>1
          <5>2. CASE run.max # -1
            <6>1. next - run.max \in Nat
              BY <1>16, <5>2
            <6>2. Pow2[next - run.max] \in Nat \ {0}
              BY <6>1, PowersPositive
            <6>3. \A x \in Nat \ {0} : 0 \div x = 0
              BY SMTT(30)
            <6> QED
              BY <1>16, <5>2, <6>2, <6>3
          <5> QED
            BY <5>1, <5>2
        <4> QED
          BY <3>2, <3>4, <4>1, <4>2
      <3> QED
        BY <3>3, <3>4
    <2> QED
      BY <2>1, <2>2
  <1>18. Correction(run.sum, run.max, next) = SumFunctionOnSet(Probabilities(score, next, old), old)
    <2>1. CASE run.max = -1
      <3>1. old = {}
        BY <1>3, <2>1
      <3> QED
        BY <1>15, <2>1, <3>1, SumOfNone
    <2>2. CASE run.max # -1
      <3>1. SumFunctionOnSet(Probabilities(score, run.max, old), old) \div Pow2[next - run.max]
                = SumFunctionOnSet(Probabilities(score, next, old), old)
        BY <1>7, <1>8, <1>16, <2>2, SumRescaled
      <3> QED
        BY <1>3, <1>16, <2>2, <3>1
    <2> QED
      BY <2>1, <2>2
  <1> DEFINE shares == Probabilities(score, next, new)
  <1>19. \A k \in new : shares[k] = Pow2[MaxScore + score[k] - next] /\ shares[k] \in Nat
    <2> SUFFICES ASSUME NEW k \in new
                 PROVE  shares[k] = Pow2[MaxScore + score[k] - next] /\ shares[k] \in Nat
      OBVIOUS
    <2>1. score[k] \in 0 .. MaxScore
      BY <1>6, <1>8
    <2>2. MaxScore + score[k] - next \in Nat
      BY <1>1, <1>11, <2>1
    <2> QED
      BY <2>2, PowersPositive DEF Probabilities
  <1> HIDE DEF shares
  <1>20. SumFunctionOnSet(Probabilities(score, next, old), old) = SumFunctionOnSet(shares, old)
    <2>1. ASSUME NEW k \in old
          PROVE  /\ Probabilities(score, next, old)[k] = shares[k]
                 /\ Probabilities(score, next, old)[k] \in Int
      <3>1. k \in new
        BY <1>6
      <3>2. Probabilities(score, next, old)[k] = Pow2[MaxScore + score[k] - next]
        BY DEF Probabilities
      <3> QED
        BY <1>19, <3>1, <3>2
    <2> QED
      BY <1>7, <2>1, SumOfSame
  <1>21. SumFunction(probability) = SumFunctionOnSet(shares, live)
    <2>1. DOMAIN probability = offsets
      OBVIOUS
    <2>2. ASSUME NEW k \in live
          PROVE  probability[k] = shares[k]
      <3>1. k \in new /\ k \in offsets
        BY <1>5, <1>6
      <3> QED
        BY <1>19, <3>1
    <2>3. \A k \in offsets \ live : probability[k] = 0
      OBVIOUS
    <2>4. live \union (offsets \ live) = offsets /\ live \intersect (offsets \ live) = {}
      BY <1>5
    <2> HIDE DEF probability
    <2>5. ASSUME NEW k \in live \union (offsets \ live)
          PROVE  probability[k] \in Int
      <3>1. CASE k \in live
        <4>1. k \in new
          BY <1>6, <3>1
        <4> QED
          BY <1>19, <2>2, <3>1, <4>1
      <3>2. CASE k \in offsets \ live
        BY <2>3, <3>2
      <3> QED
        BY <3>1, <3>2
    <2>6. SumFunctionOnSet(probability, live \union (offsets \ live))
            = SumFunctionOnSet(probability, live) + SumFunctionOnSet(probability, offsets \ live)
      BY <1>7, <2>4, <2>5, SumOfUnion
    <2>7. SumFunctionOnSet(probability, offsets \ live) = 0
      BY <1>7, <2>3, SumOfZeros
    <2>8. SumFunctionOnSet(probability, live) \in Int
      BY <1>7, <2>4, <2>5, SumOfUnion
    <2>9. SumFunctionOnSet(probability, live) = SumFunctionOnSet(shares, live)
      BY <1>7, <2>2, <2>5, SumOfSame
    <2>10. SumFunction(probability) = SumFunctionOnSet(probability, live \union (offsets \ live))
      BY <2>1, <2>4 DEF SumFunction
    <2> QED
      BY <2>6, <2>7, <2>8, <2>9, <2>10
  <1>22. out.sum = SumFunctionOnSet(Probabilities(score, next, new), new)
    <2>1. ASSUME NEW k \in old \union live
          PROVE  shares[k] \in Int
      <3>1. k \in new
        BY <1>6
      <3> QED
        BY <1>19, <3>1
    <2> HIDE DEF probability
    <2>2. SumFunctionOnSet(shares, old \union live)
            = SumFunctionOnSet(shares, old) + SumFunctionOnSet(shares, live)
      BY <1>6, <1>7, <2>1, SumOfUnion
    <2>3. out.sum = SumFunctionOnSet(shares, old) + SumFunctionOnSet(shares, live)
      BY <1>2, <1>18, <1>20, <1>21
    <2>4. out.sum = SumFunctionOnSet(shares, new)
      BY <1>6, <2>2, <2>3, Zenon
    <2> QED
      BY <2>4 DEF shares
  <1> QED
    BY <1>2, <1>11, <1>12, <1>13, <1>14, <1>17, <1>22 DEF Accumulated, out, new

\* The turns of the loop, one after the other.
Turns(f, c, length, score) ==
    f = [i \in 0 .. c |->
            IF i = 0 THEN [max |-> -1, sum |-> 0, weight |-> <<>>]
            ELSE SoftmaxChunk(f[i - 1], (i - 1) * BlockN, length, score)]

LEMMA TurnsExist ==
    ASSUME NEW length, NEW score
    PROVE  \A c \in Nat : \E f : Turns(f, c, length, score)
  <1> DEFINE B == {c \in Nat : ~ \E f : Turns(f, c, length, score)}
  <1>1. SUFFICES ASSUME B # {} PROVE FALSE
    OBVIOUS
  <1>2. PICK c \in B : \A m \in B : c <= m
    <2>1. B \in SUBSET Nat
      OBVIOUS
    <2> HIDE DEF B
    <2> QED
      BY <1>1, <2>1, SmallestNat
  <1>3. c # 0
    <2> DEFINE g == [i \in 0 .. 0 |-> [max |-> -1, sum |-> 0, weight |-> <<>>]]
    <2>1. Turns(g, 0, length, score)
      BY DEF Turns
    <2> QED
      BY <1>2, <2>1
  <1>4. c \in Nat /\ c - 1 \in Nat /\ c - 1 \notin B
    BY <1>2, <1>3
  <1>5. PICK f : Turns(f, c - 1, length, score)
    BY <1>4
  <1> DEFINE g == [i \in 0 .. c |->
                    IF i = c THEN SoftmaxChunk(f[c - 1], (c - 1) * BlockN, length, score) ELSE f[i]]
             h == [i \in 0 .. c |->
                    IF i = 0 THEN [max |-> -1, sum |-> 0, weight |-> <<>>]
                    ELSE SoftmaxChunk(g[i - 1], (i - 1) * BlockN, length, score)]
  <1>6. \A i \in 0 .. c : g[i] = h[i]
    <2> SUFFICES ASSUME NEW i \in 0 .. c PROVE g[i] = h[i]
      OBVIOUS
    <2>1. \A j \in 0 .. c - 1 : g[j] = f[j]
      BY <1>4
    <2>2. \A j \in 0 .. c - 1 :
            f[j] = IF j = 0 THEN [max |-> -1, sum |-> 0, weight |-> <<>>]
                   ELSE SoftmaxChunk(f[j - 1], (j - 1) * BlockN, length, score)
      BY <1>5 DEF Turns
    <2>3. h[i] = IF i = 0 THEN [max |-> -1, sum |-> 0, weight |-> <<>>]
                 ELSE SoftmaxChunk(g[i - 1], (i - 1) * BlockN, length, score)
      OBVIOUS
    <2>4. g[c] = SoftmaxChunk(f[c - 1], (c - 1) * BlockN, length, score)
      BY <1>4
    <2> HIDE DEF g, h
    <2>5. CASE i = 0
      <3>1. 0 \in 0 .. c - 1
        BY <1>4
      <3> QED
        BY <2>1, <2>2, <2>3, <2>5, <3>1
    <2>6. CASE i # 0
      <3>1. i - 1 \in 0 .. c - 1 /\ (i = c \/ i \in 0 .. c - 1)
        BY <1>4, <2>6
      <3>2. g[i - 1] = f[i - 1]
        BY <2>1, <3>1
      <3> QED
        BY <2>1, <2>2, <2>3, <2>4, <2>6, <3>1, <3>2
    <2> QED
      BY <2>5, <2>6
  <1>7. g = h
    <2>1. g = [i \in 0 .. c |-> g[i]] /\ h = [i \in 0 .. c |-> h[i]]
      OBVIOUS
    <2> HIDE DEF g, h
    <2> QED
      BY <1>6, <2>1
  <1>8. Turns(g, c, length, score)
    <2> HIDE DEF g
    <2> QED
      BY <1>7 DEF Turns, h
  <1> QED
    BY <1>2, <1>8

\* The softmax of a row covers its context, whatever the kernel is compiled for.
LEMMA OnlineSoftmaxCovers ==
    ASSUME NEW length \in Nat, NEW max_context \in Nat, max_context >= length,
           NEW score, ScoresOf(score, length)
    PROVE  \E n \in Nat :
            n >= length /\ Accumulated(OnlineSoftmax(length, max_context, score), n, length, score)
  <1> DEFINE chunks == (max_context + BlockN - 1) \div BlockN
             after == CHOOSE f : Turns(f, chunks, length, score)
  <1>1. BlockN \in Nat /\ BlockN > 0
    BY BlockNAssumption
  <1>2. chunks \in Nat /\ chunks * BlockN \in Nat /\ chunks * BlockN >= max_context
    <2> DEFINE m == max_context + BlockN - 1
               q == m \div BlockN
               o == m % BlockN
    <2>1. m \in Nat
      BY <1>1
    <2>2. q \in Nat /\ o \in 0 .. BlockN - 1 /\ m = q * BlockN + o
      BY <1>1, <2>1, SMTT(30)
    <2>3. q * BlockN \in Nat
      BY <1>1, <2>2, SMTT(30)
    <2>4. q = chunks
      OBVIOUS
    <2>5. q * BlockN >= max_context
      <3>1. max_context + BlockN - 1 = q * BlockN + o
        BY <2>2
      <3> HIDE DEF q, o
      <3> QED
        BY <1>1, <2>2, <2>3, <3>1
    <2> HIDE DEF q, o, chunks
    <2> QED
      BY <2>2, <2>3, <2>4, <2>5
  <1>3. OnlineSoftmax(length, max_context, score) = after[chunks]
    BY DEF OnlineSoftmax, Turns
  <1> HIDE DEF chunks
  <1>4. Turns(after, chunks, length, score)
    BY <1>2, TurnsExist
  <1> HIDE DEF after
  <1>5. \A i \in 0 .. chunks :
            after[i] = IF i = 0 THEN [max |-> -1, sum |-> 0, weight |-> <<>>]
                       ELSE SoftmaxChunk(after[i - 1], (i - 1) * BlockN, length, score)
    BY <1>4 DEF Turns
  <1> DEFINE B == {i \in Nat : i <= chunks /\ ~ Accumulated(after[i], i * BlockN, length, score)}
  <1>6. B = {}
    <2>1. SUFFICES ASSUME B # {} PROVE FALSE
      OBVIOUS
    <2>2. PICK i \in B : \A j \in B : i <= j
      <3>1. B \in SUBSET Nat
        OBVIOUS
      <3> HIDE DEF B
      <3> QED
        BY <2>1, <3>1, SmallestNat
    <2>3. i \in Nat /\ i <= chunks /\ i \in 0 .. chunks
      BY <1>2, <2>2
    <2>4. i # 0
      <3> SUFFICES ASSUME i = 0 PROVE FALSE
        OBVIOUS
      <3>1. after[0] = [max |-> -1, sum |-> 0, weight |-> <<>>]
        BY <1>2, <1>5
      <3>2. i * BlockN = 0
        BY <1>1
      <3>3. InContext(0, length) = {}
        BY DEF InContext
      <3>4. Accumulated(after[0], 0, length, score)
        <4>1. after[0].max = -1 /\ after[0].sum = 0 /\ DOMAIN after[0].weight = 0 .. 0 - 1
          BY <3>1
        <4>2. -1 \in -1 .. MaxScore
          BY MaxScoreAssumption
        <4>3. SumFunctionOnSet(Probabilities(score, after[0].max, InContext(0, length)),
                               InContext(0, length)) = 0
          BY <3>3, SumOfNone
        <4>4. \A k \in 0 .. 0 - 1 : FALSE
          OBVIOUS
        <4> QED
          BY <3>3, <4>1, <4>2, <4>3, <4>4 DEF Accumulated
      <3> QED
        BY <2>2, <3>2, <3>4
    <2>5. i - 1 \in Nat /\ i - 1 <= chunks /\ i - 1 \notin B
      BY <1>2, <2>2, <2>3, <2>4
    <2>6. Accumulated(after[i - 1], (i - 1) * BlockN, length, score)
      BY <2>5
    <2>7. (i - 1) * BlockN \in Nat /\ (i - 1) * BlockN + BlockN = i * BlockN
      BY <1>1, <2>3, <2>5, SMTT(30)
    <2>8. after[i] = SoftmaxChunk(after[i - 1], (i - 1) * BlockN, length, score)
      BY <1>5, <2>3, <2>4
    <2>9. Accumulated(after[i], (i - 1) * BlockN + BlockN, length, score)
      BY <2>6, <2>7, <2>8, NextChunk
    <2> QED
      BY <2>2, <2>7, <2>9
  <1>7. Accumulated(after[chunks], chunks * BlockN, length, score)
    BY <1>2, <1>6
  <1>8. chunks * BlockN >= length
    BY <1>2
  <1> QED
    BY <1>2, <1>3, <1>7, <1>8

SameScores(score, other, length) ==
    /\ DOMAIN score = 0 .. length - 1
    /\ \A k \in 0 .. length - 1 : score[k] \in 0 .. MaxScore /\ other[k] = score[k]

GetsItsShare(run, score, k) ==
    run.weight[k] * ReferenceSoftmax(score).sum
        = run.sum * (IF k \in DOMAIN score THEN ReferenceSoftmax(score).weight[k] ELSE 0)

\* An offset's share of the online softmax is its share of the reference's.
LEMMA SharesAgree ==
    ASSUME NEW length \in Nat \ {0}, NEW score, NEW other, SameScores(score, other, length),
           NEW n \in Nat, n >= length, NEW run, Accumulated(run, n, length, other),
           NEW k \in DOMAIN run.weight
    PROVE  GetsItsShare(run, score, k)
  <1> DEFINE context == InContext(n, length)
             weight == [i \in DOMAIN score |-> Pow2[score[i]]]
             total == SumFunctionOnSet(weight, context)
             a == Pow2[MaxScore - run.max]
             shares == Probabilities(other, run.max, context)
  <1>1. /\ DOMAIN score = 0 .. length - 1
        /\ \A i \in 0 .. length - 1 : score[i] \in 0 .. MaxScore /\ other[i] = score[i]
    BY DEF SameScores
  <1>2. MaxScore \in Nat /\ context = 0 .. length - 1 /\ DOMAIN weight = context /\ 0 \in context
    BY <1>1, MaxScoreAssumption DEF InContext
  <1>3. IsFiniteSet(context)
    BY <1>2, FS_Interval
  <1>4. ReferenceSoftmax(score).sum = total /\ ReferenceSoftmax(score).weight = weight
    BY <1>1, <1>2 DEF ReferenceSoftmax, SumFunction
  <1>5. /\ run.max \in -1 .. MaxScore /\ run.max # -1
        /\ DOMAIN run.weight = 0 .. n - 1
        /\ \A i \in 0 .. n - 1 :
                run.weight[i] = IF i < length THEN Pow2[MaxScore + other[i] - run.max] ELSE 0
        /\ run.sum = SumFunctionOnSet(shares, context)
    BY <1>2 DEF Accumulated
  <1>6. MaxScore - run.max \in Nat
    BY <1>2, <1>5
  <1>7. a \in Nat
    BY <1>6, PowersPositive
  <1>8. ASSUME NEW i \in context
        PROVE  /\ weight[i] = Pow2[score[i]] /\ weight[i] \in Nat
               /\ shares[i] = Pow2[MaxScore + other[i] - run.max]
               /\ shares[i] = a * weight[i]
    <2>1. score[i] \in Nat /\ other[i] = score[i]
      BY <1>1, <1>2
    <2>2. (MaxScore - run.max) + score[i] = MaxScore + other[i] - run.max
      BY <1>2, <1>5, <2>1
    <2>3. Pow2[(MaxScore - run.max) + score[i]] = a * Pow2[score[i]]
      BY <1>6, <2>1, PowersMultiply
    <2>4. weight[i] = Pow2[score[i]] /\ shares[i] = Pow2[MaxScore + other[i] - run.max]
      BY <1>2 DEF Probabilities
    <2> QED
      BY <2>1, <2>2, <2>3, <2>4, PowersPositive
  <1> HIDE DEF a, shares, weight, context, total
  <1>9. run.sum = a * total
    <2>1. a \in Int /\ \A i \in context : weight[i] \in Int /\ shares[i] = a * weight[i]
      BY <1>7, <1>8
    <2>2. SumFunctionOnSet(shares, context) = a * SumFunctionOnSet(weight, context)
      BY <1>3, <2>1, SumScaled
    <2> QED
      BY <1>5, <2>2 DEF total
  <1>10. total \in Nat
    BY <1>3, <1>8, SumOfNaturals DEF total
  <1>11. CASE k \in context
    <2>1. run.weight[k] = a * weight[k]
      <3>1. k \in 0 .. n - 1 /\ k < length
        BY <1>2, <1>5, <1>11
      <3>2. run.weight[k] = Pow2[MaxScore + other[k] - run.max]
        BY <1>5, <3>1
      <3> QED
        BY <1>8, <1>11, <3>2
    <2>2. \A x, y, z \in Nat : (x * y) * z = (x * z) * y
      OBVIOUS
    <2>3. (a * weight[k]) * total = (a * total) * weight[k]
      BY <1>7, <1>8, <1>10, <1>11, <2>2
    <2>4. k \in DOMAIN score
      BY <1>1, <1>2, <1>11
    <2> QED
      BY <1>4, <1>9, <2>1, <2>3, <2>4 DEF GetsItsShare
  <1>12. CASE k \notin context
    <2>1. k \in 0 .. n - 1 /\ ~ (k < length) /\ k \notin DOMAIN score
      BY <1>1, <1>2, <1>5, <1>12
    <2>2. run.weight[k] = 0
      BY <1>5, <2>1
    <2>3. run.sum \in Int
      BY <1>7, <1>9, <1>10
    <2>4. \A x \in Int : x * 0 = 0 /\ 0 * x = 0
      OBVIOUS
    <2>5. 0 * total = 0 /\ run.sum * 0 = 0
      BY <1>10, <2>3, <2>4
    <2> QED
      BY <1>4, <2>1, <2>2, <2>5 DEF GetsItsShare
  <1> QED
    BY <1>11, <1>12

-----------------------------------------------------------------------------
(* Batches.                                                                *)

LEMMA BatchOrder ==
    ASSUME NEW S, S \subseteq Seqs, NEW batch \in Batches(S)
    PROVE  \E n \in Nat \ {0} :
            /\ batch \in [1 .. n -> S]
            /\ \A i, j \in 1 .. n : batch[i] = batch[j] => i = j
  <1>1. PICK T \in SUBSET S : batch \in SetToSeqs(T) /\ batch # <<>>
    BY DEF Batches, SetToAllKPermutations
  <1> DEFINE n == Cardinality(T)
  <1>2. n \in Nat
    BY <1>1, SeqsAssumption, FS_Subset, FS_CardinalityType
  <1>3. batch \in [1 .. n -> T] /\ \A i, j \in 1 .. n : i # j => batch[i] # batch[j]
    BY <1>1 DEF SetToSeqs
  <1> HIDE DEF n
  <1>4. batch \in [1 .. n -> S]
    BY <1>3
  <1>5. n # 0
    <2> SUFFICES ASSUME n = 0 PROVE FALSE
      OBVIOUS
    <2>1. batch \in Seq(S) /\ Len(batch) = 0
      BY <1>2, <1>4
    <2> QED
      BY <1>1, <2>1, EmptySeq
  <1> QED
    BY <1>2, <1>3, <1>4, <1>5

\* The positions of a request that is about to decode.
LEMMA DecodeLength ==
    ASSUME KVInv, NEW s \in Scheduled \ Prefills
    PROVE  /\ End(DecodeItem(s, <<>>)) = Start(s) + 1
           /\ Start(s) \in Nat
  <1>1. s \in Seqs /\ work[s] = "scheduled"
    BY DEF Scheduled
  <1>2. Start(s) \in Nat
    BY <1>1, ScheduledReserved
  <1>3. DecodeItem(s, <<>>).start = Start(s) /\ Len(DecodeItem(s, <<>>).tokens) = 1
    BY DEF DecodeItem
  <1> QED
    BY <1>2, <1>3 DEF End

LEMMA KernelAgrees == KVInv => KernelAgreesWithReference
  <1> SUFFICES ASSUME KVInv, NEW batch \in Batches(Scheduled \ Prefills)
               PROVE  LET items == DecodeItems(batch)
                          context_lens == [i \in DOMAIN items |-> End(items[i])]
                          max_context == MaxContext(context_lens)
                      IN  \A i \in DOMAIN items :
                          \A score \in [0 .. context_lens[i] - 1 -> 0 .. MaxScore] :
                            LET context == DOMAIN score
                                Score(k) == IF k \in context THEN score[k] ELSE MaxScore
                                online == OnlineSoftmax(context_lens[i], max_context,
                                            [k \in 0 .. max_context + BlockN |-> Score(k)])
                                reference == ReferenceSoftmax(score)
                            IN  /\ context \subseteq DOMAIN online.weight
                                /\ \A k \in DOMAIN online.weight :
                                    online.weight[k] * reference.sum
                                      = online.sum
                                          * IF k \in context THEN reference.weight[k] ELSE 0
    BY DEF KernelAgreesWithReference
  <1> DEFINE items == DecodeItems(batch)
             context_lens == [i \in DOMAIN items |-> End(items[i])]
             max_context == MaxContext(context_lens)
  <1>1. PICK n \in Nat \ {0} : batch \in [1 .. n -> Scheduled \ Prefills]
    <2>1. Scheduled \ Prefills \subseteq Seqs
      BY DEF Scheduled
    <2> QED
      BY <2>1, BatchOrder
  <1>2. DOMAIN items = 1 .. n /\ \A i \in 1 .. n : items[i] = DecodeItem(batch[i], <<>>)
    BY <1>1 DEF DecodeItems
  <1>3. Lengths(context_lens, n)
    <2>1. ASSUME NEW i \in 1 .. n PROVE End(items[i]) \in Nat \ {0}
      <3>1. batch[i] \in Scheduled \ Prefills
        BY <1>1
      <3>2. items[i] = DecodeItem(batch[i], <<>>)
        BY <1>2
      <3>3. End(DecodeItem(batch[i], <<>>)) = Start(batch[i]) + 1 /\ Start(batch[i]) \in Nat
        BY <3>1, DecodeLength
      <3> QED
        BY <3>2, <3>3
    <2> HIDE DEF items
    <2> QED
      BY <1>2, <2>1 DEF Lengths
  <1>4. \A i \in 1 .. n : context_lens[i] \in Nat \ {0}
    BY <1>3 DEF Lengths
  <1> HIDE DEF items, context_lens
  <1>5. max_context \in Nat /\ \A i \in 1 .. n : max_context >= context_lens[i]
    BY <1>3, MaxContextCovers
  <1> HIDE DEF max_context
  <1>6. ASSUME NEW i \in 1 .. n, NEW score \in [0 .. context_lens[i] - 1 -> 0 .. MaxScore]
        PROVE  LET context == DOMAIN score
                   Score(k) == IF k \in context THEN score[k] ELSE MaxScore
                   online == OnlineSoftmax(context_lens[i], max_context,
                               [k \in 0 .. max_context + BlockN |-> Score(k)])
                   reference == ReferenceSoftmax(score)
               IN  /\ context \subseteq DOMAIN online.weight
                   /\ \A k \in DOMAIN online.weight :
                       online.weight[k] * reference.sum
                         = online.sum
                             * IF k \in context THEN reference.weight[k] ELSE 0
    <2> DEFINE length == context_lens[i]
               other == [k \in 0 .. max_context + BlockN |->
                            IF k \in DOMAIN score THEN score[k] ELSE MaxScore]
               online == OnlineSoftmax(length, max_context, other)
    <2>1. length \in Nat \ {0} /\ max_context >= length /\ BlockN \in Nat
      BY <1>4, <1>5, BlockNAssumption
    <2>2. DOMAIN score = 0 .. length - 1 /\ \A k \in 0 .. length - 1 : score[k] \in 0 .. MaxScore
      OBVIOUS
    <2> HIDE DEF length
    <2>3. \A k \in 0 .. length - 1 : other[k] = score[k]
      <3>1. \A k \in 0 .. length - 1 : k \in 0 .. max_context + BlockN
        BY <1>5, <2>1
      <3> QED
        BY <2>2, <3>1
    <2> HIDE DEF other
    <2>4. ScoresOf(other, length)
      BY <2>2, <2>3 DEF ScoresOf
    <2>5. PICK m \in Nat : m >= length /\ Accumulated(online, m, length, other)
      BY <1>5, <2>1, <2>4, OnlineSoftmaxCovers
    <2> HIDE DEF online
    <2>6. DOMAIN score \subseteq DOMAIN online.weight
      <3>1. DOMAIN online.weight = 0 .. m - 1
        BY <2>5 DEF Accumulated
      <3> QED
        BY <2>1, <2>2, <2>5, <3>1
    <2>7. SameScores(score, other, length)
      BY <2>2, <2>3 DEF SameScores
    <2>8. \A k \in DOMAIN online.weight : GetsItsShare(online, score, k)
      BY <2>1, <2>5, <2>7, SharesAgree
    <2> QED
      BY <2>6, <2>8 DEF GetsItsShare, online, other, length
  <1> QED
    BY <1>2, <1>6 DEF items, context_lens, max_context

\* The decode kernel's online softmax over chunks gives every position of a
\* context the share that a softmax over the whole context gives it, and nothing
\* to any other offset, for all scores and in every batch.
THEOREM KernelIsExact == Spec => []KernelAgreesWithReference
  BY ContentsInvariance, KernelAgrees, PTL

-----------------------------------------------------------------------------
(* The transformer on a text.                                              *)

\* A layer of Hidden, given the layer below it.
LayerAbove(l, below) ==
    [text \in Seq(Tokens) |->
        IF l = 0 THEN Last(text)
        ELSE DecoderLayer(Len(text) - 1, below[text],
                          {KeyValue(n - 1, below[SubSeq(text, 1, n)]) : n \in 1 .. Len(text)})]

LayersUpTo(h, n) == h = [l \in 0 .. n |-> LayerAbove(l, h[l - 1])]

LEMMA LayersExist == \A n \in Nat : \E h : LayersUpTo(h, n)
  <1> DEFINE B == {n \in Nat : ~ \E h : LayersUpTo(h, n)}
  <1>1. SUFFICES ASSUME B # {} PROVE FALSE
    OBVIOUS
  <1>2. PICK n \in B : \A m \in B : n <= m
    <2>1. B \in SUBSET Nat
      OBVIOUS
    <2> HIDE DEF B
    <2> QED
      BY <1>1, <2>1, SmallestNat
  <1>3. \A x, y : LayerAbove(0, x) = LayerAbove(0, y)
    BY DEF LayerAbove
  <1>4. n # 0
    <2> DEFINE h == [l \in 0 .. 0 |-> LayerAbove(0, 0)]
    <2>1. \A l \in 0 .. 0 : LayerAbove(l, h[l - 1]) = LayerAbove(0, 0)
      <3>1. \A l \in 0 .. 0 : l = 0
        OBVIOUS
      <3> QED
        BY <1>3, <3>1
    <2>2. h = [l \in 0 .. 0 |-> LayerAbove(l, h[l - 1])]
      BY <2>1
    <2> HIDE DEF h
    <2> QED
      BY <1>2, <2>2 DEF LayersUpTo
  <1>5. n \in Nat /\ n - 1 \in Nat /\ n - 1 \notin B
    BY <1>2, <1>4
  <1>6. PICK h : LayersUpTo(h, n - 1)
    BY <1>5
  <1>7. \A l \in 0 .. n - 1 : h[l] = LayerAbove(l, h[l - 1])
    BY <1>6 DEF LayersUpTo
  <1> DEFINE g == [l \in 0 .. n |-> IF l = n THEN LayerAbove(n, h[n - 1]) ELSE h[l]]
  <1>8. /\ g[n] = LayerAbove(n, h[n - 1])
        /\ \A l \in 0 .. n - 1 : g[l] = h[l]
        /\ g = [l \in 0 .. n |-> g[l]]
    BY <1>5
  <1> HIDE DEF g
  <1>9. ASSUME NEW l \in 0 .. n
        PROVE  g[l] = LayerAbove(l, g[l - 1])
    <2>1. CASE l = 0
      <3>1. 0 \in 0 .. n - 1
        BY <1>5
      <3> QED
        BY <1>3, <1>7, <1>8, <2>1, <3>1
    <2>2. CASE l # 0
      <3>1. l - 1 \in 0 .. n - 1 /\ (l = n \/ l \in 0 .. n - 1)
        BY <1>5, <2>2
      <3>2. g[l - 1] = h[l - 1]
        BY <1>8, <3>1
      <3> QED
        BY <1>7, <1>8, <3>1, <3>2
    <2> QED
      BY <2>1, <2>2
  <1>10. g = [l \in 0 .. n |-> LayerAbove(l, g[l - 1])]
    BY <1>8, <1>9, Zenon
  <1> QED
    BY <1>2, <1>10 DEF LayersUpTo

LEMMA HiddenLayers == \A l \in 0 .. NumLayers : Hidden[l] = LayerAbove(l, Hidden[l - 1])
  <1>1. NumLayers \in Nat
    BY NumLayersAssumption
  <1>2. Hidden = CHOOSE h : LayersUpTo(h, NumLayers)
    BY DEF Hidden, LayersUpTo, LayerAbove
  <1>3. LayersUpTo(Hidden, NumLayers)
    BY <1>1, <1>2, LayersExist
  <1> QED
    BY <1>3 DEF LayersUpTo

Texts == Seq(Tokens) \ {<<>>}

LEMMA PrefixOfText ==
    ASSUME NEW text \in Texts, NEW n \in 1 .. Len(text)
    PROVE  /\ SubSeq(text, 1, n) \in Texts
           /\ Len(SubSeq(text, 1, n)) = n
           /\ \A i \in 1 .. n : SubSeq(text, 1, n)[i] = text[i]
  <1>1. Len(text) \in Nat /\ text \in Seq(Tokens)
    BY DEF Texts
  <1>2. /\ SubSeq(text, 1, n) \in Seq(Tokens) /\ Len(SubSeq(text, 1, n)) = n
        /\ \A i \in 1 .. n : SubSeq(text, 1, n)[i] = text[i]
    BY <1>1
  <1>3. SubSeq(text, 1, n) # <<>>
    BY <1>2
  <1> QED
    BY <1>2, <1>3 DEF Texts

\* A transformer computes numbers.
LEMMA HiddenIsNumber ==
    \A l \in 0 .. NumLayers : \A text \in Texts : Hidden[l][text] # NaN
  <1> DEFINE B == {l \in Nat : l <= NumLayers /\ \E text \in Texts : Hidden[l][text] = NaN}
  <1>1. NumLayers \in Nat
    BY NumLayersAssumption
  <1>2. SUFFICES ASSUME B # {} PROVE FALSE
    BY <1>1
  <1>3. PICK l \in B : \A m \in B : l <= m
    <2>1. B \in SUBSET Nat
      OBVIOUS
    <2> HIDE DEF B
    <2> QED
      BY <1>2, <2>1, SmallestNat
  <1>4. PICK text \in Texts : Hidden[l][text] = NaN
    BY <1>3
  <1>5. l \in 0 .. NumLayers /\ text \in Seq(Tokens) /\ Len(text) \in Nat \ {0}
    BY <1>1, <1>3, EmptySeq DEF Texts
  <1>6. Hidden[l] = LayerAbove(l, Hidden[l - 1])
    BY <1>5, HiddenLayers
  <1>7. l # 0
    <2> SUFFICES ASSUME l = 0 PROVE FALSE
      OBVIOUS
    <2>1. Hidden[l][text] = text[Len(text)]
      BY <1>5, <1>6 DEF LayerAbove, Last
    <2>2. text[Len(text)] \in Tokens
      BY <1>5
    <2> QED
      BY <1>4, <2>1, <2>2, NaNAssumption
  <1>8. l - 1 \in Nat /\ l - 1 <= NumLayers /\ l - 1 \notin B
    BY <1>1, <1>3, <1>5, <1>7
  <1>9. \A other \in Texts : Hidden[l - 1][other] # NaN
    BY <1>8
  <1> DEFINE attended == {KeyValue(n - 1, Hidden[l - 1][SubSeq(text, 1, n)]) : n \in 1 .. Len(text)}
  <1>10. NaN \notin attended
    <2> SUFFICES ASSUME NEW n \in 1 .. Len(text)
                 PROVE  KeyValue(n - 1, Hidden[l - 1][SubSeq(text, 1, n)]) # NaN
      OBVIOUS
    <2>1. Hidden[l - 1][SubSeq(text, 1, n)] # NaN
      BY <1>9, PrefixOfText
    <2>2. \A x, y : [position |-> x, hidden |-> y] # NaN
      BY DEF NaN
    <2> QED
      BY <2>1, <2>2 DEF KeyValue
  <1>11. Hidden[l][text] = DecoderLayer(Len(text) - 1, Hidden[l - 1][text], attended)
    BY <1>5, <1>6, <1>7 DEF LayerAbove
  <1> HIDE DEF attended
  <1>12. \A x, y, z : [position |-> x, residual |-> y, attended |-> z] # NaN
    BY DEF NaN
  <1> QED
    BY <1>4, <1>9, <1>10, <1>11, <1>12 DEF DecoderLayer

LEMMA StoredOfText ==
    ASSUME NEW l \in Layers, NEW text \in Texts
    PROVE  /\ Stored(l, text) = KeyValue(Len(text) - 1, Hidden[l - 1][text])
           /\ Stored(l, text) # NaN
  <1>1. l - 1 \in 0 .. NumLayers
    BY NumLayersAssumption DEF Layers
  <1>2. text # Garbage
    BY DEF Texts, Garbage
  <1>3. Hidden[l - 1][text] # NaN
    BY <1>1, HiddenIsNumber
  <1>4. \A x, y : [position |-> x, hidden |-> y] # NaN
    BY DEF NaN
  <1> QED
    BY <1>2, <1>3, <1>4 DEF Stored, KeyValue

\* What a layer has stored for the text's positions.
Remembered(l, text) == {Stored(l, SubSeq(text, 1, n)) : n \in 1 .. Len(text)}

LEMMA HiddenAbove ==
    ASSUME NEW l \in Layers, NEW text \in Texts
    PROVE  Hidden[l][text]
             = DecoderLayer(Len(text) - 1, Hidden[l - 1][text], Remembered(l, text))
  <1>1. l \in 0 .. NumLayers /\ l # 0
    BY NumLayersAssumption DEF Layers
  <1>2. text \in Seq(Tokens)
    BY DEF Texts
  <1>3. Hidden[l][text]
          = DecoderLayer(Len(text) - 1, Hidden[l - 1][text],
                {KeyValue(n - 1, Hidden[l - 1][SubSeq(text, 1, n)]) : n \in 1 .. Len(text)})
    BY <1>1, <1>2, HiddenLayers DEF LayerAbove
  <1>4. \A n \in 1 .. Len(text) :
            Stored(l, SubSeq(text, 1, n)) = KeyValue(n - 1, Hidden[l - 1][SubSeq(text, 1, n)])
    BY PrefixOfText, StoredOfText
  <1>5. Remembered(l, text)
          = {KeyValue(n - 1, Hidden[l - 1][SubSeq(text, 1, n)]) : n \in 1 .. Len(text)}
    BY <1>4 DEF Remembered
  <1> QED
    BY <1>3, <1>5

-----------------------------------------------------------------------------
(* The model on a flattened batch whose i-th token ends text[i].  `before`  *)
(* and `after` give the texts that the slots stand for.                     *)

Rows(metadata, n, text, before, after) ==
    /\ n \in Nat
    /\ metadata.input_ids = [i \in 1 .. n |-> Last(text[i])]
    /\ DOMAIN metadata.slot_mapping = 1 .. n
    /\ \A i \in 1 .. n :
        /\ text[i] \in Texts
        /\ metadata.positions[i] = Len(text[i]) - 1
        /\ metadata.slot_mapping[i] \in Slots
        /\ after[metadata.slot_mapping[i]] = text[i]
    /\ \A i, j \in 1 .. n : metadata.slot_mapping[i] = metadata.slot_mapping[j] => i = j
    /\ \A slot \in Slots : slot \in Range(metadata.slot_mapping) \/ after[slot] = before[slot]

\* One layer's slice of the pool.
Pool(l, contents) == [slot \in Slots |-> Stored(l, contents[slot])]

AttendsToText(metadata, is_decode, n, text, after) ==
    \A l \in Layers : \A i \in 1 .. n :
        Attention(Pool(l, after), metadata, is_decode, i) = Remembered(l, text[i])

\* The vectors go to their own slots and nowhere else.
LEMMA StoredRows ==
    ASSUME NEW metadata, NEW n, NEW text, NEW before, NEW after,
           Rows(metadata, n, text, before, after), NEW l,
           NEW values, \A i \in 1 .. n : values[i] = Stored(l, text[i])
    PROVE  store_kv(Pool(l, before), metadata.slot_mapping, values) = Pool(l, after)
  <1> DEFINE slots == metadata.slot_mapping
             stored == store_kv(Pool(l, before), slots, values)
             Writers(slot) == {i \in DOMAIN slots : slots[i] = slot}
  <1>1. /\ n \in Nat /\ DOMAIN slots = 1 .. n
        /\ \A i \in 1 .. n : after[slots[i]] = text[i]
        /\ \A i, j \in 1 .. n : slots[i] = slots[j] => i = j
        /\ \A slot \in Slots : slot \in Range(slots) \/ after[slot] = before[slot]
    BY DEF Rows
  <1>2. /\ stored = [slot \in Slots |-> stored[slot]]
        /\ \A slot \in Slots : stored[slot] = IF slot \in Range(slots) THEN values[Max(Writers(slot))]
                                              ELSE Pool(l, before)[slot]
    BY DEF store_kv
  <1> HIDE DEF slots, stored
  <1>3. ASSUME NEW slot \in Slots
        PROVE  stored[slot] = Stored(l, after[slot])
    <2>1. CASE slot \in Range(slots)
      <3>1. PICK i \in 1 .. n : slots[i] = slot
        BY <1>1, <2>1 DEF Range
      <3>2. Writers(slot) = {i}
        BY <1>1, <3>1
      <3>3. i \in Int
        OBVIOUS
      <3>4. Max({i}) = i
        BY <3>3 DEF Max
      <3>5. stored[slot] = values[i]
        BY <1>2, <2>1, <3>2, <3>4
      <3> QED
        BY <1>1, <3>1, <3>5
    <2>2. CASE slot \notin Range(slots)
      BY <1>1, <1>2, <2>2 DEF Pool
    <2> QED
      BY <2>1, <2>2
  <1> QED
    BY <1>2, <1>3 DEF Pool, stored, slots

\* What the first l layers leave.
LayersDone(run, l, n, text, before, after) ==
    /\ run.hidden = [i \in 1 .. n |-> Hidden[l][text[i]]]
    /\ DOMAIN run.kv_cache = Layers
    /\ \A m \in Layers : run.kv_cache[m] = Pool(m, IF m <= l THEN after ELSE before)

LEMMA LayerExact ==
    ASSUME NEW metadata, NEW n, NEW text, NEW before, NEW after,
           Rows(metadata, n, text, before, after),
           NEW is_decode, AttendsToText(metadata, is_decode, n, text, after),
           NEW l \in Layers, NEW run, LayersDone(run, l - 1, n, text, before, after)
    PROVE  LayersDone(LayerForward(l, run, metadata, is_decode), l, n, text, before, after)
  <1> DEFINE values == [i \in DOMAIN run.hidden |-> KeyValue(metadata.positions[i], run.hidden[i])]
             stored == store_kv(run.kv_cache[l], metadata.slot_mapping, values)
             out == LayerForward(l, run, metadata, is_decode)
  <1>1. /\ DOMAIN run.hidden = 1 .. n
        /\ \A i \in 1 .. n : run.hidden[i] = Hidden[l - 1][text[i]]
        /\ DOMAIN run.kv_cache = Layers
        /\ \A m \in Layers : run.kv_cache[m] = Pool(m, IF m <= l - 1 THEN after ELSE before)
    BY DEF LayersDone
  <1>2. \A m \in Layers : m \in Int
    BY DEF Layers
  <1>3. \A i \in 1 .. n : text[i] \in Texts /\ metadata.positions[i] = Len(text[i]) - 1
    BY DEF Rows
  <1>4. \A i \in 1 .. n : values[i] = Stored(l, text[i])
    <2> SUFFICES ASSUME NEW i \in 1 .. n PROVE values[i] = Stored(l, text[i])
      OBVIOUS
    <2>1. values[i] = KeyValue(metadata.positions[i], run.hidden[i])
      BY <1>1
    <2>2. Stored(l, text[i]) = KeyValue(Len(text[i]) - 1, Hidden[l - 1][text[i]])
      BY <1>3, StoredOfText
    <2> QED
      BY <1>1, <1>3, <2>1, <2>2
  <1>5. run.kv_cache[l] = Pool(l, before)
    BY <1>1, <1>2
  <1> HIDE DEF values
  <1>6. stored = Pool(l, after)
    BY <1>4, <1>5, StoredRows
  <1>7. /\ out.hidden = [i \in DOMAIN run.hidden |->
                            DecoderLayer(metadata.positions[i], run.hidden[i],
                                         Attention(stored, metadata, is_decode, i))]
        /\ out.kv_cache = [run.kv_cache EXCEPT ![l] = stored]
    BY DEF LayerForward, values
  <1> HIDE DEF stored, out
  <1>8. ASSUME NEW i \in 1 .. n
        PROVE  DecoderLayer(metadata.positions[i], run.hidden[i],
                            Attention(stored, metadata, is_decode, i)) = Hidden[l][text[i]]
    <2>1. Attention(stored, metadata, is_decode, i) = Remembered(l, text[i])
      BY <1>6 DEF AttendsToText
    <2>2. Hidden[l][text[i]]
            = DecoderLayer(Len(text[i]) - 1, Hidden[l - 1][text[i]], Remembered(l, text[i]))
      BY <1>3, HiddenAbove
    <2> QED
      BY <1>1, <1>3, <2>1, <2>2
  <1>9. out.hidden = [i \in 1 .. n |-> Hidden[l][text[i]]]
    BY <1>1, <1>7, <1>8
  <1>10. DOMAIN out.kv_cache = Layers
    BY <1>1, <1>7
  <1>11. ASSUME NEW m \in Layers
         PROVE  out.kv_cache[m] = Pool(m, IF m <= l THEN after ELSE before)
    <2>1. CASE m = l
      <3>1. out.kv_cache[m] = stored /\ m <= l
        BY <1>1, <1>2, <1>7, <2>1
      <3> QED
        BY <1>6, <2>1, <3>1
    <2>2. CASE m # l
      <3>1. out.kv_cache[m] = run.kv_cache[m]
        BY <1>1, <1>7, <2>2
      <3>2. m <= l - 1 <=> m <= l
        BY <1>2, <2>2
      <3> QED
        BY <1>1, <3>1, <3>2
    <2> QED
      BY <2>1, <2>2
  <1> QED
    BY <1>9, <1>10, <1>11 DEF LayersDone, out

PassesUpTo(f, n, metadata, is_decode, kv_cache) ==
    f = [l \in 0 .. n |->
            IF l = 0 THEN [hidden |-> metadata.input_ids, kv_cache |-> kv_cache]
            ELSE LayerForward(l, f[l - 1], metadata, is_decode)]

LEMMA PassesExist ==
    ASSUME NEW metadata, NEW is_decode, NEW kv_cache
    PROVE  \A n \in Nat : \E f : PassesUpTo(f, n, metadata, is_decode, kv_cache)
  <1> DEFINE first == [hidden |-> metadata.input_ids, kv_cache |-> kv_cache]
             B == {n \in Nat : ~ \E f : PassesUpTo(f, n, metadata, is_decode, kv_cache)}
  <1>1. SUFFICES ASSUME B # {} PROVE FALSE
    OBVIOUS
  <1>2. PICK n \in B : \A m \in B : n <= m
    <2>1. B \in SUBSET Nat
      OBVIOUS
    <2> HIDE DEF B
    <2> QED
      BY <1>1, <2>1, SmallestNat
  <1>3. n # 0
    <2> DEFINE f == [l \in 0 .. 0 |-> first]
    <2>1. PassesUpTo(f, 0, metadata, is_decode, kv_cache)
      BY DEF PassesUpTo
    <2> QED
      BY <1>2, <2>1
  <1>4. n \in Nat /\ n - 1 \in Nat /\ n - 1 \notin B
    BY <1>2, <1>3
  <1>5. PICK f : PassesUpTo(f, n - 1, metadata, is_decode, kv_cache)
    BY <1>4
  <1>6. \A l \in 0 .. n - 1 :
            f[l] = IF l = 0 THEN first ELSE LayerForward(l, f[l - 1], metadata, is_decode)
    BY <1>5 DEF PassesUpTo
  <1> DEFINE g == [l \in 0 .. n |->
                    IF l = n THEN LayerForward(n, f[n - 1], metadata, is_decode) ELSE f[l]]
  <1>7. /\ g[n] = LayerForward(n, f[n - 1], metadata, is_decode)
        /\ \A l \in 0 .. n - 1 : g[l] = f[l]
        /\ g = [l \in 0 .. n |-> g[l]]
    BY <1>4
  <1> HIDE DEF g, first
  <1>8. ASSUME NEW l \in 0 .. n
        PROVE  g[l] = IF l = 0 THEN first ELSE LayerForward(l, g[l - 1], metadata, is_decode)
    <2>1. CASE l = 0
      <3>1. 0 \in 0 .. n - 1
        BY <1>4
      <3> QED
        BY <1>6, <1>7, <2>1, <3>1
    <2>2. CASE l # 0
      <3>1. l - 1 \in 0 .. n - 1 /\ (l = n \/ l \in 0 .. n - 1)
        BY <1>4, <2>2
      <3>2. g[l - 1] = f[l - 1]
        BY <1>7, <3>1
      <3> QED
        BY <1>6, <1>7, <2>2, <3>1, <3>2
    <2> QED
      BY <2>1, <2>2
  <1>9. g = [l \in 0 .. n |->
                IF l = 0 THEN first ELSE LayerForward(l, g[l - 1], metadata, is_decode)]
    BY <1>7, <1>8, Zenon
  <1> QED
    BY <1>2, <1>9 DEF PassesUpTo, first

\* All layers together.
LEMMA ModelExact ==
    ASSUME NEW metadata, NEW n, NEW text, NEW before, NEW after,
           Rows(metadata, n, text, before, after),
           NEW is_decode, AttendsToText(metadata, is_decode, n, text, after)
    PROVE  LayersDone(Qwen3Model(metadata, is_decode, [l \in Layers |-> Pool(l, before)]),
                      NumLayers, n, text, before, after)
  <1> DEFINE kv_cache == [l \in Layers |-> Pool(l, before)]
             behind == CHOOSE f : PassesUpTo(f, NumLayers, metadata, is_decode, kv_cache)
             first == [hidden |-> metadata.input_ids, kv_cache |-> kv_cache]
             B == {l \in Nat : l <= NumLayers /\ ~ LayersDone(behind[l], l, n, text, before, after)}
  <1>1. NumLayers \in Nat
    BY NumLayersAssumption
  <1>2. Qwen3Model(metadata, is_decode, kv_cache) = behind[NumLayers]
    BY DEF Qwen3Model, PassesUpTo
  <1> HIDE DEF kv_cache
  <1>3. PassesUpTo(behind, NumLayers, metadata, is_decode, kv_cache)
    BY <1>1, PassesExist
  <1> HIDE DEF behind
  <1>4. \A l \in 0 .. NumLayers :
            behind[l] = IF l = 0 THEN first ELSE LayerForward(l, behind[l - 1], metadata, is_decode)
    BY <1>3 DEF PassesUpTo
  <1>5. B = {}
    <2>1. SUFFICES ASSUME B # {} PROVE FALSE
      OBVIOUS
    <2>2. PICK l \in B : \A m \in B : l <= m
      <3>1. B \in SUBSET Nat
        OBVIOUS
      <3> HIDE DEF B
      <3> QED
        BY <2>1, <3>1, SmallestNat
    <2>3. l \in Nat /\ l \in 0 .. NumLayers /\ ~ LayersDone(behind[l], l, n, text, before, after)
      BY <1>1, <2>2
    <2>4. l # 0
      <3>1. behind[0] = first
        BY <1>1, <1>4
      <3>2. \A i \in 1 .. n : text[i] \in Seq(Tokens)
        BY DEF Rows, Texts
      <3>3. 0 \in 0 .. NumLayers
        BY <1>1
      <3>4. \A i \in 1 .. n : Hidden[0][text[i]] = Last(text[i])
        <4>1. Hidden[0] = LayerAbove(0, Hidden[0 - 1])
          BY <3>3, HiddenLayers
        <4>2. \A i \in 1 .. n : LayerAbove(0, Hidden[0 - 1])[text[i]] = Last(text[i])
          BY <3>2 DEF LayerAbove
        <4> QED
          BY <4>1, <4>2, Zenon
      <3>5. first.hidden = [i \in 1 .. n |-> Hidden[0][text[i]]]
        BY <3>4 DEF Rows
      <3>6. \A m \in Layers : ~ (m <= 0) /\ kv_cache[m] = Pool(m, before)
        BY DEF Layers, kv_cache
      <3>7. DOMAIN first.kv_cache = Layers /\ first.kv_cache = kv_cache
        BY DEF kv_cache
      <3>8. LayersDone(first, 0, n, text, before, after)
        <4> HIDE DEF first
        <4> QED
          BY <3>5, <3>6, <3>7 DEF LayersDone
      <3> HIDE DEF first
      <3> QED
        BY <2>3, <3>1, <3>8
    <2>5. l - 1 \in Nat /\ l - 1 <= NumLayers /\ l - 1 \notin B /\ l \in Layers
      BY <1>1, <2>2, <2>3, <2>4 DEF Layers
    <2>6. LayersDone(behind[l - 1], l - 1, n, text, before, after)
      BY <2>5
    <2>7. behind[l] = LayerForward(l, behind[l - 1], metadata, is_decode)
      BY <1>4, <2>3, <2>4
    <2>8. LayersDone(LayerForward(l, behind[l - 1], metadata, is_decode), l, n, text, before, after)
      BY <2>5, <2>6, LayerExact
    <2> QED
      BY <2>3, <2>7, <2>8
  <1>6. LayersDone(behind[NumLayers], NumLayers, n, text, before, after)
    BY <1>1, <1>5
  <1> QED
    BY <1>2, <1>6 DEF kv_cache

-----------------------------------------------------------------------------
(* Flattened batches.                                                      *)

\* Part r of a sequence of n parts takes the places q[r - 1] + 1 .. q[r].
Partition(q, n, parts) ==
    /\ n \in Nat \ {0}
    /\ q \in [0 .. n -> Nat]
    /\ q[0] = 0
    /\ \A r \in 1 .. n : Len(parts[r]) \in Nat /\ q[r] = q[r - 1] + Len(parts[r])

Place(q, r) == q[r - 1] + 1 .. q[r]

LEMMA PartitionGrows ==
    ASSUME NEW q, NEW n, NEW parts, Partition(q, n, parts), NEW a \in 0 .. n
    PROVE  \A b \in a .. n : q[a] <= q[b]
  <1> DEFINE B == {b \in Nat : b \in a .. n /\ q[a] > q[b]}
  <1>1. /\ n \in Nat /\ \A b \in 0 .. n : q[b] \in Nat
        /\ \A r \in 1 .. n : Len(parts[r]) \in Nat /\ q[r] = q[r - 1] + Len(parts[r])
    BY DEF Partition
  <1>2. SUFFICES ASSUME B # {} PROVE FALSE
    <2> SUFFICES ASSUME NEW b \in a .. n, ~ (q[a] <= q[b])
                 PROVE  B # {}
      OBVIOUS
    <2>1. b \in 0 .. n /\ b \in Nat
      BY <1>1
    <2>2. q[a] \in Nat /\ q[b] \in Nat
      BY <1>1, <2>1
    <2> QED
      BY <2>1, <2>2
  <1>3. PICK b \in B : \A m \in B : b <= m
    <2>1. B \in SUBSET Nat
      OBVIOUS
    <2> HIDE DEF B
    <2> QED
      BY <1>2, <2>1, SmallestNat
  <1>4. b \in a .. n /\ b \in Nat /\ q[a] > q[b] /\ q[a] \in Nat
    BY <1>1, <1>3
  <1>5. b # a
    BY <1>4
  <1>6. b - 1 \in Nat /\ b - 1 \in a .. n /\ b \in 1 .. n /\ b - 1 \in 0 .. n
    BY <1>1, <1>4, <1>5
  <1>7. ~ (q[a] > q[b - 1])
    BY <1>3, <1>6
  <1>8. q[b - 1] <= q[b] /\ q[b - 1] \in Nat /\ q[b] \in Nat
    <2>1. b \in 0 .. n
      BY <1>4, <1>6
    <2>2. /\ q[b - 1] \in Nat /\ q[b] \in Nat /\ Len(parts[b]) \in Nat
          /\ q[b] = q[b - 1] + Len(parts[b])
      BY <1>1, <1>6, <2>1
    <2> QED
      BY <2>2
  <1> QED
    BY <1>4, <1>7, <1>8

\* Every place of the flattened sequence is in one part.
LEMMA PlaceOf ==
    ASSUME NEW q, NEW n, NEW parts, Partition(q, n, parts)
    PROVE  /\ \A i \in 1 .. q[n] : \E r \in 1 .. n : i \in Place(q, r)
           /\ \A r \in 1 .. n : Place(q, r) \subseteq 1 .. q[n]
           /\ \A r, s \in 1 .. n : \A i \in Place(q, r) : i \in Place(q, s) => r = s
  <1>1. /\ n \in Nat \ {0} /\ \A b \in 0 .. n : q[b] \in Nat
        /\ q[0] = 0
    BY DEF Partition
  <1>2. ASSUME NEW i \in 1 .. q[n]
        PROVE  \E r \in 1 .. n : i \in Place(q, r)
    <2> DEFINE B == {b \in Nat : b \in 0 .. n /\ i <= q[b]}
    <2>1. B \in SUBSET Nat /\ n \in B
      BY <1>1
    <2>2. PICK r \in B : \A m \in B : r <= m
      <3> HIDE DEF B
      <3> QED
        BY <2>1, SmallestNat
    <2>3. r \in 0 .. n /\ i <= q[r] /\ i \in Nat /\ i >= 1
      BY <2>2
    <2>4. r # 0
      BY <1>1, <2>3
    <2>5. r \in 1 .. n /\ r - 1 \in Nat /\ r - 1 \in 0 .. n /\ r - 1 \notin B
      BY <1>1, <2>2, <2>3, <2>4
    <2>6. q[r - 1] \in Nat /\ q[r] \in Nat /\ ~ (i <= q[r - 1])
      BY <1>1, <2>3, <2>5
    <2>7. i \in Place(q, r)
      BY <2>3, <2>6 DEF Place
    <2> QED
      BY <2>5, <2>7
  <1>3. ASSUME NEW r \in 1 .. n
        PROVE  Place(q, r) \subseteq 1 .. q[n]
    <2>1. r \in 0 .. n /\ n \in r .. n /\ r - 1 \in 0 .. n /\ n \in 0 .. n
      BY <1>1
    <2>2. q[r] <= q[n] /\ q[r] \in Nat /\ q[n] \in Nat /\ q[r - 1] \in Nat
      BY <1>1, <2>1, PartitionGrows
    <2> QED
      BY <2>2 DEF Place
  <1>4. ASSUME NEW r \in 1 .. n, NEW s \in 1 .. n, NEW i \in Place(q, r), i \in Place(q, s), r < s
        PROVE  FALSE
    <2>1. r \in 0 .. n /\ s - 1 \in r .. n /\ s - 1 \in 0 .. n /\ r - 1 \in 0 .. n /\ s \in 0 .. n
      BY <1>1, <1>4
    <2>2. /\ q[r] <= q[s - 1] /\ q[r] \in Nat /\ q[s - 1] \in Nat
          /\ q[r - 1] \in Nat /\ q[s] \in Nat
      BY <1>1, <2>1, PartitionGrows
    <2>3. i \in q[r - 1] + 1 .. q[r] /\ i \in q[s - 1] + 1 .. q[s]
      BY <1>4 DEF Place
    <2> QED
      BY <2>2, <2>3
  <1>5. \A r, s \in 1 .. n : r = s \/ r < s \/ s < r
    BY <1>1
  <1> QED
    BY <1>2, <1>3, <1>4, <1>5

FlattensUpTo(f, n, parts) ==
    f = [i \in 1 .. n |-> IF i = 1 THEN parts[i] ELSE f[i - 1] \o parts[i]]

LEMMA FlattensExist ==
    ASSUME NEW parts
    PROVE  \A n \in Nat : \E f : FlattensUpTo(f, n, parts)
  <1> DEFINE B == {n \in Nat : ~ \E f : FlattensUpTo(f, n, parts)}
  <1>1. SUFFICES ASSUME B # {} PROVE FALSE
    OBVIOUS
  <1>2. PICK n \in B : \A m \in B : n <= m
    <2>1. B \in SUBSET Nat
      OBVIOUS
    <2> HIDE DEF B
    <2> QED
      BY <1>1, <2>1, SmallestNat
  <1>3. n # 0
    <2> DEFINE f == [i \in 1 .. 0 |-> 0]
    <2>1. f = [i \in 1 .. 0 |-> IF i = 1 THEN parts[i] ELSE f[i - 1] \o parts[i]]
      OBVIOUS
    <2>2. FlattensUpTo(f, 0, parts)
      BY <2>1 DEF FlattensUpTo
    <2> QED
      BY <1>2, <2>2
  <1>4. n \in Nat /\ n - 1 \in Nat /\ n - 1 \notin B
    BY <1>2, <1>3
  <1>5. PICK f : FlattensUpTo(f, n - 1, parts)
    BY <1>4
  <1>6. \A i \in 1 .. n - 1 : f[i] = IF i = 1 THEN parts[i] ELSE f[i - 1] \o parts[i]
    BY <1>5 DEF FlattensUpTo
  <1> DEFINE last == IF n = 1 THEN parts[n] ELSE f[n - 1] \o parts[n]
             g == [i \in 1 .. n |-> IF i = n THEN last ELSE f[i]]
  <1> HIDE DEF last
  <1>7. /\ g[n] = last
        /\ \A i \in 1 .. n - 1 : g[i] = f[i]
        /\ g = [i \in 1 .. n |-> g[i]]
    BY <1>3, <1>4
  <1>8. /\ g[n] = IF n = 1 THEN parts[n] ELSE f[n - 1] \o parts[n]
        /\ \A i \in 1 .. n - 1 : g[i] = f[i]
        /\ g = [i \in 1 .. n |-> g[i]]
    <2> HIDE DEF g
    <2> QED
      BY <1>7 DEF last
  <1> HIDE DEF g
  <1>9. ASSUME NEW i \in 1 .. n
        PROVE  g[i] = IF i = 1 THEN parts[i] ELSE g[i - 1] \o parts[i]
    <2>1. CASE i = 1
      <3>1. i = n \/ i \in 1 .. n - 1
        BY <1>4
      <3> QED
        BY <1>6, <1>8, <2>1, <3>1
    <2>2. CASE i # 1
      <3>1. i - 1 \in 1 .. n - 1 /\ (i = n \/ i \in 1 .. n - 1)
        BY <1>4, <2>2
      <3>2. g[i - 1] = f[i - 1]
        BY <1>8, <3>1
      <3> QED
        BY <1>6, <1>8, <2>2, <3>1, <3>2
    <2> QED
      BY <2>1, <2>2
  <1>10. g = [i \in 1 .. n |-> IF i = 1 THEN parts[i] ELSE g[i - 1] \o parts[i]]
    BY <1>8, <1>9, Zenon
  <1> QED
    BY <1>2, <1>10 DEF FlattensUpTo

\* The first r parts, flattened to the sequence s.
Flattened(s, r, A, q, parts) ==
    /\ s \in Seq(A)
    /\ Len(s) = q[r]
    /\ \A k \in 1 .. r : \A i \in Place(q, k) : s[i] = parts[k][i - q[k - 1]]

LEMMA OnePartMore ==
    ASSUME NEW A, NEW q, NEW n, NEW parts, Partition(q, n, parts),
           NEW r \in 1 .. n, parts[r] \in Seq(A), r # 1,
           NEW s, Flattened(s, r - 1, A, q, parts)
    PROVE  Flattened(s \o parts[r], r, A, q, parts)
  <1>1. PICK len \in Nat, before \in Nat, after \in Nat :
            /\ len = Len(parts[r]) /\ before = q[r - 1] /\ after = q[r]
            /\ after = before + len
    <2>1. r - 1 \in 0 .. n /\ r \in 0 .. n
      BY DEF Partition
    <2> QED
      BY <2>1 DEF Partition
  <1>2. s \in Seq(A) /\ Len(s) = before
    BY <1>1 DEF Flattened
  <1>3. s \o parts[r] \in Seq(A) /\ Len(s \o parts[r]) = after
    BY <1>1, <1>2
  <1>4. ASSUME NEW k \in 1 .. r, NEW i \in Place(q, k)
        PROVE  (s \o parts[r])[i] = parts[k][i - q[k - 1]]
    <2>1. CASE k = r
      <3>1. i \in before + 1 .. after
        BY <1>1, <2>1 DEF Place
      <3>2. (s \o parts[r])[i] = parts[r][i - before]
        <4>1. \A t, u \in Seq(A) : \A j \in Len(t) + 1 .. Len(t) + Len(u) :
                (t \o u)[j] = u[j - Len(t)]
          OBVIOUS
        <4>2. i \in Len(s) + 1 .. Len(s) + Len(parts[r])
          BY <1>1, <1>2, <3>1
        <4>3. (s \o parts[r])[i] = parts[r][i - Len(s)]
          BY <1>2, <4>1, <4>2
        <4> QED
          BY <1>2, <4>3
      <3> QED
        BY <1>1, <2>1, <3>2
    <2>2. CASE k # r
      <3>1. k \in 1 .. r - 1 /\ k \in 0 .. n /\ k - 1 \in 0 .. n /\ r - 1 \in k .. n
        BY <2>2 DEF Partition
      <3>2. q[k] <= before /\ q[k] \in Nat /\ q[k - 1] \in Nat
        BY <1>1, <3>1, PartitionGrows DEF Partition
      <3>3. i \in 1 .. before
        BY <3>2 DEF Place
      <3>4. (s \o parts[r])[i] = s[i]
        BY <1>1, <1>2, <3>3
      <3> QED
        BY <3>1, <3>4 DEF Flattened
    <2> QED
      BY <2>1, <2>2
  <1> QED
    BY <1>1, <1>3, <1>4 DEF Flattened

LEMMA FlattenSeqIs ==
    ASSUME NEW A, NEW q, NEW n, NEW parts, Partition(q, n, parts), parts \in [1 .. n -> Seq(A)]
    PROVE  Flattened(FlattenSeq(parts), n, A, q, parts)
  <1> DEFINE f == CHOOSE f : FlattensUpTo(f, n, parts)
             B == {r \in Nat : r \in 1 .. n /\ ~ Flattened(f[r], r, A, q, parts)}
  <1>1. n \in Nat \ {0}
    BY DEF Partition
  <1>2. parts \in Seq(Seq(A)) /\ Len(parts) = n
    BY <1>1
  <1>3. FlattenSeq(parts) = f[n]
    BY <1>1, <1>2 DEF FlattenSeq, FlattensUpTo
  <1>4. FlattensUpTo(f, n, parts)
    BY <1>1, FlattensExist
  <1> HIDE DEF f
  <1>5. \A r \in 1 .. n : f[r] = IF r = 1 THEN parts[r] ELSE f[r - 1] \o parts[r]
    BY <1>4 DEF FlattensUpTo
  <1>6. B = {}
    <2>1. SUFFICES ASSUME B # {} PROVE FALSE
      OBVIOUS
    <2>2. PICK r \in B : \A m \in B : r <= m
      <3>1. B \in SUBSET Nat
        OBVIOUS
      <3> HIDE DEF B
      <3> QED
        BY <2>1, <3>1, SmallestNat
    <2>3. r \in Nat /\ r \in 1 .. n /\ ~ Flattened(f[r], r, A, q, parts)
      BY <2>2
    <2>4. CASE r = 1
      <3>1. f[1] = parts[1] /\ parts[1] \in Seq(A)
        BY <1>5, <2>3, <2>4
      <3>2. q[0] = 0 /\ q[1] = q[1 - 1] + Len(parts[1]) /\ Len(parts[1]) \in Nat
        BY <2>3, <2>4 DEF Partition
      <3>3. q[1 - 1] = 0 /\ q[1] = Len(parts[1])
        BY <3>2
      <3>4. \A k \in 1 .. 1 : k = 1
        OBVIOUS
      <3>5. \A i \in Place(q, 1) : i - q[1 - 1] = i
        BY <3>2, <3>3 DEF Place
      <3>6. Flattened(parts[1], 1, A, q, parts)
        BY <3>1, <3>3, <3>4, <3>5 DEF Flattened
      <3> QED
        BY <2>3, <2>4, <3>1, <3>6
    <2>5. CASE r # 1
      <3>1. r - 1 \in Nat /\ r - 1 \in 1 .. n /\ r - 1 \notin B
        <4>1. r - 1 \in Nat /\ r - 1 \in 1 .. n /\ ~ (r <= r - 1)
          BY <1>1, <2>3, <2>5
        <4> HIDE DEF B
        <4> QED
          BY <2>2, <4>1
      <3>2. Flattened(f[r - 1], r - 1, A, q, parts)
        BY <3>1
      <3>3. f[r] = f[r - 1] \o parts[r]
        BY <1>5, <2>3, <2>5
      <3>4. parts[r] \in Seq(A)
        BY <2>3
      <3>5. Flattened(f[r - 1] \o parts[r], r, A, q, parts)
        BY <2>3, <2>5, <3>2, <3>4, OnePartMore
      <3> QED
        BY <2>3, <3>3, <3>5
    <2> QED
      BY <2>4, <2>5
  <1>7. n \in 1 .. n
    BY <1>1
  <1>8. Flattened(f[n], n, A, q, parts)
    BY <1>1, <1>6, <1>7
  <1> QED
    BY <1>3, <1>8

\* Sums of lengths make a partition.
LEMMA SumsPartition ==
    ASSUME NEW n \in Nat \ {0}, NEW parts, NEW len,
           \A r \in 1 .. n : Len(parts[r]) \in Nat /\ len[r] = Len(parts[r])
    PROVE  Partition([i \in 0 .. n |-> SumFunctionOnSet(len, 1 .. i)], n, parts)
  <1> DEFINE q == [i \in 0 .. n |-> SumFunctionOnSet(len, 1 .. i)]
  <1>1. ASSUME NEW i \in 0 .. n
        PROVE  q[i] \in Nat
    <2>1. \A k \in 1 .. i : len[k] \in Nat
      OBVIOUS
    <2>2. IsFiniteSet(1 .. i)
      BY FS_Interval
    <2>3. SumFunctionOnSet(len, 1 .. i) \in Nat
      BY <2>1, <2>2, SumOfNaturals
    <2> QED
      BY <2>3
  <1>2. q[0] = 0
    <2>1. 1 .. 0 = {}
      OBVIOUS
    <2>2. SumFunctionOnSet(len, 1 .. 0) = 0
      BY <2>1, SumOfNone, Zenon
    <2> QED
      BY <2>2
  <1>3. ASSUME NEW r \in 1 .. n
        PROVE  q[r] = q[r - 1] + Len(parts[r])
    <2> DEFINE S == 1 .. r - 1
    <2>1. r \notin S /\ S \union {r} = 1 .. r
      OBVIOUS
    <2>2. IsFiniteSet(S)
      BY FS_Interval
    <2>3. \A k \in 1 .. r : len[k] \in Int
      OBVIOUS
    <2>4. \A k \in S \union {r} : len[k] \in Int
      BY <2>1, <2>3, Zenon
    <2>5. q[r] = SumFunctionOnSet(len, 1 .. r) /\ q[r - 1] = SumFunctionOnSet(len, S)
      OBVIOUS
    <2> HIDE DEF S, q
    <2>6. /\ SumFunctionOnSet(len, S) \in Int
          /\ SumFunctionOnSet(len, S \union {r}) = len[r] + SumFunctionOnSet(len, S)
      BY <2>1, <2>2, <2>4, SumWithOne
    <2>7. q[r] = len[r] + q[r - 1]
      BY <2>1, <2>5, <2>6, Zenon
    <2>8. len[r] = Len(parts[r]) /\ Len(parts[r]) \in Int /\ q[r - 1] \in Int
      BY <2>5, <2>6
    <2> QED
      BY <2>7, <2>8
  <1>4. q \in [0 .. n -> Nat]
    BY <1>1
  <1> HIDE DEF q
  <1>5. Partition(q, n, parts)
    BY <1>2, <1>3, <1>4 DEF Partition
  <1> QED
    BY <1>5 DEF q

-----------------------------------------------------------------------------
(* The texts and the slots of a work item.                                 *)

\* The first c tokens of a, and the first j of b behind them.
Joined(a, c, b, j) == SubSeq(a, 1, c) \o SubSeq(b, 1, j)

LEMMA JoinedText ==
    ASSUME NEW a \in Seq(Tokens), NEW b \in Seq(Tokens), NEW c \in 0 .. Len(a), NEW j \in 1 .. Len(b)
    PROVE  /\ Joined(a, c, b, j) \in Seq(Tokens)
           /\ Len(Joined(a, c, b, j)) = c + j
           /\ \A i \in 1 .. c : Joined(a, c, b, j)[i] = a[i]
           /\ \A i \in 1 .. j : Joined(a, c, b, j)[c + i] = b[i]
  <1>1. /\ SubSeq(a, 1, c) \in Seq(Tokens) /\ Len(SubSeq(a, 1, c)) = c
        /\ \A i \in 1 .. c : SubSeq(a, 1, c)[i] = a[i]
    BY PrefixProperties
  <1>2. /\ SubSeq(b, 1, j) \in Seq(Tokens) /\ Len(SubSeq(b, 1, j)) = j
        /\ \A i \in 1 .. j : SubSeq(b, 1, j)[i] = b[i]
    BY PrefixProperties
  <1> DEFINE x == SubSeq(a, 1, c)
             y == SubSeq(b, 1, j)
  <1>3. x \in Seq(Tokens) /\ y \in Seq(Tokens) /\ Len(x) = c /\ Len(y) = j
    BY <1>1, <1>2
  <1> HIDE DEF x, y
  <1>4. /\ x \o y \in Seq(Tokens) /\ Len(x \o y) = Len(x) + Len(y)
        /\ \A i \in 1 .. Len(x) + Len(y) :
                (x \o y)[i] = IF i <= Len(x) THEN x[i] ELSE y[i - Len(x)]
    BY <1>3, ConcatProperties
  <1>5. \A i \in 1 .. j : (x \o y)[c + i] = y[i]
    <2> SUFFICES ASSUME NEW i \in 1 .. j PROVE (x \o y)[c + i] = y[i]
      OBVIOUS
    <2>1. c + i \in 1 .. Len(x) + Len(y) /\ ~ (c + i <= Len(x)) /\ (c + i) - Len(x) = i
      BY <1>3
    <2> QED
      BY <1>4, <2>1
  <1>6. Joined(a, c, b, j) = x \o y
    BY DEF Joined, x, y
  <1>7. \A i \in 1 .. c : (x \o y)[i] = a[i]
    <2>1. \A i \in 1 .. c : i \in 1 .. Len(x) + Len(y) /\ i <= Len(x)
      BY <1>3
    <2>2. \A i \in 1 .. c : x[i] = a[i]
      BY <1>1 DEF x
    <2> QED
      BY <1>4, <2>1, <2>2
  <1>8. \A i \in 1 .. j : (x \o y)[c + i] = b[i]
    BY <1>2, <1>5 DEF y
  <1> QED
    BY <1>3, <1>4, <1>6, <1>7, <1>8

LEMMA JoinedPrefix ==
    ASSUME NEW a \in Seq(Tokens), NEW b \in Seq(Tokens), NEW c \in 0 .. Len(a), NEW j \in 1 .. Len(b)
    PROVE  /\ \A m \in 0 .. c : SubSeq(Joined(a, c, b, j), 1, m) = SubSeq(a, 1, m)
           /\ \A k \in 1 .. j : SubSeq(Joined(a, c, b, j), 1, c + k) = Joined(a, c, b, k)
  <1> DEFINE t == Joined(a, c, b, j)
  <1>1. /\ t \in Seq(Tokens) /\ Len(t) = c + j
        /\ \A i \in 1 .. c : t[i] = a[i]
        /\ \A i \in 1 .. j : t[c + i] = b[i]
    BY JoinedText
  <1> HIDE DEF t
  <1>2. ASSUME NEW m \in 0 .. c
        PROVE  SubSeq(t, 1, m) = SubSeq(a, 1, m)
    <2>1. m \in 0 .. Len(t) /\ m \in 0 .. Len(a) /\ m \in Nat
      BY <1>1
    <2>2. /\ SubSeq(t, 1, m) \in Seq(Tokens) /\ Len(SubSeq(t, 1, m)) = m
          /\ \A i \in 1 .. m : SubSeq(t, 1, m)[i] = t[i]
      BY <1>1, <2>1, PrefixProperties
    <2>3. /\ SubSeq(a, 1, m) \in Seq(Tokens) /\ Len(SubSeq(a, 1, m)) = m
          /\ \A i \in 1 .. m : SubSeq(a, 1, m)[i] = a[i]
      BY <2>1, PrefixProperties
    <2>4. \A i \in 1 .. m : SubSeq(t, 1, m)[i] = SubSeq(a, 1, m)[i]
      BY <1>1, <2>2, <2>3
    <2> QED
      BY <2>1, <2>2, <2>3, <2>4, SameText
  <1>3. ASSUME NEW k \in 1 .. j
        PROVE  SubSeq(t, 1, c + k) = Joined(a, c, b, k)
    <2>1. c + k \in 0 .. Len(t) /\ c + k \in Nat /\ k \in 1 .. Len(b)
      BY <1>1
    <2>2. /\ SubSeq(t, 1, c + k) \in Seq(Tokens) /\ Len(SubSeq(t, 1, c + k)) = c + k
          /\ \A i \in 1 .. c + k : SubSeq(t, 1, c + k)[i] = t[i]
      BY <1>1, <2>1, PrefixProperties
    <2>3. /\ Joined(a, c, b, k) \in Seq(Tokens) /\ Len(Joined(a, c, b, k)) = c + k
          /\ \A i \in 1 .. c : Joined(a, c, b, k)[i] = a[i]
          /\ \A i \in 1 .. k : Joined(a, c, b, k)[c + i] = b[i]
      BY <2>1, JoinedText
    <2>4. ASSUME NEW i \in 1 .. c + k
          PROVE  SubSeq(t, 1, c + k)[i] = Joined(a, c, b, k)[i]
      <3>1. CASE i <= c
        BY <1>1, <2>2, <2>3, <3>1
      <3>2. CASE ~ (i <= c)
        <4>1. PICK d \in 1 .. k : d = i - c
          BY <3>2
        <4>2. i = c + d /\ d \in 1 .. j
          BY <4>1
        <4>3. t[c + d] = b[d] /\ Joined(a, c, b, k)[c + d] = b[d]
          BY <1>1, <2>3, <4>1, <4>2
        <4> QED
          BY <2>2, <4>2, <4>3
      <3> QED
        BY <3>1, <3>2
    <2> QED
      BY <2>1, <2>2, <2>3, <2>4, SameText
  <1> QED
    BY <1>2, <1>3 DEF t

\* Work that the runner may launch: tokens behind what is computed of a request, in
\* slots that are reserved for them.
Launchable(item) ==
    /\ item.seq \in Seqs /\ work[item.seq] = "scheduled"
    /\ item.start = Start(item.seq)
    /\ item.tokens \in Seq(Tokens)
    /\ Len(item.tokens) \in 1 .. num_tokens[item.seq]

\* The tokens of the request that the block table has slots for.
Room(s) == Len(block_table[s]) * BlockSize

LEMMA ItemBounds ==
    ASSUME KVInv, NEW item, Launchable(item)
    PROVE  /\ item.seq \in Seqs /\ item.tokens \in Seq(Tokens)
           /\ item.start \in Nat /\ Len(item.tokens) \in Nat \ {0}
           /\ token_ids[item.seq] \in Seq(Tokens)
           /\ item.start < Len(token_ids[item.seq]) /\ item.start = ValidEnd(item.seq)
           /\ End(item) = item.start + Len(item.tokens) /\ End(item) \in Nat \ {0}
           /\ End(item) <= Room(item.seq) /\ Room(item.seq) \in Nat
           /\ block_table[item.seq] # <<>>
  <1>1. /\ item.seq \in Seqs /\ work[item.seq] = "scheduled" /\ item.start = Start(item.seq)
        /\ item.tokens \in Seq(Tokens) /\ Len(item.tokens) \in 1 .. num_tokens[item.seq]
    BY DEF Launchable
  <1> DEFINE s == item.seq
  <1>2. /\ block_table[s] # <<>>
        /\ num_tokens[s] \in Nat /\ num_tokens[s] > 0
        /\ Start(s) = ValidEnd(s) /\ Start(s) \in Nat /\ Start(s) < Len(token_ids[s])
        /\ Start(s) + num_tokens[s] <= Len(block_table[s]) * BlockSize
    BY <1>1, ScheduledReserved
  <1>3. TypeOK
    BY DEF KVInv, Inv
  <1>4. token_ids[s] \in Seq(Tokens) /\ Len(block_table[s]) * BlockSize \in Nat
    BY <1>1, <1>3, Tables, Counts
  <1> QED
    BY <1>1, <1>2, <1>4 DEF End, Room

\* The text that the request has when the item's tokens are computed.
WholeText(item) == TextOf(item, Len(item.tokens))

LEMMA ItemText ==
    ASSUME KVInv, NEW item, Launchable(item), NEW j \in 1 .. Len(item.tokens)
    PROVE  /\ TextOf(item, j) \in Texts
           /\ Len(TextOf(item, j)) = item.start + j
           /\ Last(TextOf(item, j)) = item.tokens[j]
           /\ \A n \in 1 .. item.start + j :
                SubSeq(TextOf(item, j), 1, n) = SubSeq(WholeText(item), 1, n)
           /\ SubSeq(WholeText(item), 1, item.start + j) = TextOf(item, j)
           /\ \A n \in 1 .. item.start :
                SubSeq(WholeText(item), 1, n) = SubSeq(token_ids[item.seq], 1, n)
  <1> DEFINE a == token_ids[item.seq]
             b == item.tokens
             c == item.start
  <1>1. a \in Seq(Tokens) /\ b \in Seq(Tokens) /\ c \in 0 .. Len(a)
    BY ItemBounds
  <1>2. Len(b) \in 1 .. Len(b)
    OBVIOUS
  <1>3. \A i : TextOf(item, i) = Joined(a, c, b, i)
    BY DEF TextOf, Joined
  <1> HIDE DEF a, b, c
  <1>4. j \in 1 .. Len(b) /\ c \in Nat
    BY <1>1 DEF b
  <1>5. /\ Joined(a, c, b, j) \in Seq(Tokens)
        /\ Len(Joined(a, c, b, j)) = c + j
        /\ \A i \in 1 .. j : Joined(a, c, b, j)[c + i] = b[i]
    BY <1>1, <1>4, JoinedText
  <1> DEFINE text == Joined(a, c, b, j)
             whole == Joined(a, c, b, Len(b))
  <1>6. whole \in Seq(Tokens) /\ Len(whole) = c + Len(b)
    BY <1>1, <1>2, JoinedText
  <1>7. /\ \A m \in 0 .. c : SubSeq(whole, 1, m) = SubSeq(a, 1, m)
        /\ \A k \in 1 .. Len(b) : SubSeq(whole, 1, c + k) = Joined(a, c, b, k)
    BY <1>1, <1>2, JoinedPrefix
  <1>8. text \in Texts
    <2>1. Len(text) = c + j /\ c + j # 0
      BY <1>4, <1>5
    <2>2. text # <<>>
      <3> HIDE DEF text
      <3> QED
        BY <2>1, EmptySeq
    <2> QED
      BY <1>5, <2>2 DEF Texts
  <1>9. Last(text) = b[j]
    <2>1. Last(text) = text[c + j]
      BY <1>5 DEF Last
    <2>2. j \in 1 .. j
      BY <1>4
    <2> QED
      BY <1>5, <2>1, <2>2
  <1>10. SubSeq(whole, 1, c + j) = text
    BY <1>4, <1>7
  <1> HIDE DEF text, whole
  <1>11. ASSUME NEW n \in 1 .. c + j
         PROVE  SubSeq(text, 1, n) = SubSeq(whole, 1, n)
    <2>1. c + j \in 0 .. Len(whole) /\ n \in 0 .. c + j
      BY <1>1, <1>4, <1>6
    <2>2. SubSeq(SubSeq(whole, 1, c + j), 1, n) = SubSeq(whole, 1, n)
      BY <1>6, <2>1, SubPrefix
    <2> QED
      BY <1>10, <2>2, Zenon
  <1>12. TextOf(item, j) = text /\ WholeText(item) = whole
    BY <1>3 DEF WholeText, text, whole, b
  <1>13. Len(text) = c + j
    BY <1>5 DEF text
  <1>14. \A n \in 1 .. c : SubSeq(whole, 1, n) = SubSeq(a, 1, n)
    <2>1. \A n \in 1 .. c : n \in 0 .. c
      BY <1>4
    <2> QED
      BY <1>7, <2>1 DEF whole
  <1> QED
    BY <1>8, <1>9, <1>10, <1>11, <1>12, <1>13, <1>14 DEF a, b, c

Slot(item, pos) == <<physical_block_id(item.seq, pos), Offset(pos)>>

LEMMA SlotsOfItem ==
    ASSUME KVInv, NEW item, Launchable(item), NEW pos \in Nat, pos < Room(item.seq)
    PROVE  /\ Slot(item, pos) \in Slots
           /\ physical_block_id(item.seq, pos) \in Range(block_table[item.seq])
           /\ physical_block_id(item.seq, pos) \in Pages
           /\ Offset(pos) \in 0 .. BlockSize - 1
           /\ \A q \in Nat : q < Room(item.seq) /\ Slot(item, q) = Slot(item, pos) => q = pos
  <1> DEFINE s == item.seq
  <1>1. /\ BlockManagerTypeOK /\ IsInjective(block_table[s]) /\ s \in Seqs
    BY ItemBounds DEF KVInv, Inv, TypeOK, PoolConsistent
  <1>2. pos < Len(block_table[s]) * BlockSize
    BY DEF Room
  <1>3. /\ physical_block_id(s, pos) \in Range(block_table[s])
        /\ physical_block_id(s, pos) \in Pages /\ Offset(pos) \in 0 .. BlockSize - 1
    BY <1>1, <1>2, SlotOf
  <1>4. ASSUME NEW q \in Nat, q < Room(s), Slot(item, q) = Slot(item, pos)
        PROVE  q = pos
    <2>1. physical_block_id(s, pos) = physical_block_id(s, q) /\ Offset(pos) = Offset(q)
      BY <1>4 DEF Slot
    <2>2. q < Len(block_table[s]) * BlockSize
      BY <1>4 DEF Room
    <2> HIDE DEF s
    <2>3. pos = q
      BY <1>1, <1>2, <2>1, <2>2, SlotsDiffer
    <2> QED
      BY <2>3
  <1>5. Slot(item, pos) \in Slots
    BY <1>3 DEF Slot, Slots
  <1> QED
    BY <1>3, <1>4, <1>5

\* The slots that an item writes are no other request's.
LEMMA WritesOwnSlots ==
    ASSUME KVInv, NEW item, Launchable(item), NEW other, Launchable(other),
           item.seq # other.seq,
           NEW pos \in Nat, item.start <= pos, pos < End(item),
           NEW q \in Nat, q < End(other)
    PROVE  Slot(item, pos) # Slot(other, q)
  <1> DEFINE s == item.seq
             r == other.seq
             p == physical_block_id(s, pos)
  <1>1. /\ s \in Seqs /\ block_table[s] # <<>> /\ item.start \in Nat
        /\ item.start = ValidEnd(s) /\ End(item) <= Room(s)
        /\ End(item) \in Nat /\ Room(s) \in Nat
    BY ItemBounds
  <1>2. r \in Seqs /\ End(other) <= Room(r) /\ End(other) \in Nat /\ Room(r) \in Nat
    BY ItemBounds
  <1>3. pos < Room(s) /\ q < Room(r)
    BY <1>1, <1>2
  <1>4. ValidEnd(s) <= pos /\ ValidEnd(s) \in Nat
    BY <1>1
  <1>5. p \in Range(block_table[s])
    BY <1>3, SlotsOfItem
  <1>6. Reserved(s, ValidEnd(s), pos)
    BY <1>3, <1>4 DEF Reserved, Room
  <1>7. PICK i \in DOMAIN block_table[s] : EntersAt(s, ValidEnd(s), pos, i)
    <2> HIDE DEF s
    <2> QED
      BY <1>1, <1>4, <1>6, ReservedSlot
  <1>8. computed_tokens[p] # BlockSize
    BY <1>7 DEF EntersAt
  <1>9. physical_block_id(r, q) \in Range(block_table[r])
    BY <1>3, SlotsOfItem
  <1>10. SharedFull /\ r # s
    BY DEF KVInv
  <1> HIDE DEF s, r, p
  <1>11. p \notin Range(block_table[r])
    BY <1>1, <1>2, <1>5, <1>8, <1>10, OwnPage
  <1>12. p # physical_block_id(r, q)
    BY <1>9, <1>11
  <1> QED
    BY <1>12 DEF Slot, p, s, r

-----------------------------------------------------------------------------
(* What the slots hold behind a batch.                                     *)

\* A batch of n requests.
LaunchableBatch(items, n) ==
    /\ n \in Nat \ {0}
    /\ items = [i \in 1 .. n |-> items[i]]
    /\ \A i \in 1 .. n : Launchable(items[i])
    /\ \A i, j \in 1 .. n : items[i].seq = items[j].seq => i = j

Before == [slot \in Slots |-> kv[slot[1]][slot[2]]]
After(items) == [slot \in Slots |-> KvAfter(items)[slot[1]][slot[2]]]

\* The values of one item, and the items that write a slot.
Values(item) == [j \in DOMAIN item.tokens |-> TextOf(item, j)]
WritersOf(items, n, slot) == {i \in 1 .. n : slot \in Range(SlotMapping(items[i]))}

LEMMA AfterIs ==
    ASSUME NEW items, NEW n, LaunchableBatch(items, n), NEW slot \in Slots
    PROVE  After(items)[slot]
             = IF WritersOf(items, n, slot) = {} THEN Before[slot]
               ELSE LET item == items[CHOOSE i \in WritersOf(items, n, slot) : TRUE]
                    IN  Written(item.seq, item.start, Values(item))[slot[1]][slot[2]]
  <1>1. PICK p \in Pages, o \in 0 .. BlockSize - 1 : slot = <<p, o>>
    BY DEF Slots
  <1>2. slot[1] = p /\ slot[2] = o
    BY <1>1
  <1>3. DOMAIN items = 1 .. n
    BY DEF LaunchableBatch
  <1> DEFINE W == {i \in 1 .. n : <<p, o>> \in Range(SlotMapping(items[i]))}
             item == items[CHOOSE i \in W : TRUE]
  <1>4. After(items)[slot] = KvAfter(items)[p][o] /\ Before[slot] = kv[p][o]
    BY <1>2 DEF After, Before
  <1>5. WritersOf(items, n, slot) = W
    BY <1>1 DEF WritersOf
  <1>6. KvAfter(items)[p][o]
          = IF W = {} THEN kv[p][o] ELSE Written(item.seq, item.start, Values(item))[p][o]
    BY <1>3 DEF KvAfter, Values
  <1> HIDE DEF W
  <1> QED
    BY <1>2, <1>4, <1>5, <1>6

LEMMA MappedSlots ==
    ASSUME KVInv, NEW item, Launchable(item)
    PROVE  /\ DOMAIN SlotMapping(item) = 1 .. Len(item.tokens)
           /\ \A j \in 1 .. Len(item.tokens) :
                SlotMapping(item)[j] = Slot(item, item.start + j - 1)
           /\ \A slot \in Range(SlotMapping(item)) :
                \E pos \in Nat : /\ item.start <= pos /\ pos < End(item)
                                 /\ slot = Slot(item, pos)
  <1>1. /\ item.tokens \in Seq(Tokens) /\ item.start \in Nat /\ Len(item.tokens) \in Nat
        /\ End(item) = item.start + Len(item.tokens)
    BY ItemBounds
  <1>2. DOMAIN item.tokens = 1 .. Len(item.tokens)
    BY <1>1
  <1>3. /\ DOMAIN SlotMapping(item) = 1 .. Len(item.tokens)
        /\ \A j \in 1 .. Len(item.tokens) : SlotMapping(item)[j] = Slot(item, item.start + j - 1)
    BY <1>2 DEF SlotMapping, Slot
  <1>4. ASSUME NEW slot \in Range(SlotMapping(item))
        PROVE  \E pos \in Nat : item.start <= pos /\ pos < End(item) /\ slot = Slot(item, pos)
    <2>1. PICK j \in 1 .. Len(item.tokens) : slot = Slot(item, item.start + j - 1)
      BY <1>3 DEF Range
    <2> DEFINE pos == item.start + j - 1
    <2>2. pos \in Nat /\ item.start <= pos /\ pos < End(item) /\ slot = Slot(item, pos)
      BY <1>1, <2>1
    <2> HIDE DEF pos
    <2> QED
      BY <2>2
  <1> QED
    BY <1>3, <1>4

\* A new token has its own slot, and it holds the text up to it.
LEMMA SlotWritten ==
    ASSUME KVInv, NEW items, NEW n, LaunchableBatch(items, n),
           NEW r \in 1 .. n, NEW j \in 1 .. Len(items[r].tokens)
    PROVE  After(items)[Slot(items[r], items[r].start + j - 1)] = TextOf(items[r], j)
  <1> DEFINE item == items[r]
             s == item.seq
             pos == item.start + j - 1
             slot == Slot(item, pos)
  <1>1. Launchable(item)
    BY DEF LaunchableBatch
  <1> HIDE DEF item
  <1>2. /\ s \in Seqs /\ item.tokens \in Seq(Tokens) /\ item.start \in Nat
        /\ Len(item.tokens) \in Nat /\ End(item) = item.start + Len(item.tokens)
        /\ End(item) <= Room(s) /\ Room(s) \in Nat
    BY <1>1, ItemBounds
  <1>3. j \in 1 .. Len(item.tokens)
    BY DEF item
  <1>4. pos \in Nat /\ item.start <= pos /\ pos < End(item) /\ pos < Room(s)
    BY <1>2, <1>3
  <1>5. slot \in Slots
    BY <1>1, <1>4, SlotsOfItem
  <1>6. slot \in Range(SlotMapping(item))
    BY <1>1, <1>3, MappedSlots DEF Range
  <1>7. WritersOf(items, n, slot) = {r}
    <2>1. r \in WritersOf(items, n, slot)
      BY <1>6 DEF WritersOf, item
    <2>2. ASSUME NEW k \in WritersOf(items, n, slot)
          PROVE  k = r
      <3>1. k \in 1 .. n /\ slot \in Range(SlotMapping(items[k]))
        BY DEF WritersOf
      <3>2. Launchable(items[k])
        BY <3>1 DEF LaunchableBatch
      <3>3. PICK q \in Nat : items[k].start <= q /\ q < End(items[k]) /\ slot = Slot(items[k], q)
        BY <3>1, <3>2, MappedSlots
      <3>4. items[k].seq = item.seq
        <4> SUFFICES ASSUME items[k].seq # item.seq PROVE FALSE
          OBVIOUS
        <4> QED
          BY <1>1, <1>4, <3>2, <3>3, WritesOwnSlots
      <3> QED
        BY <3>1, <3>4 DEF LaunchableBatch, item
    <2> QED
      BY <2>1, <2>2
  <1>8. (CHOOSE i \in WritersOf(items, n, slot) : TRUE) = r /\ WritersOf(items, n, slot) # {}
    BY <1>7
  <1>9. After(items)[slot] = Written(s, item.start, Values(item))[slot[1]][slot[2]]
    BY <1>5, <1>8, AfterIs DEF item
  <1>10. slot[1] = physical_block_id(s, pos) /\ slot[2] = Offset(pos)
    BY DEF Slot
  <1>11. Written(s, item.start, Values(item))[physical_block_id(s, pos)][Offset(pos)]
           = Values(item)[j]
    <2> DEFINE len == Len(item.tokens)
               values == Values(item)
               start == item.start
    <2>1. BlockManagerTypeOK /\ IsInjective(block_table[s])
      BY <1>2 DEF KVInv, Inv, TypeOK, PoolConsistent
    <2>2. DOMAIN values = 1 .. len /\ len \in Nat /\ j \in 1 .. len /\ start \in Nat
      BY <1>2, <1>3 DEF Values
    <2>3. start + len <= Len(block_table[s]) * BlockSize /\ Len(block_table[s]) * BlockSize \in Nat
      BY <1>2 DEF Room
    <2> HIDE DEF s, len, values, start
    <2>4. Written(s, start, values)[physical_block_id(s, start + j - 1)][Offset(start + j - 1)]
            = values[j]
      BY <1>2, <2>1, <2>2, <2>3, ValueWritten, SMTT(30)
    <2> QED
      BY <2>4 DEF s, values, start
  <1>12. Values(item)[j] = TextOf(item, j)
    BY <1>2, <1>3 DEF Values
  <1>13. After(items)[slot] = TextOf(item, j)
    BY <1>9, <1>10, <1>11, <1>12, Zenon
  <1> QED
    BY <1>13 DEF item

\* The context in front of it is left as it was computed.
LEMMA SlotRead ==
    ASSUME KVInv, NEW items, NEW n, LaunchableBatch(items, n),
           NEW r \in 1 .. n, NEW pos \in Nat, pos < items[r].start
    PROVE  After(items)[Slot(items[r], pos)] = SubSeq(token_ids[items[r].seq], 1, pos + 1)
  <1> DEFINE item == items[r]
             s == item.seq
             slot == Slot(item, pos)
  <1>1. Launchable(item) /\ pos < item.start
    BY DEF LaunchableBatch
  <1> HIDE DEF item
  <1>2. /\ s \in Seqs /\ item.start \in Nat /\ item.start = ValidEnd(s)
        /\ Len(item.tokens) \in Nat /\ End(item) = item.start + Len(item.tokens)
        /\ End(item) <= Room(s) /\ Room(s) \in Nat
    BY <1>1, ItemBounds
  <1>3. pos < End(item) /\ pos < Room(s)
    BY <1>1, <1>2
  <1>4. slot \in Slots /\ \A q \in Nat : q < Room(s) /\ Slot(item, q) = slot => q = pos
    BY <1>1, <1>3, SlotsOfItem
  <1>5. WritersOf(items, n, slot) = {}
    <2> SUFFICES ASSUME NEW k \in WritersOf(items, n, slot) PROVE FALSE
      OBVIOUS
    <2>1. k \in 1 .. n /\ slot \in Range(SlotMapping(items[k]))
      BY DEF WritersOf
    <2>2. Launchable(items[k])
      BY <2>1 DEF LaunchableBatch
    <2>3. PICK q \in Nat : items[k].start <= q /\ q < End(items[k]) /\ slot = Slot(items[k], q)
      BY <2>1, <2>2, MappedSlots
    <2>4. CASE items[k].seq # item.seq
      BY <1>1, <1>3, <2>2, <2>3, <2>4, WritesOwnSlots
    <2>5. CASE items[k].seq = item.seq
      <3>1. k = r
        BY <2>1, <2>5 DEF LaunchableBatch, item
      <3>2. items[k] = item
        BY <3>1 DEF item
      <3>3. item.start <= q /\ q < Room(s) /\ slot = Slot(item, q)
        BY <1>2, <2>3, <3>2
      <3>4. q = pos
        BY <1>4, <3>3
      <3> QED
        BY <1>1, <1>2, <3>3, <3>4
    <2> QED
      BY <2>4, <2>5
  <1>6. After(items)[slot] = Before[slot]
    BY <1>4, <1>5, AfterIs
  <1>7. Before[slot] = kv[physical_block_id(s, pos)][Offset(pos)]
    BY <1>4 DEF Before, Slot
  <1>8. kv[physical_block_id(s, pos)][Offset(pos)] = SubSeq(token_ids[s], 1, pos + 1)
    <2>1. TypeOK /\ Contents(s)
      BY <1>2 DEF KVInv, Inv
    <2>2. ValidEnd(s) \in Nat /\ pos < ValidEnd(s) /\ pos < Len(block_table[s]) * BlockSize
      BY <1>1, <1>2, <1>3 DEF Room
    <2> QED
      BY <1>2, <2>1, <2>2, ReadsBack
  <1> QED
    BY <1>6, <1>7, <1>8 DEF item

\* All of a request's positions, up to its last new token, hold its text.
LEMMA SlotHolds ==
    ASSUME KVInv, NEW items, NEW n, LaunchableBatch(items, n),
           NEW r \in 1 .. n, NEW pos \in Nat, pos < End(items[r])
    PROVE  /\ After(items)[Slot(items[r], pos)] = SubSeq(WholeText(items[r]), 1, pos + 1)
           /\ SubSeq(WholeText(items[r]), 1, pos + 1) \in Texts
  <1> DEFINE item == items[r]
             len == Len(item.tokens)
  <1>1. Launchable(item)
    BY DEF LaunchableBatch
  <1>2. /\ item.start \in Nat /\ len \in Nat \ {0} /\ End(item) = item.start + len
    BY <1>1, ItemBounds
  <1>3. len \in 1 .. len
    BY <1>2
  <1>4. /\ WholeText(item) \in Texts /\ Len(WholeText(item)) = item.start + len
        /\ \A m \in 1 .. item.start :
                SubSeq(WholeText(item), 1, m) = SubSeq(token_ids[item.seq], 1, m)
    BY <1>1, <1>3, ItemText DEF WholeText
  <1>5. pos + 1 \in 1 .. Len(WholeText(item))
    BY <1>2, <1>4
  <1>6. SubSeq(WholeText(item), 1, pos + 1) \in Texts
    BY <1>4, <1>5, PrefixOfText
  <1>7. CASE pos < item.start
    <2>1. pos + 1 \in 1 .. item.start
      BY <1>2, <1>7
    <2>2. After(items)[Slot(item, pos)] = SubSeq(token_ids[item.seq], 1, pos + 1)
      BY <1>7, SlotRead
    <2> QED
      BY <1>4, <1>6, <2>1, <2>2
  <1>8. CASE ~ (pos < item.start)
    <2>1. PICK j \in 1 .. len : j = pos - item.start + 1
      BY <1>2, <1>8
    <2>2. item.start + j - 1 = pos /\ item.start + j = pos + 1
      BY <1>2, <2>1
    <2>3. After(items)[Slot(item, item.start + j - 1)] = TextOf(item, j)
      BY <2>1, SlotWritten
    <2>4. SubSeq(WholeText(item), 1, item.start + j) = TextOf(item, j)
      BY <1>1, <2>1, ItemText
    <2> HIDE DEF item
    <2>5. After(items)[Slot(item, pos)] = SubSeq(WholeText(item), 1, pos + 1)
      BY <2>2, <2>3, <2>4, Zenon
    <2> QED
      BY <1>6, <2>5 DEF item
  <1> QED
    BY <1>7, <1>8

-----------------------------------------------------------------------------
(* The metadata of a batch.                                                *)

\* The request that place i of the flattened batch belongs to.
RequestAt(q, n, i) == CHOOSE r \in 1 .. n : i \in Place(q, r)

\* The texts that end in the places of the flattened batch.
RowTexts(items, n) ==
    LET q == QueryStarts(items)
    IN  [i \in 1 .. q[n] |->
            TextOf(items[RequestAt(q, n, i)], i - q[RequestAt(q, n, i) - 1])]

\* The position of an item's j-th token.
LEMMA TokenPosition ==
    ASSUME KVInv, NEW item, Launchable(item), NEW j \in 1 .. Len(item.tokens)
    PROVE  /\ item.start + j - 1 \in Nat /\ item.start <= item.start + j - 1
           /\ item.start + j - 1 < End(item) /\ item.start + j - 1 < Room(item.seq)
  <1>1. /\ item.start \in Nat /\ Len(item.tokens) \in Nat
        /\ End(item) = item.start + Len(item.tokens)
        /\ End(item) <= Room(item.seq) /\ Room(item.seq) \in Nat
    BY ItemBounds
  <1> QED
    BY <1>1

LEMMA BatchLength ==
    ASSUME NEW items, NEW n, LaunchableBatch(items, n)
    PROVE  Len(items) = n /\ DOMAIN items = 1 .. n /\ n \in Nat \ {0}
  <1>1. n \in Nat \ {0} /\ items = [i \in 1 .. n |-> items[i]]
    BY DEF LaunchableBatch
  <1> DEFINE S == {items[i] : i \in 1 .. n}
  <1>2. items \in [1 .. n -> S]
    BY <1>1
  <1> HIDE DEF S
  <1> QED
    BY <1>1, <1>2

LEMMA BatchPartition ==
    ASSUME KVInv, NEW items, NEW n, LaunchableBatch(items, n),
           NEW parts, \A r \in 1 .. n : Len(parts[r]) = Len(items[r].tokens)
    PROVE  Partition(QueryStarts(items), n, parts)
  <1> DEFINE len == [j \in 1 .. n |-> Len(items[j].tokens)]
  <1>1. n \in Nat \ {0} /\ Len(items) = n /\ DOMAIN items = 1 .. n
    BY BatchLength
  <1>2. QueryStarts(items) = [i \in 0 .. n |-> SumFunctionOnSet(len, 1 .. i)]
    BY <1>1 DEF QueryStarts
  <1>3. \A r \in 1 .. n : Len(items[r].tokens) \in Nat
    BY ItemBounds DEF LaunchableBatch
  <1>4. \A r \in 1 .. n : Len(parts[r]) \in Nat /\ len[r] = Len(parts[r])
    BY <1>3
  <1> HIDE DEF len
  <1>5. Partition([i \in 0 .. n |-> SumFunctionOnSet(len, 1 .. i)], n, parts)
    BY <1>1, <1>4, SumsPartition
  <1> QED
    BY <1>2, <1>5

\* The j-th token of request r is in its place, and no other.
LEMMA TokenPlace ==
    ASSUME KVInv, NEW items, NEW n, LaunchableBatch(items, n),
           NEW r \in 1 .. n, NEW j \in 1 .. Len(items[r].tokens)
    PROVE  LET q == QueryStarts(items)
               i == q[r - 1] + j
           IN  /\ i \in Place(q, r) /\ i \in 1 .. q[n] /\ i - q[r - 1] = j
               /\ RequestAt(q, n, i) = r
               /\ RowTexts(items, n)[i] = TextOf(items[r], j)
               /\ q[r - 1] \in Nat /\ q[r] = q[r - 1] + Len(items[r].tokens)
  <1> DEFINE q == QueryStarts(items)
             i == q[r - 1] + j
             parts == [k \in 1 .. n |-> items[k].tokens]
  <1>1. Partition(q, n, parts)
    <2>1. \A k \in 1 .. n : Len(parts[k]) = Len(items[k].tokens)
      OBVIOUS
    <2> HIDE DEF parts
    <2> QED
      BY <2>1, BatchPartition
  <1>2. parts[r] = items[r].tokens
    OBVIOUS
  <1> HIDE DEF q, parts
  <1>3. q[r - 1] \in Nat /\ Len(items[r].tokens) \in Nat /\ q[r] = q[r - 1] + Len(items[r].tokens)
    <2>1. r - 1 \in 0 .. n
      BY <1>1 DEF Partition
    <2> QED
      BY <1>1, <1>2, <2>1 DEF Partition
  <1>4. i \in Place(q, r) /\ i - q[r - 1] = j
    BY <1>3 DEF Place
  <1> HIDE DEF i
  <1>5. i \in 1 .. q[n] /\ \A s \in 1 .. n : i \in Place(q, s) => s = r
    BY <1>1, <1>4, PlaceOf
  <1>6. RequestAt(q, n, i) = r
    BY <1>4, <1>5 DEF RequestAt
  <1>7. RowTexts(items, n)[i] = TextOf(items[r], j)
    <2>1. RowTexts(items, n)[i] = TextOf(items[RequestAt(q, n, i)], i - q[RequestAt(q, n, i) - 1])
      BY <1>5 DEF RowTexts, q
    <2> QED
      BY <1>4, <1>6, <2>1
  <1> QED
    BY <1>3, <1>4, <1>5, <1>6, <1>7 DEF q, i

\* Every place has a token of some request.
LEMMA TokenAt ==
    ASSUME KVInv, NEW items, NEW n, LaunchableBatch(items, n),
           NEW i \in 1 .. QueryStarts(items)[n]
    PROVE  \E r \in 1 .. n : \E j \in 1 .. Len(items[r].tokens) :
            i = QueryStarts(items)[r - 1] + j
  <1> DEFINE q == QueryStarts(items)
             parts == [k \in 1 .. n |-> items[k].tokens]
  <1>1. Partition(q, n, parts)
    <2>1. \A k \in 1 .. n : Len(parts[k]) = Len(items[k].tokens)
      OBVIOUS
    <2> HIDE DEF parts
    <2> QED
      BY <2>1, BatchPartition
  <1>2. \A r \in 1 .. n : parts[r] = items[r].tokens
    OBVIOUS
  <1>3. i \in 1 .. q[n]
    OBVIOUS
  <1> HIDE DEF q, parts
  <1>4. PICK r \in 1 .. n : i \in Place(q, r)
    BY <1>1, <1>3, PlaceOf
  <1>5. q[r - 1] \in Nat /\ Len(items[r].tokens) \in Nat /\ q[r] = q[r - 1] + Len(items[r].tokens)
    <2>1. r - 1 \in 0 .. n
      BY <1>1 DEF Partition
    <2> QED
      BY <1>1, <1>2, <2>1 DEF Partition
  <1>6. i - q[r - 1] \in 1 .. Len(items[r].tokens) /\ i = q[r - 1] + (i - q[r - 1])
    <2>1. \A x, a, b, l \in Nat : b = a + l /\ x \in a + 1 .. b => x - a \in 1 .. l /\ x = a + (x - a)
      OBVIOUS
    <2>2. i \in q[r - 1] + 1 .. q[r]
      BY <1>4 DEF Place
    <2>3. i \in Nat /\ q[r] \in Nat
      BY <1>3, <1>5
    <2> QED
      BY <1>5, <2>1, <2>2, <2>3
  <1> QED
    BY <1>6 DEF q

\* What each request has for its tokens.
PerToken(parts, items, n, A) ==
    /\ parts \in [1 .. n -> Seq(A)]
    /\ \A r \in 1 .. n : Len(parts[r]) = Len(items[r].tokens)

\* A flattened tensor has in the place of each token what its request has for it.
InPlaces(s, parts, items, n, A) ==
    /\ s \in Seq(A)
    /\ Len(s) = QueryStarts(items)[n]
    /\ \A r \in 1 .. n : \A j \in 1 .. Len(items[r].tokens) :
            s[QueryStarts(items)[r - 1] + j] = parts[r][j]

LEMMA FlattenedBatch ==
    ASSUME KVInv, NEW items, NEW n, LaunchableBatch(items, n),
           NEW A, NEW parts, PerToken(parts, items, n, A)
    PROVE  InPlaces(FlattenSeq(parts), parts, items, n, A)
  <1> DEFINE q == QueryStarts(items)
  <1>1. parts \in [1 .. n -> Seq(A)] /\ \A r \in 1 .. n : Len(parts[r]) = Len(items[r].tokens)
    BY DEF PerToken
  <1>2. Partition(q, n, parts)
    BY <1>1, BatchPartition
  <1>3. Flattened(FlattenSeq(parts), n, A, q, parts)
    BY <1>1, <1>2, FlattenSeqIs
  <1>4. ASSUME NEW r \in 1 .. n, NEW j \in 1 .. Len(items[r].tokens)
        PROVE  FlattenSeq(parts)[q[r - 1] + j] = parts[r][j]
    <2> DEFINE i == q[r - 1] + j
    <2>1. i \in Place(q, r) /\ i - q[r - 1] = j
      BY TokenPlace
    <2> HIDE DEF i
    <2>2. FlattenSeq(parts)[i] = parts[r][i - q[r - 1]]
      BY <1>3, <2>1 DEF Flattened
    <2> QED
      BY <2>1, <2>2 DEF i
  <1> QED
    BY <1>3, <1>4 DEF Flattened, InPlaces

\* The metadata puts every token of a batch in a row of its own.
LEMMA MetadataRows ==
    ASSUME KVInv, NEW items, NEW n, LaunchableBatch(items, n)
    PROVE  Rows(Metadata(items), QueryStarts(items)[n], RowTexts(items, n), Before, After(items))
  <1> DEFINE metadata == Metadata(items)
             q == QueryStarts(items)
             text == RowTexts(items, n)
             tokens == [i \in 1 .. n |-> items[i].tokens]
             positions == [i \in 1 .. n |-> Positions(items[i])]
             slots == [i \in 1 .. n |-> SlotMapping(items[i])]
  <1>1. n \in Nat \ {0} /\ DOMAIN items = 1 .. n
    BY BatchLength
  <1>2. /\ metadata.input_ids = FlattenSeq(tokens)
        /\ metadata.positions = FlattenSeq(positions)
        /\ metadata.slot_mapping = FlattenSeq(slots)
    BY <1>1 DEF Metadata
  <1> HIDE DEF metadata
  <1>3. ASSUME NEW r \in 1 .. n
        PROVE  /\ Launchable(items[r])
               /\ items[r].tokens \in Seq(Tokens)
               /\ items[r].start \in Nat /\ Len(items[r].tokens) \in Nat
               /\ End(items[r]) = items[r].start + Len(items[r].tokens)
               /\ End(items[r]) <= Room(items[r].seq) /\ Room(items[r].seq) \in Nat
    <2>1. Launchable(items[r])
      BY DEF LaunchableBatch
    <2> QED
      BY <2>1, ItemBounds
  <1>4. /\ FlattenSeq(tokens) \in Seq(Tokens) /\ Len(FlattenSeq(tokens)) = q[n]
        /\ \A r \in 1 .. n : \A j \in 1 .. Len(items[r].tokens) :
                FlattenSeq(tokens)[q[r - 1] + j] = items[r].tokens[j]
    <2>1. tokens \in [1 .. n -> Seq(Tokens)]
      BY <1>3
    <2>2. \A r \in 1 .. n : tokens[r] = items[r].tokens
      OBVIOUS
    <2> HIDE DEF tokens, q
    <2>3. \A r \in 1 .. n : Len(tokens[r]) = Len(items[r].tokens)
      BY <2>2
    <2>4. /\ FlattenSeq(tokens) \in Seq(Tokens) /\ Len(FlattenSeq(tokens)) = q[n]
          /\ \A r \in 1 .. n : \A j \in 1 .. Len(items[r].tokens) :
                FlattenSeq(tokens)[q[r - 1] + j] = tokens[r][j]
      <3>1. PerToken(tokens, items, n, Tokens)
        BY <2>1, <2>3 DEF PerToken
      <3>2. InPlaces(FlattenSeq(tokens), tokens, items, n, Tokens)
        BY <3>1, FlattenedBatch
      <3> QED
        BY <3>2 DEF InPlaces, q
    <2> QED
      BY <2>2, <2>4
  <1>5. /\ FlattenSeq(positions) \in Seq(Int) /\ Len(FlattenSeq(positions)) = q[n]
        /\ \A r \in 1 .. n : \A j \in 1 .. Len(items[r].tokens) :
                FlattenSeq(positions)[q[r - 1] + j] = items[r].start + j - 1
    <2>1. ASSUME NEW r \in 1 .. n
          PROVE  /\ positions[r] \in Seq(Int) /\ Len(positions[r]) = Len(items[r].tokens)
                 /\ \A j \in 1 .. Len(items[r].tokens) : positions[r][j] = items[r].start + j - 1
      <3>1. DOMAIN items[r].tokens = 1 .. Len(items[r].tokens)
        BY <1>3
      <3>2. positions[r] = [j \in 1 .. Len(items[r].tokens) |-> items[r].start + j - 1]
        BY <3>1 DEF Positions
      <3> HIDE DEF positions
      <3>3. positions[r] \in [1 .. Len(items[r].tokens) -> Int]
        BY <1>3, <3>2
      <3> QED
        BY <1>3, <3>2, <3>3
    <2>2. positions \in [1 .. n -> Seq(Int)]
      BY <2>1
    <2> HIDE DEF positions, q
    <2>3. \A r \in 1 .. n : Len(positions[r]) = Len(items[r].tokens)
      BY <2>1
    <2>4. /\ FlattenSeq(positions) \in Seq(Int) /\ Len(FlattenSeq(positions)) = q[n]
          /\ \A r \in 1 .. n : \A j \in 1 .. Len(items[r].tokens) :
                FlattenSeq(positions)[q[r - 1] + j] = positions[r][j]
      <3>1. PerToken(positions, items, n, Int)
        BY <2>2, <2>3 DEF PerToken
      <3>2. InPlaces(FlattenSeq(positions), positions, items, n, Int)
        BY <3>1, FlattenedBatch
      <3> QED
        BY <3>2 DEF InPlaces, q
    <2> QED
      BY <2>1, <2>4
  <1>6. /\ FlattenSeq(slots) \in Seq(Slots) /\ Len(FlattenSeq(slots)) = q[n]
        /\ \A r \in 1 .. n : \A j \in 1 .. Len(items[r].tokens) :
                FlattenSeq(slots)[q[r - 1] + j] = Slot(items[r], items[r].start + j - 1)
    <2>1. ASSUME NEW r \in 1 .. n
          PROVE  /\ slots[r] \in Seq(Slots) /\ Len(slots[r]) = Len(items[r].tokens)
                 /\ \A j \in 1 .. Len(items[r].tokens) :
                        slots[r][j] = Slot(items[r], items[r].start + j - 1)
      <3>1. /\ DOMAIN SlotMapping(items[r]) = 1 .. Len(items[r].tokens)
            /\ \A j \in 1 .. Len(items[r].tokens) :
                    SlotMapping(items[r])[j] = Slot(items[r], items[r].start + j - 1)
        BY <1>3, MappedSlots
      <3>2. \A j \in 1 .. Len(items[r].tokens) : Slot(items[r], items[r].start + j - 1) \in Slots
        <4> SUFFICES ASSUME NEW j \in 1 .. Len(items[r].tokens)
                     PROVE  Slot(items[r], items[r].start + j - 1) \in Slots
          OBVIOUS
        <4>1. /\ items[r].start + j - 1 \in Nat
              /\ items[r].start + j - 1 < Room(items[r].seq)
          BY <1>3, TokenPosition
        <4> QED
          BY <1>3, <4>1, SlotsOfItem
      <3>3. slots[r] = SlotMapping(items[r])
        OBVIOUS
      <3> HIDE DEF slots
      <3>4. slots[r] = [j \in 1 .. Len(items[r].tokens) |-> slots[r][j]]
        BY <3>1, <3>3 DEF SlotMapping
      <3>5. slots[r] \in [1 .. Len(items[r].tokens) -> Slots]
        BY <3>1, <3>2, <3>3, <3>4
      <3>6. \A m \in Nat : \A f \in [1 .. m -> Slots] : f \in Seq(Slots) /\ Len(f) = m
        OBVIOUS
      <3>7. Len(items[r].tokens) \in Nat
        BY <1>3
      <3>8. slots[r] \in Seq(Slots) /\ Len(slots[r]) = Len(items[r].tokens)
        BY <3>5, <3>6, <3>7
      <3> QED
        BY <3>1, <3>3, <3>8, Zenon
    <2>2. slots \in [1 .. n -> Seq(Slots)]
      BY <2>1
    <2> HIDE DEF slots, q
    <2>3. \A r \in 1 .. n : Len(slots[r]) = Len(items[r].tokens)
      BY <2>1
    <2>4. /\ FlattenSeq(slots) \in Seq(Slots) /\ Len(FlattenSeq(slots)) = q[n]
          /\ \A r \in 1 .. n : \A j \in 1 .. Len(items[r].tokens) :
                FlattenSeq(slots)[q[r - 1] + j] = slots[r][j]
      <3>1. PerToken(slots, items, n, Slots)
        BY <2>2, <2>3 DEF PerToken
      <3>2. InPlaces(FlattenSeq(slots), slots, items, n, Slots)
        BY <3>1, FlattenedBatch
      <3> QED
        BY <3>2 DEF InPlaces, q
    <2> QED
      BY <2>1, <2>4
  <1> HIDE DEF tokens, positions, slots
  <1>7. q[n] \in Nat
    <2>1. Partition(q, n, [r \in 1 .. n |-> items[r].tokens])
      BY BatchPartition
    <2> HIDE DEF q
    <2>2. n \in 0 .. n
      BY <1>1
    <2> QED
      BY <2>1, <2>2 DEF Partition
  <1>8. ASSUME NEW i \in 1 .. q[n]
        PROVE  \E r \in 1 .. n : \E j \in 1 .. Len(items[r].tokens) :
                /\ i = q[r - 1] + j
                /\ text[i] = TextOf(items[r], j) /\ text[i] \in Texts
                /\ metadata.input_ids[i] = Last(text[i])
                /\ metadata.positions[i] = Len(text[i]) - 1
                /\ metadata.slot_mapping[i] = Slot(items[r], items[r].start + j - 1)
                /\ metadata.slot_mapping[i] \in Slots
                /\ After(items)[metadata.slot_mapping[i]] = text[i]
    <2>1. PICK r \in 1 .. n : \E j \in 1 .. Len(items[r].tokens) : i = q[r - 1] + j
      BY TokenAt
    <2>2. PICK j \in 1 .. Len(items[r].tokens) : i = q[r - 1] + j
      BY <2>1
    <2>3. text[i] = TextOf(items[r], j)
      BY <2>2, TokenPlace
    <2>4. /\ TextOf(items[r], j) \in Texts
          /\ Len(TextOf(items[r], j)) = items[r].start + j
          /\ Last(TextOf(items[r], j)) = items[r].tokens[j]
      BY <1>3, ItemText
    <2>5. /\ metadata.input_ids[i] = items[r].tokens[j]
          /\ metadata.positions[i] = items[r].start + j - 1
          /\ metadata.slot_mapping[i] = Slot(items[r], items[r].start + j - 1)
      BY <1>2, <1>4, <1>5, <1>6, <2>2
    <2>6. metadata.slot_mapping[i] \in Slots
      <3>1. \A f \in Seq(Slots) : \A k \in 1 .. Len(f) : f[k] \in Slots
        OBVIOUS
      <3> QED
        BY <1>2, <1>6, <3>1
    <2>7. After(items)[Slot(items[r], items[r].start + j - 1)] = TextOf(items[r], j)
      BY SlotWritten
    <2>8. metadata.positions[i] = Len(text[i]) - 1
      BY <1>3, <2>3, <2>4, <2>5
    <2> HIDE DEF text, q
    <2> QED
      BY <2>2, <2>3, <2>4, <2>5, <2>6, <2>7, <2>8
  <1>9. metadata.input_ids = [i \in 1 .. q[n] |-> Last(text[i])]
    <2>1. /\ DOMAIN metadata.input_ids = 1 .. q[n]
          /\ metadata.input_ids = [i \in DOMAIN metadata.input_ids |-> metadata.input_ids[i]]
      BY <1>2, <1>4, <1>7
    <2>2. \A i \in 1 .. q[n] : metadata.input_ids[i] = Last(text[i])
      BY <1>8
    <2> HIDE DEF q, text
    <2> QED
      BY <2>1, <2>2
  <1>10. DOMAIN metadata.slot_mapping = 1 .. q[n]
    BY <1>2, <1>6, <1>7
  <1>11. ASSUME NEW i \in 1 .. q[n], NEW k \in 1 .. q[n],
                metadata.slot_mapping[i] = metadata.slot_mapping[k]
         PROVE  i = k
    <2>1. PICK r \in 1 .. n : \E j \in 1 .. Len(items[r].tokens) :
            /\ i = q[r - 1] + j
            /\ metadata.slot_mapping[i] = Slot(items[r], items[r].start + j - 1)
      BY <1>8
    <2>2. PICK j \in 1 .. Len(items[r].tokens) :
            /\ i = q[r - 1] + j
            /\ metadata.slot_mapping[i] = Slot(items[r], items[r].start + j - 1)
      BY <2>1
    <2>3. PICK s \in 1 .. n : \E l \in 1 .. Len(items[s].tokens) :
            /\ k = q[s - 1] + l
            /\ metadata.slot_mapping[k] = Slot(items[s], items[s].start + l - 1)
      BY <1>8
    <2>4. PICK l \in 1 .. Len(items[s].tokens) :
            /\ k = q[s - 1] + l
            /\ metadata.slot_mapping[k] = Slot(items[s], items[s].start + l - 1)
      BY <2>3
    <2> DEFINE pos == items[r].start + j - 1
               other == items[s].start + l - 1
    <2>5. /\ pos \in Nat /\ items[r].start <= pos /\ pos < End(items[r])
          /\ pos < Room(items[r].seq)
      BY <1>3, TokenPosition
    <2>6. /\ other \in Nat /\ other < End(items[s]) /\ other < Room(items[s].seq)
      BY <1>3, TokenPosition
    <2>7. Slot(items[r], pos) = Slot(items[s], other)
      BY <1>11, <2>2, <2>4
    <2>8. items[r].seq = items[s].seq
      <3> HIDE DEF pos, other
      <3> SUFFICES ASSUME items[r].seq # items[s].seq PROVE FALSE
        OBVIOUS
      <3> QED
        BY <1>3, <2>5, <2>6, <2>7, WritesOwnSlots
    <2>9. r = s
      BY <2>8 DEF LaunchableBatch
    <2>10. pos = other
      <3>1. Slot(items[r], pos) = Slot(items[r], other) /\ other < Room(items[r].seq)
        BY <2>6, <2>7, <2>9
      <3> HIDE DEF pos, other
      <3> QED
        BY <1>3, <2>5, <2>6, <3>1, SlotsOfItem
    <2>11. j = l
      <3>1. items[r].start \in Nat /\ items[r].start + j - 1 = items[r].start + l - 1
        BY <1>3, <2>9, <2>10
      <3> QED
        BY <3>1
    <2> QED
      BY <2>2, <2>4, <2>9, <2>11
  <1>12. ASSUME NEW slot \in Slots, slot \notin Range(metadata.slot_mapping)
         PROVE  After(items)[slot] = Before[slot]
    <2>1. WritersOf(items, n, slot) = {}
      <3> SUFFICES ASSUME NEW r \in WritersOf(items, n, slot) PROVE FALSE
        OBVIOUS
      <3>1. r \in 1 .. n /\ slot \in Range(SlotMapping(items[r]))
        BY DEF WritersOf
      <3>2. PICK j \in 1 .. Len(items[r].tokens) : slot = Slot(items[r], items[r].start + j - 1)
        <4>1. /\ DOMAIN SlotMapping(items[r]) = 1 .. Len(items[r].tokens)
              /\ \A j \in 1 .. Len(items[r].tokens) :
                    SlotMapping(items[r])[j] = Slot(items[r], items[r].start + j - 1)
          BY <1>3, <3>1, MappedSlots
        <4> QED
          BY <3>1, <4>1 DEF Range
      <3>3. q[r - 1] + j \in 1 .. q[n]
        BY <3>1, TokenPlace
      <3>4. metadata.slot_mapping[q[r - 1] + j] = slot
        BY <1>2, <1>6, <3>1, <3>2
      <3> HIDE DEF q
      <3> QED
        BY <1>10, <1>12, <3>3, <3>4 DEF Range
    <2> QED
      BY <2>1, AfterIs
  <1>13. \A i \in 1 .. q[n] :
            /\ text[i] \in Texts
            /\ metadata.positions[i] = Len(text[i]) - 1
            /\ metadata.slot_mapping[i] \in Slots
            /\ After(items)[metadata.slot_mapping[i]] = text[i]
    BY <1>8
  <1> HIDE DEF q, text
  <1>14. Rows(metadata, q[n], text, Before, After(items))
    BY <1>7, <1>9, <1>10, <1>11, <1>12, <1>13 DEF Rows
  <1> QED
    BY <1>14 DEF metadata, q, text

-----------------------------------------------------------------------------
(* Attention.                                                              *)

\* A block table has room for the pages of a context.
LEMMA PageInRow ==
    ASSUME NEW pos \in Nat, NEW end \in Nat, pos < end
    PROVE  pos \div BlockSize \in Nat /\ pos \div BlockSize < required_blocks(end)
           /\ required_blocks(end) \in Nat
  <1> DEFINE q == pos \div BlockSize
             m == required_blocks(end)
  <1>1. BlockSize \in Nat /\ BlockSize > 0
    BY BlockSizeAssumption
  <1>2. q \in Nat /\ q * BlockSize <= pos
    BY <1>1, SMTT(30)
  <1>3. m \in Nat /\ end <= m * BlockSize
    BY RoundsUp
  <1> HIDE DEF q, m
  <1>4. q >= m => q * BlockSize >= m * BlockSize
    BY <1>1, <1>2, <1>3, SMTT(30)
  <1>5. q * BlockSize \in Int /\ m * BlockSize \in Int
    BY <1>1, <1>2, <1>3
  <1>6. q < m
    BY <1>2, <1>3, <1>4, <1>5
  <1> QED
    BY <1>2, <1>3, <1>6 DEF q, m

LEMMA RowsReach ==
    ASSUME KVInv, NEW items, NEW n, LaunchableBatch(items, n), NEW r \in 1 .. n
    PROVE  /\ MaximumPages(items) \in Nat
           /\ required_blocks(End(items[r])) <= MaximumPages(items)
           /\ required_blocks(End(items[r])) \in Nat
  <1> DEFINE pages == [i \in 1 .. n |-> required_blocks(End(items[i]))]
             R == {required_blocks(End(items[i])) : i \in 1 .. n}
  <1>1. n \in Nat \ {0} /\ DOMAIN items = 1 .. n
    BY BatchLength
  <1>2. \A i \in 1 .. n : required_blocks(End(items[i])) \in Nat
    <2> SUFFICES ASSUME NEW i \in 1 .. n PROVE required_blocks(End(items[i])) \in Nat
      OBVIOUS
    <2>1. End(items[i]) \in Nat
      BY ItemBounds DEF LaunchableBatch
    <2> QED
      BY <2>1, RoundsUp
  <1>3. R \subseteq Int /\ R # {} /\ R \subseteq Nat
    BY <1>1, <1>2
  <1>4. IsFiniteSet(R)
    <2>1. n \in Int /\ 1 \in Int
      BY <1>1
    <2>4. IsFiniteSet(1 .. n)
      BY <2>1, FS_Interval
    <2>2. pages \in [1 .. n -> R] /\ \A x \in R : \E i \in 1 .. n : pages[i] = x
      OBVIOUS
    <2> HIDE DEF R, pages
    <2>3. pages \in Surjection(1 .. n, R)
      BY <2>2 DEF Surjection
    <2> QED
      BY <2>3, <2>4, FS_Surjection
  <1>5. MaximumPages(items) = Max(R)
    BY <1>1 DEF MaximumPages
  <1>6. required_blocks(End(items[r])) \in R
    OBVIOUS
  <1> HIDE DEF R
  <1>7. Greatest(R, Max(R))
    BY <1>3, <1>4, GreatestOfFinite
  <1> QED
    BY <1>3, <1>5, <1>6, <1>7 DEF Greatest

\* Through the padded block table a request finds the vectors of its own text.
LEMMA LoadsText ==
    ASSUME KVInv, NEW items, NEW n, LaunchableBatch(items, n),
           NEW r \in 1 .. n, NEW pos \in Nat, pos < End(items[r]), NEW l \in Layers
    PROVE  /\ Load(Pool(l, After(items)), Metadata(items).block_tables[r], pos)
                = Stored(l, SubSeq(WholeText(items[r]), 1, pos + 1))
           /\ Stored(l, SubSeq(WholeText(items[r]), 1, pos + 1)) # NaN
  <1> DEFINE item == items[r]
             s == item.seq
             width == MaximumPages(items)
             row == Row(block_table[s], width)
             page == pos \div BlockSize
             cache == Pool(l, After(items))
             found == SubSeq(WholeText(item), 1, pos + 1)
  <1>1. Launchable(item) /\ DOMAIN items = 1 .. n
    BY BatchLength DEF LaunchableBatch
  <1>2. Metadata(items).block_tables[r] = row
    BY <1>1 DEF Metadata
  <1>3. /\ s \in Seqs /\ End(item) \in Nat /\ End(item) <= Room(s) /\ Room(s) \in Nat
    BY <1>1, ItemBounds
  <1>4. pos < Room(s)
    BY <1>3
  <1>5. width \in Nat /\ required_blocks(End(item)) <= width /\ required_blocks(End(item)) \in Nat
    BY RowsReach
  <1>6. page \in Nat /\ page < required_blocks(End(item))
    BY <1>3, PageInRow
  <1>7. page < Len(block_table[s])
    <2>1. BlockManagerTypeOK /\ pos < Len(block_table[s]) * BlockSize
      BY <1>4 DEF KVInv, Inv, TypeOK, Room
    <2>2. IsMapped(s, pos)
      BY <1>3, <2>1, PositionMapped
    <2> QED
      BY <2>2 DEF IsMapped
  <1>8. Slot(item, pos) \in Slots /\ physical_block_id(s, pos) \in Pages
    BY <1>1, <1>4, SlotsOfItem
  <1>9. block_table[s][page + 1] = physical_block_id(s, pos)
    BY DEF physical_block_id
  <1>10. After(items)[Slot(item, pos)] = found /\ found \in Texts
    BY SlotHolds
  <1> HIDE DEF width, page, item
  <1>11. page \in 0 .. width - 1
    BY <1>5, <1>6
  <1>12. page \in DOMAIN row /\ row[page] = physical_block_id(s, pos)
    BY <1>7, <1>9, <1>11 DEF Row
  <1>13. row[page] # NoPage
    BY <1>8, <1>12, NoPageAssumption
  <1>14. cache[Slot(item, pos)] = Stored(l, found)
    BY <1>8, <1>10 DEF Pool
  <1> HIDE DEF row, cache, found
  <1>15. Load(cache, row, pos) = cache[Slot(item, pos)]
    BY <1>12, <1>13 DEF Load, Slot, page
  <1>16. Stored(l, found) # NaN
    BY <1>10, StoredOfText
  <1> QED
    BY <1>2, <1>14, <1>15, <1>16 DEF row, cache, found, item, width

\* What a token has to attend to, of all that its request's pages hold.
LEMMA RememberedIs ==
    ASSUME KVInv, NEW item, Launchable(item), NEW j \in 1 .. Len(item.tokens), NEW l
    PROVE  Remembered(l, TextOf(item, j))
             = {Stored(l, SubSeq(WholeText(item), 1, pos + 1)) : pos \in 0 .. item.start + j - 1}
  <1>1. /\ Len(TextOf(item, j)) = item.start + j
        /\ \A m \in 1 .. item.start + j :
                SubSeq(TextOf(item, j), 1, m) = SubSeq(WholeText(item), 1, m)
    BY ItemText
  <1>2. PICK m \in Nat : m = item.start + j
    BY ItemBounds
  <1> DEFINE f(i) == Stored(l, SubSeq(WholeText(item), 1, i))
  <1>3. Remembered(l, TextOf(item, j)) = {f(i) : i \in 1 .. m}
    BY <1>1, <1>2 DEF Remembered
  <1> HIDE DEF f
  <1>4. {f(i) : i \in 1 .. m} = {f(pos + 1) : pos \in 0 .. m - 1}
    <2>1. \A i \in 1 .. m : i - 1 \in 0 .. m - 1 /\ (i - 1) + 1 = i
      OBVIOUS
    <2>2. \A pos \in 0 .. m - 1 : pos + 1 \in 1 .. m
      OBVIOUS
    <2>3. ASSUME NEW i \in 1 .. m PROVE f(i) \in {f(pos + 1) : pos \in 0 .. m - 1}
      <3>1. f(i) = f((i - 1) + 1) /\ i - 1 \in 0 .. m - 1
        BY <2>1
      <3> QED
        BY <3>1
    <2> QED
      BY <2>2, <2>3
  <1>5. item.start + j - 1 = m - 1
    <2>1. item.start \in Nat /\ j \in Nat
      BY ItemBounds
    <2> QED
      BY <1>2, <2>1
  <1> QED
    BY <1>3, <1>4, <1>5 DEF f

\* Prefill attention gathers a request's whole context; the mask leaves each token
\* what lies up to it.
LEMMA PrefillAttends ==
    ASSUME KVInv, NEW items, NEW n, LaunchableBatch(items, n)
    PROVE  AttendsToText(Metadata(items), FALSE, QueryStarts(items)[n], RowTexts(items, n),
                         After(items))
  <1> DEFINE metadata == Metadata(items)
             q == QueryStarts(items)
             text == RowTexts(items, n)
             after == After(items)
  <1>1. DOMAIN items = 1 .. n
    BY BatchLength
  <1>2. /\ DOMAIN metadata.context_lens = 1 .. n
        /\ \A r \in 1 .. n : metadata.context_lens[r] = End(items[r])
        /\ metadata.query_starts = q
    BY <1>1 DEF Metadata
  <1>3. Rows(metadata, q[n], text, Before, after)
    BY MetadataRows
  <1> SUFFICES ASSUME NEW l \in Layers, NEW i \in 1 .. q[n]
               PROVE  Attention(Pool(l, after), metadata, FALSE, i) = Remembered(l, text[i])
    BY DEF AttendsToText
  <1>4. PICK r \in 1 .. n : \E j \in 1 .. Len(items[r].tokens) : i = q[r - 1] + j
    BY TokenAt
  <1>5. PICK j \in 1 .. Len(items[r].tokens) : i = q[r - 1] + j
    BY <1>4
  <1>6. RequestAt(q, n, i) = r /\ text[i] = TextOf(items[r], j)
    BY <1>5, TokenPlace
  <1> DEFINE item == items[r]
             cache == Pool(l, after)
             row == metadata.block_tables[r]
             context == 0 .. End(item) - 1
             G(pos) == Load(cache, row, pos)
             Own(pos) == Stored(l, SubSeq(WholeText(item), 1, pos + 1))
  <1>7. Launchable(item)
    BY DEF LaunchableBatch
  <1>8. /\ item.start \in Nat /\ Len(item.tokens) \in Nat
        /\ End(item) = item.start + Len(item.tokens)
    BY <1>7, ItemBounds
  <1>9. metadata.positions[i] = item.start + j - 1
    <2>1. metadata.positions[i] = Len(text[i]) - 1
      BY <1>3 DEF Rows
    <2>2. Len(TextOf(item, j)) = item.start + j
      BY <1>7, ItemText
    <2> HIDE DEF item, text, metadata
    <2> QED
      BY <1>6, <1>8, <2>1, <2>2 DEF item
  <1>10. Attention(cache, metadata, FALSE, i)
           = {G(pos) : pos \in {k \in context : \/ Attends(item.start + j - 1, k)
                                                \/ G(k) = NaN}}
    <2>1. (CHOOSE k \in DOMAIN metadata.context_lens :
                i \in metadata.query_starts[k - 1] + 1 .. metadata.query_starts[k]) = r
      BY <1>2, <1>6 DEF RequestAt, Place
    <2> HIDE DEF metadata, cache
    <2>2. metadata.context_lens[r] = End(item)
      BY <1>2
    <2> QED
      BY <1>9, <2>1, <2>2 DEF Attention, PrefillAttention
  <1>11. \A pos \in context : G(pos) = Own(pos) /\ Own(pos) # NaN
    <2> SUFFICES ASSUME NEW pos \in context PROVE G(pos) = Own(pos) /\ Own(pos) # NaN
      OBVIOUS
    <2>1. pos \in Nat /\ pos < End(item)
      BY <1>8
    <2> QED
      BY <2>1, LoadsText
  <1>12. {k \in context : Attends(item.start + j - 1, k) \/ G(k) = NaN} = 0 .. item.start + j - 1
    <2>1. \A k \in context : G(k) # NaN
      BY <1>11
    <2>2. \A k \in Int : k \in 0 .. item.start + j - 1
            <=> k \in context /\ Attends(item.start + j - 1, k)
      BY <1>8 DEF Attends
    <2> HIDE DEF G
    <2>3. context \subseteq Int /\ 0 .. item.start + j - 1 \subseteq Int
      OBVIOUS
    <2> QED
      BY <2>1, <2>2, <2>3
  <1>13. \A pos \in 0 .. item.start + j - 1 : pos \in context
    BY <1>8
  <1>14. Remembered(l, TextOf(item, j)) = {Own(pos) : pos \in 0 .. item.start + j - 1}
    BY <1>7, RememberedIs
  <1> HIDE DEF G, Own, context
  <1>15. Attention(cache, metadata, FALSE, i) = {G(pos) : pos \in 0 .. item.start + j - 1}
    BY <1>10, <1>12, Zenon
  <1>16. {G(pos) : pos \in 0 .. item.start + j - 1} = {Own(pos) : pos \in 0 .. item.start + j - 1}
    BY <1>11, <1>13
  <1> QED
    BY <1>6, <1>14, <1>15, <1>16 DEF item, cache


\* The kernel gives a weight to the offsets of the context and to no others.
LEMMA KernelReads ==
    ASSUME NEW n \in Nat \ {0}, NEW lens, Lengths(lens, n), NEW i \in 1 .. n
    PROVE  LET softmax == OnlineSoftmax(lens[i], MaxContext(lens), [k \in Nat |-> 0])
           IN  {j \in DOMAIN softmax.weight : softmax.weight[j] > 0} = 0 .. lens[i] - 1
  <1> DEFINE length == lens[i]
             score == [k \in Nat |-> 0]
             run == OnlineSoftmax(length, MaxContext(lens), score)
  <1>1. length \in Nat \ {0} /\ MaxContext(lens) \in Nat /\ MaxContext(lens) >= length
    BY MaxContextCovers DEF Lengths
  <1>2. MaxScore \in Nat
    BY MaxScoreAssumption
  <1>3. \A k \in Nat : score[k] = 0
    OBVIOUS
  <1> HIDE DEF length, score
  <1>4. ScoresOf(score, length)
    BY <1>1, <1>2, <1>3 DEF ScoresOf
  <1>5. PICK m \in Nat : m >= length /\ Accumulated(run, m, length, score)
    BY <1>1, <1>4, OnlineSoftmaxCovers
  <1> HIDE DEF run
  <1>6. run.max \in 0 .. MaxScore
    <2>1. 0 \in InContext(m, length)
      BY <1>1, <1>5 DEF InContext
    <2>2. run.max \in -1 .. MaxScore /\ run.max # -1
      BY <1>5, <2>1 DEF Accumulated
    <2> QED
      BY <1>2, <2>2
  <1>7. Pow2[MaxScore + 0 - run.max] > 0
    <2>1. MaxScore + 0 - run.max \in Nat
      BY <1>2, <1>6
    <2>2. \A x \in Nat \ {0} : x > 0
      OBVIOUS
    <2> QED
      BY <2>1, <2>2, PowersPositive
  <1>8. DOMAIN run.weight = 0 .. m - 1
    BY <1>5 DEF Accumulated
  <1>9. \A k \in 0 .. m - 1 : run.weight[k] > 0 <=> k < length
    <2> SUFFICES ASSUME NEW k \in 0 .. m - 1 PROVE run.weight[k] > 0 <=> k < length
      OBVIOUS
    <2>1. run.weight[k] = IF k < length THEN Pow2[MaxScore + score[k] - run.max] ELSE 0
      BY <1>5 DEF Accumulated
    <2>2. score[k] = 0
      BY <1>3
    <2> QED
      BY <1>7, <2>1, <2>2
  <1>10. \A k \in Int : k \in 0 .. m - 1 /\ k < length <=> k \in 0 .. length - 1
    BY <1>1, <1>5
  <1>11. {j \in DOMAIN run.weight : run.weight[j] > 0} = 0 .. length - 1
    <2>1. 0 .. m - 1 \subseteq Int /\ 0 .. length - 1 \subseteq Int
      OBVIOUS
    <2> QED
      BY <1>8, <1>9, <1>10, <2>1
  <1> QED
    BY <1>11 DEF run, length, score

\* A batch of single tokens: row r is request r's.
LEMMA RowOfDecode ==
    ASSUME KVInv, NEW items, NEW n, LaunchableBatch(items, n),
           \A r \in 1 .. n : Len(items[r].tokens) = 1
    PROVE  \A r \in 0 .. n : QueryStarts(items)[r] = r
  <1> DEFINE q == QueryStarts(items)
             parts == [k \in 1 .. n |-> items[k].tokens]
             B == {r \in Nat : r \in 0 .. n /\ q[r] # r}
  <1>1. Partition(q, n, parts)
    <2>1. \A k \in 1 .. n : Len(parts[k]) = Len(items[k].tokens)
      OBVIOUS
    <2> HIDE DEF parts
    <2> QED
      BY <2>1, BatchPartition
  <1>2. \A r \in 1 .. n : Len(parts[r]) = 1
    OBVIOUS
  <1>3. n \in Nat /\ q[0] = 0 /\ \A r \in 1 .. n : q[r] = q[r - 1] + 1
    BY <1>1, <1>2 DEF Partition
  <1> HIDE DEF q, parts
  <1>4. SUFFICES ASSUME B # {} PROVE FALSE
    <2>1. \A r \in 0 .. n : r \in Nat
      OBVIOUS
    <2>2. \A r \in 0 .. n : q[r] = r
      BY <1>4, <2>1
    <2> QED
      BY <2>2 DEF q
  <1>5. PICK r \in B : \A m \in B : r <= m
    <2>1. B \in SUBSET Nat
      OBVIOUS
    <2> HIDE DEF B
    <2> QED
      BY <1>4, <2>1, SmallestNat
  <1>6. r \in 1 .. n /\ r - 1 \in Nat /\ r - 1 \in 0 .. n /\ r - 1 \notin B
    BY <1>3, <1>5
  <1>7. q[r - 1] = r - 1
    BY <1>6
  <1> QED
    BY <1>3, <1>5, <1>6, <1>7

\* Decode attention reads a request's whole context through the kernel.
LEMMA DecodeAttends ==
    ASSUME KVInv, NEW items, NEW n, LaunchableBatch(items, n),
           \A r \in 1 .. n : Len(items[r].tokens) = 1
    PROVE  AttendsToText(Metadata(items), TRUE, QueryStarts(items)[n], RowTexts(items, n),
                         After(items))
  <1> DEFINE metadata == Metadata(items)
             q == QueryStarts(items)
             text == RowTexts(items, n)
             after == After(items)
             lens == metadata.context_lens
  <1>1. n \in Nat \ {0} /\ DOMAIN items = 1 .. n
    BY BatchLength
  <1>2. q[n] = n /\ \A r \in 1 .. n : q[r - 1] = r - 1
    <2>1. n \in 0 .. n /\ \A r \in 1 .. n : r - 1 \in 0 .. n
      BY <1>1
    <2> QED
      BY <2>1, RowOfDecode
  <1>3. lens = [r \in 1 .. n |-> End(items[r])]
    BY <1>1 DEF Metadata
  <1>4. Lengths(lens, n)
    <2>1. \A r \in 1 .. n : End(items[r]) \in Nat \ {0}
      BY ItemBounds DEF LaunchableBatch
    <2> HIDE DEF lens
    <2> QED
      BY <1>3, <2>1 DEF Lengths
  <1> SUFFICES ASSUME NEW l \in Layers, NEW i \in 1 .. n
               PROVE  Attention(Pool(l, after), metadata, TRUE, i) = Remembered(l, text[i])
    BY <1>2 DEF AttendsToText
  <1> DEFINE item == items[i]
             cache == Pool(l, after)
             row == metadata.block_tables[i]
             G(pos) == Load(cache, row, pos)
             Own(pos) == Stored(l, SubSeq(WholeText(item), 1, pos + 1))
             softmax == OnlineSoftmax(lens[i], MaxContext(lens), [k \in Nat |-> 0])
  <1>5. Launchable(item) /\ Len(item.tokens) = 1
    BY DEF LaunchableBatch
  <1>6. /\ item.start \in Nat /\ End(item) = item.start + 1
    BY <1>5, ItemBounds
  <1>7. 1 \in 1 .. Len(item.tokens) /\ q[i - 1] + 1 = i
    BY <1>2, <1>5
  <1>8. text[i] = TextOf(item, 1)
    BY <1>7, TokenPlace
  <1>9. lens[i] = End(item)
    BY <1>3
  <1>10. {j \in DOMAIN softmax.weight : softmax.weight[j] > 0} = 0 .. lens[i] - 1
    <2> HIDE DEF lens
    <2> QED
      BY <1>1, <1>4, KernelReads
  <1>11. Attention(cache, metadata, TRUE, i)
           = {G(pos) : pos \in {j \in DOMAIN softmax.weight : softmax.weight[j] > 0}}
    <2> HIDE DEF cache
    <2> QED
      BY DEF Attention, DecodeAttention
  <1>12. item.start + 1 - 1 = End(item) - 1
    BY <1>6
  <1>13. \A pos \in 0 .. End(item) - 1 : G(pos) = Own(pos)
    <2> SUFFICES ASSUME NEW pos \in 0 .. End(item) - 1 PROVE G(pos) = Own(pos)
      OBVIOUS
    <2>1. pos \in Nat /\ pos < End(item)
      BY <1>6
    <2> QED
      BY <2>1, LoadsText
  <1>14. Remembered(l, TextOf(item, 1)) = {Own(pos) : pos \in 0 .. item.start + 1 - 1}
    BY <1>5, <1>7, RememberedIs
  <1> HIDE DEF G, Own, softmax, lens
  <1>15. Attention(cache, metadata, TRUE, i) = {G(pos) : pos \in 0 .. End(item) - 1}
    BY <1>9, <1>10, <1>11, Zenon
  <1>16. Remembered(l, TextOf(item, 1)) = {Own(pos) : pos \in 0 .. End(item) - 1}
    BY <1>12, <1>14, Zenon
  <1>17. {G(pos) : pos \in 0 .. End(item) - 1} = {Own(pos) : pos \in 0 .. End(item) - 1}
    BY <1>13
  <1> QED
    BY <1>8, <1>15, <1>16, <1>17 DEF item, cache


-----------------------------------------------------------------------------
(* The batches that the runner launches.                                   *)

\* The logits are read off the rows of the given texts.
ReadsRows(logit_indices, items, n, texts) ==
    /\ DOMAIN logit_indices = DOMAIN texts
    /\ \A row \in DOMAIN texts :
        /\ logit_indices[row] + 1 \in 1 .. QueryStarts(items)[n]
        /\ RowTexts(items, n)[logit_indices[row] + 1] = texts[row]

LEMMA ForwardIsExact ==
    ASSUME KVInv, NEW items, NEW n, LaunchableBatch(items, n), NEW is_decode,
           AttendsToText(Metadata(items), is_decode, QueryStarts(items)[n], RowTexts(items, n),
                         After(items)),
           NEW logit_indices, NEW texts, ReadsRows(logit_indices, items, n, texts)
    PROVE  ForwardExact(items, is_decode, logit_indices, texts)
  <1> DEFINE text == RowTexts(items, n)
             places == QueryStarts(items)[n]
             kv_cache == [l \in Layers |-> Pool(l, Before)]
             run == Qwen3Model(Metadata(items), is_decode, kv_cache)
             out == BatchForward(items, is_decode, logit_indices)
  <1>1. LayersDone(run, NumLayers, places, text, Before, After(items))
    BY MetadataRows, ModelExact
  <1>2. kv_cache = [l \in Layers |-> [slot \in Slots |-> Stored(l, kv[slot[1]][slot[2]])]]
    BY DEF Pool, Before
  <1>3. /\ out.logits = [row \in DOMAIN logit_indices |-> run.hidden[logit_indices[row] + 1]]
        /\ out.kv_cache = run.kv_cache
    <2>1. BatchForward(items, is_decode, logit_indices)
            = [logits |-> [row \in DOMAIN logit_indices |->
                    Qwen3Model(Metadata(items), is_decode,
                        [l \in Layers |-> [slot \in Slots |-> Stored(l, kv[slot[1]][slot[2]])]])
                            .hidden[logit_indices[row] + 1]],
               kv_cache |-> Qwen3Model(Metadata(items), is_decode,
                        [l \in Layers |-> [slot \in Slots |-> Stored(l, kv[slot[1]][slot[2]])]])
                            .kv_cache]
      BY DEF BatchForward
    <2> HIDE DEF kv_cache
    <2>2. out = [logits |-> [row \in DOMAIN logit_indices |-> run.hidden[logit_indices[row] + 1]],
                 kv_cache |-> run.kv_cache]
      BY <1>2, <2>1, Zenon
    <2> HIDE DEF out, run
    <2> QED
      BY <2>2
  <1> HIDE DEF out, run, kv_cache, text
  <1>4. out.logits = [row \in DOMAIN texts |-> Hidden[NumLayers][texts[row]]]
    <2>1. run.hidden = [i \in 1 .. places |-> Hidden[NumLayers][text[i]]]
      BY <1>1 DEF LayersDone
    <2>2. DOMAIN logit_indices = DOMAIN texts
      BY DEF ReadsRows
    <2>3. ASSUME NEW row \in DOMAIN texts
          PROVE  run.hidden[logit_indices[row] + 1] = Hidden[NumLayers][texts[row]]
      <3>1. logit_indices[row] + 1 \in 1 .. places /\ text[logit_indices[row] + 1] = texts[row]
        BY DEF ReadsRows, text
      <3> QED
        BY <2>1, <3>1
    <2> QED
      BY <1>3, <2>2, <2>3
  <1>5. ASSUME NEW l \in Layers, NEW slot \in Slots
        PROVE  out.kv_cache[l][slot] = Stored(l, KvAfter(items)[slot[1]][slot[2]])
    <2>1. l <= NumLayers
      BY NumLayersAssumption DEF Layers
    <2>2. run.kv_cache[l] = Pool(l, After(items))
      BY <1>1, <2>1 DEF LayersDone
    <2> QED
      BY <1>3, <2>2 DEF Pool, After
  <1> QED
    BY <1>4, <1>5 DEF ForwardExact, out

LEMMA PrefillLaunchable ==
    ASSUME KVInv, NEW s \in Prefills
    PROVE  Launchable(PrefillItem(s)) /\ PrefillItem(s).seq = s
  <1>1. s \in Seqs /\ work[s] = "scheduled" /\ IsPrefilling(s)
    BY DEF Prefills, Scheduled
  <1>2. <<>> \in Seq(Tokens)
    OBVIOUS
  <1>3. /\ Query(s, <<>>) \in Seq(Tokens) /\ Len(Query(s, <<>>)) = num_tokens[s]
    BY <1>1, <1>2, QueryType DEF KVInv
  <1>4. num_tokens[s] \in Nat /\ num_tokens[s] > 0
    BY <1>1, ScheduledReserved
  <1>5. /\ PrefillItem(s).seq = s /\ PrefillItem(s).start = Start(s)
        /\ PrefillItem(s).tokens = Query(s, <<>>)
    BY <1>1 DEF PrefillItem, Query
  <1> QED
    BY <1>1, <1>3, <1>4, <1>5 DEF Launchable

LEMMA DecodeLaunchable ==
    ASSUME KVInv, NEW s \in Scheduled \ Prefills, NEW drafts \in Seq(Tokens),
           Len(drafts) < num_tokens[s]
    PROVE  /\ Launchable(DecodeItem(s, drafts)) /\ DecodeItem(s, drafts).seq = s
           /\ Len(DecodeItem(s, drafts).tokens) = Len(drafts) + 1
  <1>1. s \in Seqs /\ work[s] = "scheduled" /\ ~ IsPrefilling(s)
    BY DEF Prefills, Scheduled
  <1>2. /\ Query(s, drafts) \in Seq(Tokens) /\ Len(Query(s, drafts)) \in 1 .. num_tokens[s]
    BY <1>1, QueryType DEF KVInv
  <1>3. /\ DecodeItem(s, drafts).seq = s /\ DecodeItem(s, drafts).start = Start(s)
        /\ DecodeItem(s, drafts).tokens = <<token_ids[s][Start(s) + 1]>> \o drafts
        /\ DecodeItem(s, drafts).tokens = Query(s, drafts)
    BY <1>1 DEF DecodeItem, Query
  <1>4. \A x : Len(<<x>> \o drafts) = Len(drafts) + 1
    OBVIOUS
  <1> QED
    BY <1>1, <1>2, <1>3, <1>4 DEF Launchable

\* Batched prefills.
LEMMA PrefillsExact ==
    ASSUME KVInv, NEW batch \in Batches(Prefills)
    PROVE  ForwardExact(PrefillItems(batch), FALSE, PrefillLogits(PrefillItems(batch)),
                        [i \in DOMAIN PrefillItems(batch) |->
                            TextOf(PrefillItems(batch)[i], Len(PrefillItems(batch)[i].tokens))])
  <1> DEFINE items == PrefillItems(batch)
             texts == [i \in DOMAIN items |-> TextOf(items[i], Len(items[i].tokens))]
             q == QueryStarts(items)
  <1>1. Prefills \subseteq Seqs
    BY DEF Prefills, Scheduled
  <1>2. PICK n \in Nat \ {0} :
            /\ batch \in [1 .. n -> Prefills]
            /\ \A i, j \in 1 .. n : batch[i] = batch[j] => i = j
    BY <1>1, BatchOrder
  <1>3. items = [i \in 1 .. n |-> PrefillItem(batch[i])]
    BY <1>2 DEF PrefillItems
  <1>4. DOMAIN items = 1 .. n /\ \A i \in 1 .. n : items[i] = PrefillItem(batch[i])
    BY <1>3
  <1> HIDE DEF items
  <1>5. \A i \in 1 .. n : Launchable(items[i]) /\ items[i].seq = batch[i]
    BY <1>2, <1>4, PrefillLaunchable
  <1>6. LaunchableBatch(items, n)
    BY <1>2, <1>3, <1>4, <1>5 DEF LaunchableBatch
  <1>7. ReadsRows(PrefillLogits(items), items, n, texts)
    <2>1. DOMAIN PrefillLogits(items) = 1 .. n /\ DOMAIN texts = 1 .. n
      BY <1>4 DEF PrefillLogits
    <2>2. ASSUME NEW i \in 1 .. n
          PROVE  /\ PrefillLogits(items)[i] + 1 \in 1 .. q[n]
                 /\ RowTexts(items, n)[PrefillLogits(items)[i] + 1] = texts[i]
      <3> DEFINE j == Len(items[i].tokens)
      <3>1. j \in Nat \ {0}
        BY <1>5, ItemBounds
      <3>2. j \in 1 .. Len(items[i].tokens)
        BY <3>1
      <3>3. /\ q[i - 1] + j \in 1 .. q[n] /\ RowTexts(items, n)[q[i - 1] + j] = TextOf(items[i], j)
            /\ q[i - 1] \in Nat /\ q[i] = q[i - 1] + Len(items[i].tokens)
        <4> HIDE DEF j
        <4> QED
          BY <1>6, <3>2, TokenPlace
      <3>4. Metadata(items).query_starts = q
        BY DEF Metadata
      <3>5. PrefillLogits(items)[i] = q[i] - 1
        BY <1>4, <3>4 DEF PrefillLogits
      <3>6. texts[i] = TextOf(items[i], j) /\ Len(items[i].tokens) = j
        BY <1>4
      <3> HIDE DEF q, j, texts
      <3>7. PrefillLogits(items)[i] + 1 = q[i - 1] + j
        BY <3>1, <3>3, <3>5, <3>6
      <3> QED
        BY <3>3, <3>6, <3>7
    <2> HIDE DEF texts
    <2> QED
      BY <2>1, <2>2 DEF ReadsRows
  <1>8. AttendsToText(Metadata(items), FALSE, q[n], RowTexts(items, n), After(items))
    BY <1>6, PrefillAttends
  <1> HIDE DEF texts
  <1>9. ForwardExact(items, FALSE, PrefillLogits(items), texts)
    BY <1>6, <1>7, <1>8, ForwardIsExact
  <1> QED
    BY <1>9 DEF texts, items

\* Batched decodes.
LEMMA DecodesExact ==
    ASSUME KVInv, NEW batch \in Batches(Scheduled \ Prefills)
    PROVE  ForwardExact(DecodeItems(batch), TRUE, [i \in DOMAIN DecodeItems(batch) |-> i - 1],
                        [i \in DOMAIN DecodeItems(batch) |-> TextOf(DecodeItems(batch)[i], 1)])
  <1> DEFINE items == DecodeItems(batch)
             texts == [i \in DOMAIN items |-> TextOf(items[i], 1)]
             rows == [i \in DOMAIN items |-> i - 1]
             q == QueryStarts(items)
  <1>1. Scheduled \ Prefills \subseteq Seqs
    BY DEF Scheduled
  <1>2. PICK n \in Nat \ {0} :
            /\ batch \in [1 .. n -> Scheduled \ Prefills]
            /\ \A i, j \in 1 .. n : batch[i] = batch[j] => i = j
    BY <1>1, BatchOrder
  <1>3. items = [i \in 1 .. n |-> DecodeItem(batch[i], <<>>)]
    BY <1>2 DEF DecodeItems
  <1>4. DOMAIN items = 1 .. n /\ \A i \in 1 .. n : items[i] = DecodeItem(batch[i], <<>>)
    BY <1>3
  <1> HIDE DEF items
  <1>5. ASSUME NEW i \in 1 .. n
        PROVE  Launchable(items[i]) /\ items[i].seq = batch[i] /\ Len(items[i].tokens) = 1
    <2>1. batch[i] \in Scheduled \ Prefills
      BY <1>2
    <2>2. <<>> \in Seq(Tokens) /\ Len(<<>>) = 0
      OBVIOUS
    <2>3. num_tokens[batch[i]] \in Nat /\ num_tokens[batch[i]] > 0
      BY <2>1, ScheduledReserved DEF Scheduled
    <2>4. /\ Launchable(DecodeItem(batch[i], <<>>)) /\ DecodeItem(batch[i], <<>>).seq = batch[i]
          /\ Len(DecodeItem(batch[i], <<>>).tokens) = Len(<<>>) + 1
      BY <2>1, <2>2, <2>3, DecodeLaunchable
    <2> QED
      BY <1>4, <2>2, <2>4
  <1>6. LaunchableBatch(items, n)
    BY <1>2, <1>3, <1>4, <1>5 DEF LaunchableBatch
  <1>7. ReadsRows(rows, items, n, texts)
    <2>1. ASSUME NEW i \in 1 .. n
          PROVE  rows[i] + 1 \in 1 .. q[n] /\ RowTexts(items, n)[rows[i] + 1] = texts[i]
      <3>1. 1 \in 1 .. Len(items[i].tokens) /\ i - 1 \in 0 .. n
        BY <1>5
      <3>2. q[i - 1] + 1 \in 1 .. q[n] /\ RowTexts(items, n)[q[i - 1] + 1] = TextOf(items[i], 1)
        BY <1>6, <3>1, TokenPlace
      <3>3. q[i - 1] = i - 1
        BY <1>5, <1>6, <3>1, RowOfDecode
      <3>4. rows[i] = i - 1 /\ texts[i] = TextOf(items[i], 1)
        BY <1>4
      <3> QED
        BY <3>2, <3>3, <3>4
    <2>2. DOMAIN rows = 1 .. n /\ DOMAIN texts = 1 .. n
      BY <1>4
    <2> HIDE DEF rows, texts
    <2> QED
      BY <2>1, <2>2 DEF ReadsRows
  <1>8. AttendsToText(Metadata(items), TRUE, q[n], RowTexts(items, n), After(items))
    BY <1>5, <1>6, DecodeAttends
  <1> HIDE DEF texts, rows
  <1>9. ForwardExact(items, TRUE, rows, texts)
    BY <1>6, <1>7, <1>8, ForwardIsExact
  <1> QED
    BY <1>9 DEF texts, rows, items

\* The verification forward of one request.
LEMMA VerificationsExact ==
    ASSUME KVInv, NEW s \in Scheduled \ Prefills, NEW drafts \in Seq(Tokens),
           Len(drafts) < num_tokens[s]
    PROVE  LET item == DecodeItem(s, drafts)
           IN  ForwardExact(<<item>>, FALSE, [j \in DOMAIN item.tokens |-> j - 1],
                            [j \in DOMAIN item.tokens |-> TextOf(item, j)])
  <1> DEFINE item == DecodeItem(s, drafts)
             items == <<item>>
             texts == [j \in DOMAIN item.tokens |-> TextOf(item, j)]
             rows == [j \in DOMAIN item.tokens |-> j - 1]
             q == QueryStarts(items)
  <1>1. Launchable(item)
    BY DecodeLaunchable
  <1> HIDE DEF item
  <1>2. items = [i \in 1 .. 1 |-> items[i]] /\ items[1] = item
    OBVIOUS
  <1> HIDE DEF items
  <1>3. LaunchableBatch(items, 1)
    <2>1. \A i \in 1 .. 1 : i = 1
      OBVIOUS
    <2> QED
      BY <1>1, <1>2, <2>1 DEF LaunchableBatch
  <1>4. q[0] = 0
    <2> DEFINE parts == [k \in 1 .. 1 |-> items[k].tokens]
    <2>1. \A k \in 1 .. 1 : Len(parts[k]) = Len(items[k].tokens)
      OBVIOUS
    <2> HIDE DEF parts
    <2>2. Partition(q, 1, parts)
      BY <1>3, <2>1, BatchPartition
    <2> QED
      BY <2>2 DEF Partition
  <1>5. ReadsRows(rows, items, 1, texts)
    <2>1. item.tokens \in Seq(Tokens) /\ DOMAIN item.tokens = 1 .. Len(item.tokens)
      BY <1>1, ItemBounds
    <2>2. ASSUME NEW j \in 1 .. Len(item.tokens)
          PROVE  rows[j] + 1 \in 1 .. q[1] /\ RowTexts(items, 1)[rows[j] + 1] = texts[j]
      <3>1. 1 \in 1 .. 1 /\ 1 - 1 = 0 /\ j \in 1 .. Len(items[1].tokens) /\ j \in Int
        BY <1>2
      <3>2. /\ q[1 - 1] + j \in 1 .. q[1]
            /\ RowTexts(items, 1)[q[1 - 1] + j] = TextOf(items[1], j)
        BY <1>3, <3>1, TokenPlace
      <3>3. rows[j] + 1 = j /\ texts[j] = TextOf(item, j) /\ q[1 - 1] + j = j
        BY <1>4, <2>1, <3>1
      <3> HIDE DEF rows, texts, q
      <3> QED
        BY <1>2, <3>2, <3>3
    <2>3. DOMAIN rows = 1 .. Len(item.tokens) /\ DOMAIN texts = 1 .. Len(item.tokens)
      BY <2>1
    <2> HIDE DEF rows, texts
    <2> QED
      BY <2>2, <2>3 DEF ReadsRows
  <1>6. AttendsToText(Metadata(items), FALSE, q[1], RowTexts(items, 1), After(items))
    BY <1>3, PrefillAttends
  <1> HIDE DEF texts, rows
  <1>7. ForwardExact(items, FALSE, rows, texts)
    BY <1>3, <1>5, <1>6, ForwardIsExact
  <1> QED
    BY <1>7 DEF texts, rows, items, item

LEMMA BatchesExact == KVInv => BatchedForwardExact /\ VerificationExact
  <1> SUFFICES ASSUME KVInv PROVE BatchedForwardExact /\ VerificationExact
    OBVIOUS
  <1>1. BatchedForwardExact
    BY PrefillsExact, DecodesExact DEF BatchedForwardExact
  <1>2. VerificationExact
    <2> DEFINE Burst(s) == {d \in UNION {[1 .. n -> Tokens] : n \in 1 .. MaxDraft} :
                                Len(d) < num_tokens[s]}
    <2>1. ASSUME NEW s \in Scheduled \ Prefills, NEW drafts \in Burst(s)
          PROVE  LET item == DecodeItem(s, drafts)
                 IN  ForwardExact(<<item>>, FALSE, [j \in DOMAIN item.tokens |-> j - 1],
                                  [j \in DOMAIN item.tokens |-> TextOf(item, j)])
      <3>1. PICK n \in 1 .. MaxDraft : drafts \in [1 .. n -> Tokens]
        OBVIOUS
      <3>2. n \in Nat /\ drafts \in Seq(Tokens) /\ Len(drafts) < num_tokens[s]
        BY <3>1
      <3> QED
        BY <3>2, VerificationsExact
    <2> QED
      BY <2>1 DEF VerificationExact
  <1> QED
    BY <1>1, <1>2

\* Batched prefills and decodes, chunks at any offset behind cached prefixes, rows of
\* any lengths in any company and order: every row has the logits that a transformer
\* without cache, pages or batch has for the request's text, every written slot holds
\* the vectors of its text in every layer, and no other slot has changed.
THEOREM BatchesAreExact == Spec => []BatchedForwardExact
  <1>1. KVInv => BatchedForwardExact
    BY BatchesExact
  <1> QED
    BY <1>1, ContentsInvariance, PTL

\* Row j of a verification forward judges the j-th draft by the text before it,
\* whatever the drafts behind it are.
THEOREM VerificationIsExact == Spec => []VerificationExact
  <1>1. KVInv => VerificationExact
    BY BatchesExact
  <1> QED
    BY <1>1, ContentsInvariance, PTL

===============================================================================
