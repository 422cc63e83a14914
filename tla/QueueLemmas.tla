----------------------------- MODULE QueueLemmas -----------------------------
(***************************************************************************)
(* Lemmas about queues, sequences that hold no element twice: the          *)
(* scheduler's waiting and running, and the line of coroutines that wait   *)
(* for the server's lock.                                                  *)
(***************************************************************************)
EXTENDS Integers, Sequences, SequencesExt, FiniteSetTheorems, SequenceTheorems,
        WellFoundedInduction, TLAPS

LEMMA AppendToQueue ==
    ASSUME NEW S, NEW queue \in Seq(S), IsInjective(queue),
           NEW s \in S, s \notin Range(queue)
    PROVE  /\ Append(queue, s) \in Seq(S)
           /\ IsInjective(Append(queue, s))
           /\ Range(Append(queue, s)) = Range(queue) \union {s}
           /\ Len(Append(queue, s)) = Len(queue) + 1
  <1>1. /\ Append(queue, s) \in Seq(S)
        /\ Len(Append(queue, s)) = Len(queue) + 1
        /\ Len(queue) \in Nat
        /\ DOMAIN queue = 1 .. Len(queue)
        /\ DOMAIN Append(queue, s) = 1 .. Len(queue) + 1
        /\ Append(queue, s)[Len(queue) + 1] = s
        /\ \A i \in 1 .. Len(queue) : Append(queue, s)[i] = queue[i]
    OBVIOUS
  <1>2. \A i \in 1 .. Len(queue) : queue[i] # s
    BY <1>1 DEF Range
  <1>3. \A i, j \in 1 .. Len(queue) : queue[i] = queue[j] => i = j
    BY <1>1 DEF IsInjective
  <1>4. \A i, j \in 1 .. Len(queue) + 1 :
            Append(queue, s)[i] = Append(queue, s)[j] => i = j
    <2> SUFFICES ASSUME NEW i \in 1 .. Len(queue) + 1, NEW j \in 1 .. Len(queue) + 1,
                        Append(queue, s)[i] = Append(queue, s)[j]
                 PROVE  i = j
      OBVIOUS
    <2>1. i \in 1 .. Len(queue) \/ i = Len(queue) + 1
      BY <1>1
    <2>2. j \in 1 .. Len(queue) \/ j = Len(queue) + 1
      BY <1>1
    <2> QED
      BY <1>1, <1>2, <1>3, <2>1, <2>2
  <1>5. Range(Append(queue, s)) = Range(queue) \union {s}
    BY <1>1 DEF Range
  <1> QED
    BY <1>1, <1>4, <1>5 DEF IsInjective

LEMMA TailOfQueue ==
    ASSUME NEW S, NEW queue \in Seq(S), IsInjective(queue), queue # <<>>
    PROVE  /\ Head(queue) \in S /\ Head(queue) \in Range(queue)
           /\ Tail(queue) \in Seq(S)
           /\ IsInjective(Tail(queue))
           /\ Range(Tail(queue)) = Range(queue) \ {Head(queue)}
           /\ Len(Tail(queue)) = Len(queue) - 1
           /\ Head(queue) = queue[1]
           /\ \A i \in 1 .. Len(queue) - 1 : Tail(queue)[i] = queue[i + 1]
  <1>1. /\ Tail(queue) \in Seq(S)
        /\ Len(queue) \in Nat \ {0}
        /\ Len(Tail(queue)) = Len(queue) - 1
        /\ Head(queue) = queue[1]
        /\ DOMAIN queue = 1 .. Len(queue)
        /\ DOMAIN Tail(queue) = 1 .. Len(queue) - 1
        /\ \A i \in 1 .. Len(queue) - 1 : Tail(queue)[i] = queue[i + 1]
    BY HeadTailProperties, EmptySeq
  <1>2. \A i, j \in 1 .. Len(queue) : queue[i] = queue[j] => i = j
    BY <1>1 DEF IsInjective
  <1>3. Head(queue) \in S /\ Head(queue) \in Range(queue)
    BY <1>1 DEF Range
  <1>4. IsInjective(Tail(queue))
    BY <1>1, <1>2 DEF IsInjective
  <1>5. Range(Tail(queue)) = Range(queue) \ {Head(queue)}
    <2>1. ASSUME NEW x \in Range(Tail(queue))
          PROVE  x \in Range(queue) /\ x # Head(queue)
      <3>1. PICK i \in 1 .. Len(queue) - 1 : x = queue[i + 1]
        BY <1>1, <2>1 DEF Range
      <3>2. i + 1 \in 1 .. Len(queue) /\ i + 1 # 1 /\ 1 \in 1 .. Len(queue)
        BY <1>1
      <3> QED
        BY <1>1, <1>2, <3>1, <3>2 DEF Range
    <2>2. ASSUME NEW x \in Range(queue), x # Head(queue)
          PROVE  x \in Range(Tail(queue))
      <3>1. PICK i \in 1 .. Len(queue) : x = queue[i]
        BY <1>1 DEF Range
      <3>2. i - 1 \in 1 .. Len(queue) - 1 /\ i = (i - 1) + 1
        BY <1>1, <2>2, <3>1
      <3>3. x = Tail(queue)[i - 1]
        BY <1>1, <3>1, <3>2
      <3> QED
        BY <1>1, <3>2, <3>3 DEF Range
    <2> QED
      BY <2>1, <2>2
  <1> QED
    BY <1>1, <1>3, <1>4, <1>5

\* A set of positions has a first one.
LEMMA MinOfPositions ==
    ASSUME NEW n \in Nat, NEW S \in SUBSET (1 .. n), S # {}
    PROVE  Min(S) \in S
  <1>1. S \subseteq Nat
    OBVIOUS
  <1>2. PICK x \in S : \A y \in S : ~ (<<y, x>> \in OpToRel(<, Nat))
    BY <1>1, NatLessThanWellFounded, WFMin
  <1>3. ASSUME NEW y \in S
        PROVE  x <= y
    <2> SUFFICES ASSUME y < x
                 PROVE  FALSE
      BY <1>1
    <2>1. x \in Nat /\ y \in Nat
      BY <1>1
    <2>2. <<y, x>> \in OpToRel(<, Nat)
      BY <2>1 DEF OpToRel
    <2> QED
      BY <1>2, <2>2
  <1> QED
    BY <1>3 DEF Min

\* Taking an element out of a queue leaves the others, once each.
LEMMA RemoveFromQueue ==
    ASSUME NEW S, NEW queue \in Seq(S), IsInjective(queue), NEW s
    PROVE  /\ RemoveFirst(queue, s) \in Seq(S)
           /\ IsInjective(RemoveFirst(queue, s))
           /\ Range(RemoveFirst(queue, s)) = Range(queue) \ {s}
  <1>1. Len(queue) \in Nat /\ DOMAIN queue = 1 .. Len(queue)
    OBVIOUS
  <1>2. CASE ~ \E i \in 1 .. Len(queue) : queue[i] = s
    <2>1. RemoveFirst(queue, s) = queue
      BY <1>2 DEF RemoveFirst
    <2>2. s \notin Range(queue)
      BY <1>1, <1>2 DEF Range
    <2> QED
      BY <2>1, <2>2
  <1>3. CASE \E i \in 1 .. Len(queue) : queue[i] = s
    <2> DEFINE I == {i \in 1 .. Len(queue) : queue[i] = s}
               k == Min(I)
               w == SubSeq(queue, 1, k - 1) \o SubSeq(queue, k + 1, Len(queue))
    <2>1. RemoveFirst(queue, s) = w
      BY <1>3 DEF RemoveFirst, RemoveAt, SelectInSeq
    <2>2. k \in 1 .. Len(queue) /\ queue[k] = s
      <3>1. I \in SUBSET (1 .. Len(queue)) /\ I # {}
        BY <1>3
      <3>2. Min(I) \in I
        BY <1>1, <3>1, MinOfPositions
      <3> QED
        BY <3>2
    <2> HIDE DEF I, k
    <2>3. /\ w \in Seq(S)
          /\ Len(w) = Len(queue) - 1
          /\ \A i \in 1 .. Len(w) : w[i] = IF i < k THEN queue[i] ELSE queue[i + 1]
      <3> DEFINE a == SubSeq(queue, 1, k - 1)
                 b == SubSeq(queue, k + 1, Len(queue))
      <3>1. /\ a \in Seq(S) /\ Len(a) = k - 1
            /\ \A i \in 1 .. k - 1 : a[i] = queue[i]
        BY <1>1, <2>2, SubSeqProperties
      <3>2. /\ b \in Seq(S) /\ Len(b) = Len(queue) - k
            /\ \A i \in 1 .. Len(queue) - k : b[i] = queue[k + i]
        <4>1. /\ k + 1 \in Int /\ Len(queue) \in Int
              /\ \A i \in k + 1 .. Len(queue) : queue[i] \in S
          BY <1>1, <2>2
        <4>2. /\ b \in Seq(S)
              /\ Len(b) = IF k + 1 <= Len(queue) THEN Len(queue) - (k + 1) + 1 ELSE 0
              /\ \A i \in 1 .. Len(queue) - (k + 1) + 1 : b[i] = queue[k + 1 + i - 1]
          BY <4>1, SubSeqProperties
        <4> HIDE DEF b
        <4>3. /\ Len(queue) - (k + 1) + 1 = Len(queue) - k
              /\ (IF k + 1 <= Len(queue) THEN Len(queue) - (k + 1) + 1 ELSE 0) = Len(queue) - k
          <5>1. \A n \in Nat : \A j \in 1 .. n :
                    /\ n - (j + 1) + 1 = n - j
                    /\ (IF j + 1 <= n THEN n - (j + 1) + 1 ELSE 0) = n - j
            OBVIOUS
          <5> QED
            BY <1>1, <2>2, <5>1
        <4>4. \A i \in 1 .. Len(queue) - k : k + 1 + i - 1 = k + i
          BY <1>1, <2>2
        <4> QED
          BY <4>2, <4>3, <4>4
      <3>3. w = a \o b
        OBVIOUS
      <3> HIDE DEF a, b, w
      <3>4. /\ a \o b \in Seq(S) /\ Len(a \o b) = Len(a) + Len(b)
            /\ \A i \in 1 .. Len(a) + Len(b) :
                    (a \o b)[i] = IF i <= Len(a) THEN a[i] ELSE b[i - Len(a)]
        BY <3>1, <3>2, ConcatProperties
      <3>5. Len(w) = Len(queue) - 1
        BY <1>1, <2>2, <3>1, <3>2, <3>3, <3>4
      <3>6. ASSUME NEW i \in 1 .. Len(queue) - 1
            PROVE  w[i] = IF i < k THEN queue[i] ELSE queue[i + 1]
        <4>1. CASE i < k
          BY <1>1, <2>2, <3>1, <3>2, <3>3, <3>4, <4>1
        <4>2. CASE i >= k
          <5>1. w[i] = b[i - (k - 1)]
            BY <1>1, <2>2, <3>1, <3>2, <3>3, <3>4, <4>2
          <5>2. i - (k - 1) \in 1 .. Len(queue) - k /\ k + (i - (k - 1)) = i + 1
            BY <1>1, <2>2, <4>2
          <5> QED
            BY <2>2, <3>2, <4>2, <5>1, <5>2
        <4> QED
          BY <1>1, <2>2, <4>1, <4>2
      <3> QED
        BY <3>3, <3>4, <3>5, <3>6
    <2> HIDE DEF w
    <2>4. DOMAIN w = 1 .. Len(queue) - 1
      BY <2>3
    <2>5. \A i, j \in 1 .. Len(queue) : queue[i] = queue[j] => i = j
      BY <1>1 DEF IsInjective
    <2>6. IsInjective(w)
      <3> SUFFICES ASSUME NEW i \in 1 .. Len(queue) - 1, NEW j \in 1 .. Len(queue) - 1,
                          w[i] = w[j]
                   PROVE  i = j
        BY <2>4 DEF IsInjective
      <3> DEFINE f(x) == IF x < k THEN x ELSE x + 1
      <3>1. /\ f(i) \in 1 .. Len(queue) /\ f(j) \in 1 .. Len(queue)
            /\ w[i] = queue[f(i)] /\ w[j] = queue[f(j)]
        BY <1>1, <2>2, <2>3
      <3>2. f(i) = f(j)
        BY <2>5, <3>1
      <3> QED
        BY <1>1, <2>2, <3>2
    <2>7. Range(w) = Range(queue) \ {s}
      <3>1. ASSUME NEW x \in Range(w)
            PROVE  x \in Range(queue) /\ x # s
        <4>1. PICK i \in 1 .. Len(queue) - 1 : x = w[i]
          BY <2>4 DEF Range
        <4>2. PICK j \in 1 .. Len(queue) : j # k /\ x = queue[j]
          BY <1>1, <2>2, <2>3, <4>1
        <4> QED
          BY <1>1, <2>2, <2>5, <4>2 DEF Range
      <3>2. ASSUME NEW x \in Range(queue), x # s
            PROVE  x \in Range(w)
        <4>1. PICK j \in 1 .. Len(queue) : x = queue[j]
          BY <1>1 DEF Range
        <4>2. j # k
          BY <2>2, <3>2, <4>1
        <4>3. CASE j < k
          <5>1. j \in 1 .. Len(queue) - 1 /\ w[j] = queue[j]
            BY <1>1, <2>2, <2>3, <4>3
          <5> QED
            BY <2>4, <4>1, <5>1 DEF Range
        <4>4. CASE j > k
          <5>1. j - 1 \in 1 .. Len(queue) - 1 /\ w[j - 1] = queue[j]
            BY <1>1, <2>2, <2>3, <4>4
          <5> QED
            BY <2>4, <4>1, <5>1 DEF Range
        <4> QED
          BY <1>1, <2>2, <4>2, <4>3, <4>4
      <3> QED
        BY <3>1, <3>2
    <2> QED
      BY <2>1, <2>3, <2>6, <2>7
  <1> QED
    BY <1>2, <1>3

-----------------------------------------------------------------------------
(* Sums over a set, as the community modules define them.                  *)

LEMMA SmallestNat ==
    ASSUME NEW T \in SUBSET Nat, T # {}
    PROVE  \E n \in T : \A m \in T : n <= m
  <1>1. PICK n \in T : \A m \in T : ~ (<<m, n>> \in OpToRel(<, Nat))
    BY NatLessThanWellFounded, WFMin
  <1>2. ASSUME NEW m \in T
        PROVE  n <= m
    <2> SUFFICES ASSUME m < n
                 PROVE  FALSE
      OBVIOUS
    <2>1. <<m, n>> \in OpToRel(<, Nat)
      BY DEF OpToRel
    <2> QED
      BY <1>1, <2>1
  <1> QED
    BY <1>2

Chosen(T) == CHOOSE x \in T : TRUE

\* The value that the sum over T has, given the sums over smaller sets.
SumStep(g, f, T) == IF T = {} THEN 0 ELSE f[Chosen(T)] + g[T \ {Chosen(T)}]

SumsUp(g, f, S) == g = [T \in SUBSET S |-> SumStep(g, f, T)]

LEMMA SumIs ==
    ASSUME NEW f, NEW S
    PROVE  SumFunctionOnSet(f, S) = (CHOOSE g : SumsUp(g, f, S))[S]
  BY DEF SumFunctionOnSet, FoldFunctionOnSet, MapThenFoldSet, SumsUp, SumStep, Chosen


\* A property of all subsets of a finite set holds if it has no smallest exception.
LEMMA SmallestSubset ==
    ASSUME NEW S, IsFiniteSet(S), NEW B \in SUBSET (SUBSET S), B # {}
    PROVE  \E T \in B : \A U \in B : Cardinality(T) <= Cardinality(U)
  <1> DEFINE N == {Cardinality(T) : T \in B}
  <1>1. \A T \in B : IsFiniteSet(T) /\ Cardinality(T) \in Nat
    BY FS_Subset, FS_CardinalityType
  <1>2. N \in SUBSET Nat /\ N # {}
    BY <1>1
  <1>3. PICK n \in N : \A m \in N : n <= m
    <2> HIDE DEF N
    <2> QED
      BY <1>2, SmallestNat
  <1>4. PICK T \in B : n = Cardinality(T)
    BY <1>3
  <1>5. \A U \in B : n <= Cardinality(U)
    BY <1>3
  <1> QED
    BY <1>4, <1>5

LEMMA Smaller ==
    ASSUME NEW T, IsFiniteSet(T), NEW x \in T
    PROVE  /\ IsFiniteSet(T \ {x})
           /\ Cardinality(T) \in Nat \ {0}
           /\ Cardinality(T \ {x}) = Cardinality(T) - 1
  <1>1. /\ IsFiniteSet(T \ {x}) /\ Cardinality(T \ {x}) = Cardinality(T) - 1
    BY FS_RemoveElement
  <1>2. Cardinality(T) \in Nat /\ Cardinality(T \ {x}) \in Nat
    BY <1>1, FS_CardinalityType
  <1> QED
    BY <1>1, <1>2

LEMMA ChosenIn == ASSUME NEW T, T # {} PROVE Chosen(T) \in T
  BY DEF Chosen

\* The numbers up to which the sums over subsets can be defined.
SumsUpTo(g, f, S, n) ==
    /\ g \in [SUBSET S -> Int]
    /\ \A T \in SUBSET S : Cardinality(T) <= n => g[T] = SumStep(g, f, T)

LEMMA SumsExist ==
    ASSUME NEW S, IsFiniteSet(S), NEW f, \A x \in S : f[x] \in Int
    PROVE  \E g \in [SUBSET S -> Int] : SumsUp(g, f, S)
  <1>1. \A T \in SUBSET S : IsFiniteSet(T) /\ Cardinality(T) \in Nat /\ Cardinality(T) <= Cardinality(S)
    BY FS_Subset, FS_CardinalityType
  <1>2. \E g : SumsUpTo(g, f, S, 0)
    <2> DEFINE g == [T \in SUBSET S |-> 0]
    <2>1. ASSUME NEW T \in SUBSET S, Cardinality(T) <= 0
          PROVE  g[T] = SumStep(g, f, T)
      <3>1. T = {}
        BY <1>1, <2>1, FS_EmptySet
      <3> QED
        BY <3>1 DEF SumStep
    <2>2. g \in [SUBSET S -> Int]
      OBVIOUS
    <2> HIDE DEF g
    <2> QED
      BY <2>1, <2>2 DEF SumsUpTo
  <1>3. ASSUME NEW n \in Nat, NEW h, SumsUpTo(h, f, S, n)
        PROVE  \E g : SumsUpTo(g, f, S, n + 1)
    <2> DEFINE g == [T \in SUBSET S |-> IF Cardinality(T) <= n THEN h[T] ELSE SumStep(h, f, T)]
    <2>1. h \in [SUBSET S -> Int] /\ \A T \in SUBSET S : Cardinality(T) <= n => h[T] = SumStep(h, f, T)
      BY <1>3 DEF SumsUpTo
    <2>2. ASSUME NEW T \in SUBSET S
          PROVE  SumStep(h, f, T) \in Int
      <3>1. CASE T = {}
        BY <3>1 DEF SumStep
      <3>2. CASE T # {}
        <4>1. Chosen(T) \in S /\ T \ {Chosen(T)} \in SUBSET S
          BY <3>2, ChosenIn
        <4>2. f[Chosen(T)] \in Int /\ h[T \ {Chosen(T)}] \in Int
          BY <2>1, <4>1
        <4> QED
          BY <3>2, <4>2 DEF SumStep
      <3> QED
        BY <3>1, <3>2
    <2>3. g \in [SUBSET S -> Int]
      BY <2>1, <2>2
    <2>4. \A T \in SUBSET S : g[T] = SumStep(h, f, T) \/ ~ (Cardinality(T) <= n + 1)
      BY <2>1
    <2>5. ASSUME NEW T \in SUBSET S, Cardinality(T) <= n + 1
          PROVE  SumStep(g, f, T) = SumStep(h, f, T)
      <3>1. CASE T = {}
        BY <3>1 DEF SumStep
      <3>2. CASE T # {}
        <4>1. Chosen(T) \in T /\ T \ {Chosen(T)} \in SUBSET S
          BY <3>2, ChosenIn
        <4>2. Cardinality(T \ {Chosen(T)}) <= n
          BY <1>1, <2>5, <4>1, Smaller
        <4>3. g[T \ {Chosen(T)}] = h[T \ {Chosen(T)}]
          BY <4>1, <4>2
        <4> HIDE DEF g
        <4> QED
          BY <3>2, <4>3 DEF SumStep
      <3> QED
        BY <3>1, <3>2
    <2> HIDE DEF g
    <2>6. SumsUpTo(g, f, S, n + 1)
      BY <2>3, <2>4, <2>5 DEF SumsUpTo
    <2> QED
      BY <2>6
  <1>4. \A n \in Nat : \E g : SumsUpTo(g, f, S, n)
    <2> DEFINE B == {n \in Nat : ~ \E g : SumsUpTo(g, f, S, n)}
    <2>1. SUFFICES ASSUME B # {} PROVE FALSE
      OBVIOUS
    <2>2. B \in SUBSET Nat
      OBVIOUS
    <2>3. PICK n \in B : \A m \in B : n <= m
      <3> HIDE DEF B
      <3> QED
        BY <2>1, <2>2, SmallestNat
    <2>4. n # 0 /\ n \in Nat
      BY <1>2
    <2>5. n - 1 \in Nat /\ n - 1 \notin B
      BY <2>3, <2>4
    <2>6. PICK h : SumsUpTo(h, f, S, n - 1)
      BY <2>5
    <2>7. \E g : SumsUpTo(g, f, S, (n - 1) + 1)
      BY <1>3, <2>5, <2>6
    <2>8. (n - 1) + 1 = n
      BY <2>4
    <2> QED
      BY <2>3, <2>7, <2>8
  <1>5. Cardinality(S) \in Nat
    BY FS_CardinalityType
  <1>6. PICK g : SumsUpTo(g, f, S, Cardinality(S))
    BY <1>4, <1>5
  <1>7. g \in [SUBSET S -> Int] /\ \A T \in SUBSET S : g[T] = SumStep(g, f, T)
    BY <1>1, <1>6 DEF SumsUpTo
  <1>8. g = [T \in SUBSET S |-> SumStep(g, f, T)]
    BY <1>7
  <1> QED
    BY <1>7, <1>8 DEF SumsUp


\* Sums over the same values are equal, whatever larger set they were defined for.
LEMMA SumsAgree ==
    ASSUME NEW S, NEW T, NEW f, NEW e, NEW g, NEW h, SumsUp(g, f, S), SumsUp(h, e, T),
           NEW U, IsFiniteSet(U), U \subseteq S, U \subseteq T, \A x \in U : f[x] = e[x]
    PROVE  g[U] = h[U]
  <1> DEFINE B == {V \in SUBSET U : g[V] # h[V]}
  <1>1. SUFFICES ASSUME B # {} PROVE FALSE
    OBVIOUS
  <1>2. PICK V \in B : \A W \in B : Cardinality(V) <= Cardinality(W)
    <2>1. B \in SUBSET (SUBSET U)
      OBVIOUS
    <2> HIDE DEF B
    <2> QED
      BY <1>1, <2>1, SmallestSubset
  <1>3. V \subseteq U /\ V \in SUBSET S /\ V \in SUBSET T /\ IsFiniteSet(V)
    BY <1>2, FS_Subset
  <1>4. g[V] = SumStep(g, f, V) /\ h[V] = SumStep(h, e, V)
    BY <1>3 DEF SumsUp
  <1>5. CASE V = {}
    BY <1>2, <1>4, <1>5 DEF SumStep
  <1>6. CASE V # {}
    <2> DEFINE x == Chosen(V)
               W == V \ {x}
    <2>1. x \in V
      BY <1>6, ChosenIn
    <2>2. Cardinality(W) = Cardinality(V) - 1 /\ Cardinality(V) \in Nat
      BY <1>3, <2>1, Smaller
    <2>3. W \notin B
      <3> SUFFICES ASSUME W \in B
                   PROVE  FALSE
        OBVIOUS
      <3>1. Cardinality(V) <= Cardinality(W)
        BY <1>2
      <3> QED
        BY <2>2, <3>1
    <2>4. g[W] = h[W]
      BY <1>3, <2>3
    <2>5. f[x] = e[x]
      BY <1>3, <2>1
    <2>6. g[V] = f[x] + g[W] /\ h[V] = e[x] + h[W]
      BY <1>4, <1>6 DEF SumStep
    <2>7. g[V] = h[V]
      BY <2>4, <2>5, <2>6
    <2> QED
      BY <1>2, <2>7
  <1> QED
    BY <1>5, <1>6

TakesOut(g, f, S) == \A T \in SUBSET S : \A x \in T : g[T] = f[x] + g[T \ {x}]

IntegersOn(f, S) == \A x \in S : f[x] \in Int

\* Any element can be the one that is taken out of the sum.
LEMMA TakeOut ==
    ASSUME NEW S, IsFiniteSet(S), NEW f, IntegersOn(f, S),
           NEW g, g \in [SUBSET S -> Int], SumsUp(g, f, S)
    PROVE  TakesOut(g, f, S)
  <1>0. \A x \in S : f[x] \in Int
    BY DEF IntegersOn
  <1> DEFINE Splits(T) == \A x \in T : g[T] = f[x] + g[T \ {x}]
             B == {T \in SUBSET S : ~ Splits(T)}
  <1>1. SUFFICES ASSUME B # {} PROVE FALSE
    BY DEF TakesOut
  <1>2. PICK T \in B : \A U \in B : Cardinality(T) <= Cardinality(U)
    <2>1. B \in SUBSET (SUBSET S)
      OBVIOUS
    <2> HIDE DEF B
    <2> QED
      BY <1>1, <2>1, SmallestSubset
  <1>3. PICK x \in T : g[T] # f[x] + g[T \ {x}]
    BY <1>2
  <1>4. T \in SUBSET S /\ IsFiniteSet(T)
    BY <1>2, FS_Subset
  <1> DEFINE c == Chosen(T)
             Tc == T \ {c}
             Tx == T \ {x}
             Tcx == Tc \ {x}
  <1>5. c \in T
    BY <1>3, ChosenIn
  <1>6. g[T] = f[c] + g[Tc]
    BY <1>3, <1>4 DEF SumsUp, SumStep
  <1>7. x # c
    BY <1>3, <1>6
  <1>8. /\ Cardinality(Tc) = Cardinality(T) - 1 /\ Cardinality(Tx) = Cardinality(T) - 1
        /\ Cardinality(T) \in Nat
    BY <1>3, <1>4, <1>5, Smaller
  <1>9. Splits(Tc) /\ Splits(Tx)
    <2>1. Tc \in SUBSET S /\ Tx \in SUBSET S
      BY <1>4
    <2>2. ~ (Cardinality(T) <= Cardinality(Tc)) /\ ~ (Cardinality(T) <= Cardinality(Tx))
      BY <1>8
    <2>3. Tc \notin B /\ Tx \notin B
      <3> HIDE DEF B, Tc, Tx
      <3> QED
        BY <1>2, <2>2
    <2> HIDE DEF Tc, Tx, Splits
    <2> QED
      BY <2>1, <2>3
  <1>10. g[Tc] = f[x] + g[Tcx]
    <2>1. x \in Tc
      BY <1>3, <1>7
    <2> QED
      BY <1>9, <2>1
  <1>11. g[Tx] = f[c] + g[Tcx]
    <2>1. c \in Tx /\ Tx \ {c} = Tcx
      BY <1>5, <1>7
    <2> QED
      BY <1>9, <2>1
  <1>12. f[x] \in Int /\ f[c] \in Int /\ g[Tcx] \in Int
    BY <1>0, <1>3, <1>4, <1>5
  <1>13. g[T] = f[x] + g[Tx]
    <2> HIDE DEF Tcx, Tc, Tx, c
    <2> QED
      BY <1>6, <1>10, <1>11, <1>12
  <1> QED
    BY <1>3, <1>13

LEMMA SumWitness ==
    ASSUME NEW S, IsFiniteSet(S), NEW f, \A x \in S : f[x] \in Int
    PROVE  \E g \in [SUBSET S -> Int] : SumsUp(g, f, S) /\ SumFunctionOnSet(f, S) = g[S]
  <1> DEFINE w == CHOOSE g : SumsUp(g, f, S)
  <1>1. PICK g \in [SUBSET S -> Int] : SumsUp(g, f, S)
    BY SumsExist
  <1>2. SumsUp(w, f, S)
    BY <1>1
  <1>3. SumFunctionOnSet(f, S) = w[S]
    BY SumIs
  <1> HIDE DEF w
  <1>4. w[S] = g[S]
    BY <1>1, <1>2, SumsAgree
  <1> QED
    BY <1>1, <1>3, <1>4

LEMMA SumOfNone == ASSUME NEW f PROVE SumFunctionOnSet(f, {}) = 0
  <1>1. IsFiniteSet({}) /\ \A x \in {} : f[x] \in Int
    BY FS_EmptySet
  <1>2. PICK g \in [SUBSET {} -> Int] : SumsUp(g, f, {}) /\ SumFunctionOnSet(f, {}) = g[{}]
    BY <1>1, SumWitness
  <1> QED
    BY <1>2 DEF SumsUp, SumStep

LEMMA SumOfSame ==
    ASSUME NEW S, IsFiniteSet(S), NEW f, \A x \in S : f[x] \in Int,
           NEW e, \A x \in S : f[x] = e[x]
    PROVE  SumFunctionOnSet(f, S) = SumFunctionOnSet(e, S)
  <1>1. PICK g \in [SUBSET S -> Int] : SumsUp(g, f, S) /\ SumFunctionOnSet(f, S) = g[S]
    BY SumWitness
  <1>2. \A x \in S : e[x] \in Int
    OBVIOUS
  <1>3. PICK h \in [SUBSET S -> Int] : SumsUp(h, e, S) /\ SumFunctionOnSet(e, S) = h[S]
    BY <1>2, SumWitness
  <1>4. g[S] = h[S]
    BY <1>1, <1>3, SumsAgree
  <1> QED
    BY <1>1, <1>3, <1>4

LEMMA SumWithOne ==
    ASSUME NEW S, IsFiniteSet(S), NEW f, NEW a, a \notin S, \A x \in S \union {a} : f[x] \in Int
    PROVE  /\ SumFunctionOnSet(f, S) \in Int
           /\ SumFunctionOnSet(f, S \union {a}) = f[a] + SumFunctionOnSet(f, S)
  <1> DEFINE W == S \union {a}
  <1>1. IsFiniteSet(W)
    BY FS_AddElement
  <1>2. PICK g \in [SUBSET W -> Int] : SumsUp(g, f, W) /\ SumFunctionOnSet(f, W) = g[W]
    <2>1. \A x \in W : f[x] \in Int
      OBVIOUS
    <2> HIDE DEF W
    <2> QED
      BY <1>1, <2>1, SumWitness
  <1>3. PICK h \in [SUBSET S -> Int] : SumsUp(h, f, S) /\ SumFunctionOnSet(f, S) = h[S]
    BY SumWitness
  <1>4. h[S] = g[S]
    BY <1>2, <1>3, SumsAgree
  <1>5. g[W] = f[a] + g[W \ {a}]
    <2>1. W \in SUBSET W /\ a \in W /\ IntegersOn(f, W) /\ g \in [SUBSET W -> Int]
      BY DEF IntegersOn
    <2> HIDE DEF W
    <2>2. TakesOut(g, f, W)
      BY <1>1, <1>2, <2>1, TakeOut
    <2> QED
      BY <2>1, <2>2 DEF TakesOut
  <1>6. W \ {a} = S
    OBVIOUS
  <1>7. h[S] \in Int
    OBVIOUS
  <1> QED
    BY <1>2, <1>3, <1>4, <1>5, <1>6, <1>7

=============================================================================
