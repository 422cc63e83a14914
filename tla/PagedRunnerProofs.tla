-------------------------- MODULE PagedRunnerProofs --------------------------
(***************************************************************************)
(* Theorems about PagedRunner, for every pool, block size, prompt set and  *)
(* draft length, in two parts.                                             *)
(*                                                                         *)
(* 1. Who owns the pages.  Type correctness is not inductive by itself:    *)
(* recording and marking are functions on pages only where every position  *)
(* they touch has an entry in the block table, which was reserved one or   *)
(* more steps earlier, and release is only if the reference counts are the *)
(* numbers of holders.  Inv strengthens it with the ownership of pages and *)
(* with Accounting, what each stage of a request's step knows of its       *)
(* counters and reservations.                                              *)
(*                                                                         *)
(* 2. What the pages hold.  That no request reads another text's K/V is    *)
(* not inductive either.  Whether a page found in the prefix index holds   *)
(* the K/V of a prompt depends on its hash, its hash on the tokens         *)
(* recorded in it, those on the text of the request that wrote it, and     *)
(* whether a page may be written at all on who else holds it and how far   *)
(* it is computed.  KVInv says all of this of every request's block table, *)
(* and of a forward pass in flight.  From KVInv follows what a request can *)
(* rely on: it reads its own K/V only, a forward pass finds what it        *)
(* attends to, the internal errors cannot be raised, valid slots are never *)
(* rewritten, and all of it together implements a cache that each request  *)
(* has to itself.                                                          *)
(***************************************************************************)
EXTENDS PagedRunner, FiniteSetTheorems, SequenceTheorems, WellFoundedInduction, TLAPS

-----------------------------------------------------------------------------
(* Lemmas about the operators and handlers of BlockManager: what a lookup   *)
(* in the prefix index returns, and that allocation and release keep the    *)
(* ownership of pages consistent.                                           *)

\* The least and the greatest of two integers.
LEMMA MinOfTwo ==
    ASSUME NEW i \in Int, NEW j \in Int
    PROVE  Min({i, j}) = IF i <= j THEN i ELSE j
  <1> DEFINE m == IF i <= j THEN i ELSE j
  <1>1. m \in {i, j} /\ \A y \in {i, j} : m =< y
    OBVIOUS
  <1>2. \A x \in {i, j} : (\A y \in {i, j} : x =< y) => x = m
    OBVIOUS
  <1> QED
    BY <1>1, <1>2 DEF Min

LEMMA MaxOfTwo ==
    ASSUME NEW i \in Int, NEW j \in Int
    PROVE  Max({i, j}) = IF i <= j THEN j ELSE i
  <1> DEFINE m == IF i <= j THEN j ELSE i
  <1>1. m \in {i, j} /\ \A y \in {i, j} : m >= y
    OBVIOUS
  <1>2. \A x \in {i, j} : (\A y \in {i, j} : x >= y) => x = m
    OBVIOUS
  <1> QED
    BY <1>1, <1>2 DEF Max

\* A bounded non-empty set of naturals has its greatest element.
LEMMA MaxOfBounded ==
    ASSUME NEW n \in Nat, NEW S \in SUBSET (0 .. n), S # {}
    PROVE  Max(S) \in S
  <1> DEFINE T == {n - x : x \in S}
  <1>1. T \subseteq Nat /\ T # {}
    <2>1. S \subseteq 0 .. n
      OBVIOUS
    <2>2. \A x \in S : n - x \in Nat
      BY <2>1
    <2> QED
      BY <2>2
  <1>2. PICK t \in T : \A y \in T : ~ (<<y, t>> \in OpToRel(<, Nat))
    <2> HIDE DEF T
    <2> QED BY <1>1, NatLessThanWellFounded, WFMin
  <1>3. PICK x \in S : t = n - x
    BY <1>2
  <1>4. \A y \in S : x >= y
    <2> SUFFICES ASSUME NEW y \in S, y > x
                 PROVE  FALSE
      OBVIOUS
    <2>1. n - y \in T /\ n - y < t /\ n - y \in Nat /\ t \in Nat
      BY <1>3
    <2>2. <<n - y, t>> \in OpToRel(<, Nat)
      BY <2>1 DEF OpToRel
    <2> QED
      BY <1>2, <2>1, <2>2
  <1> QED
    BY <1>3, <1>4 DEF Max

-----------------------------------------------------------------------------
(* The prefix index.                                                       *)

\* Rounding up to whole blocks, and the limit on reuse, are counts.
LEMMA BlockCounts ==
    ASSUME BlockManagerTypeOK, NEW s \in Seqs
    PROVE  /\ \A n \in Nat : required_blocks(n) \in Nat
           /\ MaxReusable(s) \in Nat
           /\ MaxReusable(s) * BlockSize <= prompt_len[s]
  <1>1. BlockSize \in Nat /\ BlockSize > 0 /\ prompt_len[s] \in Nat
    BY BlockSizeAssumption DEF BlockManagerTypeOK
  <1>2. \A n \in Nat : n \div BlockSize \in Nat /\ (n \div BlockSize) * BlockSize <= n
    BY <1>1, SMTT(30)
  <1>3. \A n \in Nat : required_blocks(n) \in Nat
    BY <1>1, <1>2 DEF required_blocks
  <1> DEFINE q == prompt_len[s] \div BlockSize
             r == Max({0, required_blocks(prompt_len[s]) - 1})
  <1>4. r \in Nat
    BY <1>1, <1>3, MaxOfTwo
  <1>5. q \in Nat /\ q * BlockSize <= prompt_len[s]
    BY <1>1, <1>2
  <1>6. MaxReusable(s) = IF q <= r THEN q ELSE r
    <2>1. MaxReusable(s) = Min({q, r})
      BY DEF MaxReusable
    <2> HIDE DEF q, r
    <2> QED
      BY <1>4, <1>5, <2>1, MinOfTwo
  <1>7. r < q => r * BlockSize <= q * BlockSize
    BY <1>1, <1>4, <1>5, SMTT(30)
  <1> HIDE DEF q, r
  <1>8. q * BlockSize \in Int /\ r * BlockSize \in Int
    BY <1>1, <1>4, <1>5
  <1>9. CASE q <= r
    BY <1>3, <1>5, <1>6, <1>9
  <1>10. CASE ~ (q <= r)
    <2>1. MaxReusable(s) = r
      BY <1>6, <1>10
    <2>2. r * BlockSize <= prompt_len[s]
      BY <1>1, <1>4, <1>5, <1>7, <1>8, <1>10
    <2> QED
      BY <1>3, <1>4, <2>1, <2>2
  <1> QED
    BY <1>9, <1>10

\* What the lookup of a prompt returns: reusable pages, all different.
LEMMA ReusableProperties ==
    ASSUME BlockManagerTypeOK, NEW s \in Seqs
    PROVE  /\ ReusableBlocks(s) \in 0 .. MaxReusable(s)
           /\ EnablePrefixCaching => \A i \in 1 .. ReusableBlocks(s) : IsReusable(s, i)
           /\ reusable_prefix_block_ids(s) \in Seq(Pages)
           /\ Len(reusable_prefix_block_ids(s)) = ReusableBlocks(s)
           /\ IsInjective(reusable_prefix_block_ids(s))
  <1> DEFINE k == ReusableBlocks(s)
             found == reusable_prefix_block_ids(s)
  <1>1. MaxReusable(s) \in Nat /\ MaxReusable(s) * BlockSize <= prompt_len[s]
    BY BlockCounts
  <1>2. k \in 0 .. MaxReusable(s) /\ (EnablePrefixCaching => \A i \in 1 .. k : IsReusable(s, i))
    <2> DEFINE S == {j \in 0 .. MaxReusable(s) : \A i \in 1 .. j : IsReusable(s, i)}
    <2>1. S \in SUBSET (0 .. MaxReusable(s)) /\ 0 \in S
      BY <1>1
    <2>2. Max(S) \in S
      <3> HIDE DEF S
      <3> QED BY <1>1, <2>1, MaxOfBounded
    <2>3. CASE EnablePrefixCaching
      BY <2>2, <2>3 DEF ReusableBlocks
    <2>4. CASE ~ EnablePrefixCaching
      BY <1>1, <2>4 DEF ReusableBlocks
    <2> QED
      BY <2>3, <2>4
  <1>3. k \in Nat
    BY <1>1, <1>2
  <1>4. k > 0 => EnablePrefixCaching
    BY DEF ReusableBlocks
  <1>5. \A i \in 1 .. k : /\ found[i] = hash_to_block_id[PrefixHash(Prompt(s), i)]
                          /\ found[i] \in Pages
                          /\ block_hash[found[i]] = PrefixHash(Prompt(s), i)
    BY <1>2, <1>3, <1>4 DEF reusable_prefix_block_ids, IsReusable, BlockManagerTypeOK
  <1>6. found \in Seq(Pages) /\ Len(found) = k
    <2>1. found = [i \in 1 .. k |-> hash_to_block_id[PrefixHash(Prompt(s), i)]]
      BY DEF reusable_prefix_block_ids
    <2>2. found \in [1 .. k -> Pages]
      BY <1>5, <2>1
    <2> QED
      BY <1>3, <2>2
  <1>7. \A i \in 1 .. k : Len(PrefixHash(Prompt(s), i)) = i * BlockSize
    <2> SUFFICES ASSUME NEW i \in 1 .. k
                 PROVE  Len(PrefixHash(Prompt(s), i)) = i * BlockSize
      OBVIOUS
    <2>1. /\ BlockSize \in Nat /\ BlockSize > 0 /\ prompt_len[s] \in Nat
          /\ token_ids[s] \in Seq(Tokens) /\ prompt_len[s] <= Len(token_ids[s])
      BY BlockSizeAssumption DEF BlockManagerTypeOK
    <2>2. i \in Nat /\ i <= MaxReusable(s)
      BY <1>1, <1>2
    <2>3. i * BlockSize <= MaxReusable(s) * BlockSize /\ i * BlockSize >= 1
      BY <1>1, <2>1, <2>2, SMTT(30)
    <2>4. i * BlockSize \in Nat /\ i * BlockSize <= prompt_len[s]
      BY <1>1, <2>1, <2>2, <2>3
    <2>5. Prompt(s) \in Seq(Tokens) /\ Len(Prompt(s)) = prompt_len[s]
      BY <2>1, <2>3, <2>4, SubSeqProperties DEF Prompt
    <2>6. \A j \in 1 .. i * BlockSize : Prompt(s)[j] \in Tokens
      BY <2>4, <2>5
    <2> QED
      BY <2>3, <2>4, <2>6, SubSeqProperties DEF PrefixHash
  <1>8. ASSUME NEW i \in 1 .. k, NEW j \in 1 .. k, found[i] = found[j]
        PROVE  i = j
    <2>1. i * BlockSize = j * BlockSize
      BY <1>5, <1>7, <1>8
    <2>2. BlockSize \in Nat /\ BlockSize > 0 /\ i \in Nat /\ j \in Nat
      BY BlockSizeAssumption, <1>3
    <2>3. i < j => i * BlockSize < j * BlockSize
      BY <2>2, SMTT(30)
    <2>4. j < i => j * BlockSize < i * BlockSize
      BY <2>2, SMTT(30)
    <2> QED
      BY <2>1, <2>2, <2>3, <2>4
  <1>9. IsInjective(found)
    BY <1>6, <1>8 DEF IsInjective
  <1> QED
    BY <1>2, <1>6, <1>9

\* n fresh pages, in some order, are a sequence of different pages of the pool.
LEMMA FreshProperties ==
    ASSUME NEW n \in Int, NEW S \in SUBSET Pages, NEW fresh \in FreshChoices(n, S)
    PROVE  /\ fresh \in Seq(Pages)
           /\ Range(fresh) \subseteq S
           /\ IsInjective(fresh)
           /\ Len(fresh) = IF n >= 0 THEN n ELSE 0
  <1>1. fresh \in [1 .. n -> S] /\ IsInjective(fresh)
    BY DEF FreshChoices, Injection
  <1>2. Range(fresh) \subseteq S
    BY <1>1 DEF Range
  <1>3. CASE n >= 0
    BY <1>1, <1>2, <1>3
  <1>4. CASE n < 0
    <2>1. fresh \in [1 .. 0 -> Pages]
      BY <1>1, <1>4
    <2> QED
      BY <1>1, <1>2, <1>4, <2>1
  <1> QED
    BY <1>3, <1>4

-----------------------------------------------------------------------------
(* Ownership.                                                              *)

\* Holders are finitely many, and a page is free iff it has none.
LEMMA HolderCounts ==
    ASSUME PoolConsistent, NEW p \in Pages
    PROVE  /\ IsFiniteSet(Holders(p))
           /\ Cardinality(Holders(p)) \in Nat
           /\ ref_count[p] = 0 <=> Holders(p) = {}
           /\ ref_count[p] = 0 <=> p \in free_block_ids
  <1>1. Holders(p) \in SUBSET Seqs
    BY DEF Holders
  <1>2. IsFiniteSet(Holders(p))
    BY <1>1, SeqsAssumption, FS_Subset
  <1> QED
    BY <1>2, FS_CardinalityType, FS_EmptySet DEF PoolConsistent

\* The holders of a page after one request's table has changed.
LEMMA HoldersAfter ==
    ASSUME BlockManagerTypeOK, NEW s \in Seqs, NEW table,
           block_table' = [block_table EXCEPT ![s] = table]
    PROVE  \A p \in Pages : Holders(p)' = IF p \in Range(table) THEN Holders(p) \union {s}
                                                             ELSE Holders(p) \ {s}
  <1> SUFFICES ASSUME NEW p \in Pages
               PROVE  Holders(p)' = IF p \in Range(table) THEN Holders(p) \union {s}
                                                       ELSE Holders(p) \ {s}
    OBVIOUS
  <1>1. \A r \in Seqs : block_table'[r] = IF r = s THEN table ELSE block_table[r]
    BY DEF BlockManagerTypeOK
  <1> QED
    BY <1>1 DEF Holders

\* deallocate drops exactly the references of the request's table.
LEMMA DeallocateKeepsPool ==
    ASSUME BlockManagerTypeOK, PoolConsistent, NEW s \in Seqs, deallocate(s)
    PROVE  PoolConsistent'
  <1> DEFINE P == Range(block_table[s])
  <1>1. block_table[s] \in Seq(Pages) /\ P \subseteq Pages
    BY DEF BlockManagerTypeOK, Range
  <1>2. block_table' = [block_table EXCEPT ![s] = <<>>]
    BY DEF deallocate
  <1>3. \A p \in Pages : Holders(p)' = Holders(p) \ {s}
    <2>1. Range(<<>>) = {}
      BY DEF Range
    <2> QED
      BY <1>2, <2>1, HoldersAfter
  <1>4. \A r \in Seqs : IsInjective(block_table'[r])
    <2> SUFFICES ASSUME NEW r \in Seqs
                 PROVE  IsInjective(block_table'[r])
      OBVIOUS
    <2>1. block_table'[r] = IF r = s THEN <<>> ELSE block_table[r]
      BY <1>2 DEF BlockManagerTypeOK
    <2> QED
      BY <2>1 DEF PoolConsistent, IsInjective
  <1>5. \A p \in Pages : p \in P <=> s \in Holders(p)
    BY DEF Holders
  <1>6. \A p \in Pages : ref_count'[p] = Cardinality(Holders(p)')
    <2> SUFFICES ASSUME NEW p \in Pages
                 PROVE  ref_count'[p] = Cardinality(Holders(p) \ {s})
      BY <1>3
    <2>1. ref_count'[p] = IF p \in P THEN ref_count[p] - 1 ELSE ref_count[p]
      BY DEF deallocate
    <2>2. ref_count[p] = Cardinality(Holders(p)) /\ IsFiniteSet(Holders(p))
      BY HolderCounts DEF PoolConsistent
    <2>3. Cardinality(Holders(p) \ {s}) = IF s \in Holders(p) THEN Cardinality(Holders(p)) - 1
                                                          ELSE Cardinality(Holders(p))
      BY <2>2, FS_RemoveElement
    <2> QED
      BY <1>5, <2>1, <2>2, <2>3
  <1>7. free_block_ids' = {p \in Pages : ref_count'[p] = 0}
    <2>1. \A p \in P : ref_count[p] \in Nat /\ ref_count[p] # 0
      <3> SUFFICES ASSUME NEW p \in P
                   PROVE  ref_count[p] \in Nat /\ ref_count[p] # 0
        OBVIOUS
      <3> QED
        BY <1>1, <1>5, HolderCounts DEF BlockManagerTypeOK
    <2>2. \A p \in Pages : ref_count'[p] = IF p \in P THEN ref_count[p] - 1 ELSE ref_count[p]
      BY DEF deallocate
    <2>3. free_block_ids' = free_block_ids \union {p \in P : ref_count[p] = 1}
      BY DEF deallocate, LastReferences
    <2>4. free_block_ids = {p \in Pages : ref_count[p] = 0}
      BY DEF PoolConsistent
    <2>5. \A p \in Pages : ref_count'[p] = 0 <=> (ref_count[p] = 0 \/ (p \in P /\ ref_count[p] = 1))
      BY <2>1, <2>2
    <2> HIDE DEF P
    <2> QED
      BY <1>1, <2>3, <2>4, <2>5
  <1>8. used_block_ids' = Pages \ free_block_ids'
    BY <1>1 DEF deallocate, LastReferences, PoolConsistent
  <1> QED
    BY <1>4, <1>6, <1>7, <1>8 DEF PoolConsistent

\* A request that takes fresh pages `F`, and pages `C` it did not hold, behind
\* those it had already: the common part of allocate and may_append.
LEMMA TakingKeepsPool ==
    ASSUME BlockManagerTypeOK, PoolConsistent, NEW s \in Seqs,
           NEW table \in Seq(Pages), IsInjective(table),
           NEW F \in SUBSET free_block_ids, NEW C \in SUBSET Pages,
           Range(table) = Range(block_table[s]) \union C \union F,
           C \intersect F = {}, C \intersect Range(block_table[s]) = {},
           block_table' = [block_table EXCEPT ![s] = table],
           free_block_ids' = free_block_ids \ (C \union F),
           used_block_ids' = used_block_ids \union (C \union F),
           ref_count' = [p \in Pages |-> IF p \in F THEN 1
                                         ELSE IF p \in C THEN ref_count[p] + 1
                                         ELSE ref_count[p]]
    PROVE  PoolConsistent'
  <1>1. \A p \in Pages : Holders(p)' = IF p \in Range(table) THEN Holders(p) \union {s}
                                                          ELSE Holders(p) \ {s}
    BY HoldersAfter
  <1>2. \A r \in Seqs : IsInjective(block_table'[r])
    <2> SUFFICES ASSUME NEW r \in Seqs
                 PROVE  IsInjective(block_table'[r])
      OBVIOUS
    <2>1. block_table'[r] = IF r = s THEN table ELSE block_table[r]
      BY DEF BlockManagerTypeOK
    <2> QED
      BY <2>1 DEF PoolConsistent
  <1>3. \A p \in Pages : ref_count'[p] = Cardinality(Holders(p)')
    <2> SUFFICES ASSUME NEW p \in Pages
                 PROVE  ref_count'[p] = Cardinality(Holders(p)')
      OBVIOUS
    <2>1. p \in Range(block_table[s]) <=> s \in Holders(p)
      BY DEF Holders
    <2>2. ref_count[p] = Cardinality(Holders(p)) /\ IsFiniteSet(Holders(p))
      BY HolderCounts DEF PoolConsistent
    <2>3. CASE p \in F
      <3>1. Holders(p) = {}
        BY <2>3, HolderCounts
      <3>2. Holders(p)' = {s}
        BY <1>1, <2>3, <3>1
      <3> QED
        BY <2>3, <3>2, FS_Singleton
    <2>4. CASE p \in C
      <3>1. s \notin Holders(p) /\ Holders(p)' = Holders(p) \union {s} /\ p \notin F
        BY <1>1, <2>1, <2>4
      <3>2. ref_count'[p] = ref_count[p] + 1
        BY <2>4, <3>1
      <3>3. Cardinality(Holders(p) \union {s}) = Cardinality(Holders(p)) + 1
        BY <2>2, <3>1, FS_AddElement
      <3> QED
        BY <2>2, <3>1, <3>2, <3>3
    <2>5. CASE p \notin C \union F
      <3>1. p \in Range(table) <=> p \in Range(block_table[s])
        BY <2>5
      <3>2. Holders(p)' = Holders(p)
        <4>1. Holders(p)' = IF p \in Range(table) THEN Holders(p) \union {s}
                                                    ELSE Holders(p) \ {s}
          BY <1>1
        <4>2. p \in Range(table) => Holders(p) \union {s} = Holders(p)
          BY <2>1, <3>1
        <4>3. p \notin Range(table) => Holders(p) \ {s} = Holders(p)
          BY <2>1, <3>1
        <4> QED
          BY <4>1, <4>2, <4>3
      <3> QED
        BY <2>2, <2>5, <3>2
    <2> QED
      BY <2>3, <2>4, <2>5
  <1>4. free_block_ids' = {p \in Pages : ref_count'[p] = 0}
    <2>1. \A p \in Pages : p \in free_block_ids' <=> ref_count'[p] = 0
      <3> SUFFICES ASSUME NEW p \in Pages
                   PROVE  p \in free_block_ids' <=> ref_count'[p] = 0
        OBVIOUS
      <3>1. ref_count[p] \in Nat /\ (p \in free_block_ids <=> ref_count[p] = 0)
        BY DEF PoolConsistent, BlockManagerTypeOK
      <3>2. ref_count'[p] = IF p \in F THEN 1 ELSE IF p \in C THEN ref_count[p] + 1
                                                              ELSE ref_count[p]
        OBVIOUS
      <3>3. p \in F => p \notin free_block_ids'
        OBVIOUS
      <3>4. p \in C => p \notin free_block_ids'
        OBVIOUS
      <3>5. p \notin C \union F => (p \in free_block_ids' <=> p \in free_block_ids)
        OBVIOUS
      <3> QED
        BY <3>1, <3>2, <3>3, <3>4, <3>5
    <2>2. free_block_ids' \subseteq Pages
      BY DEF BlockManagerTypeOK
    <2> QED
      BY <2>1, <2>2
  <1>5. used_block_ids' = Pages \ free_block_ids'
    <2>1. used_block_ids = Pages \ free_block_ids /\ C \union F \subseteq Pages
      BY DEF PoolConsistent, BlockManagerTypeOK
    <2> QED
      BY <2>1
  <1> QED
    BY <1>2, <1>3, <1>4, <1>5 DEF PoolConsistent

\* Two tables without a page in common, one after the other.
LEMMA ConcatInjective ==
    ASSUME NEW t1 \in Seq(Pages), NEW t2 \in Seq(Pages), IsInjective(t1), IsInjective(t2),
           Range(t1) \intersect Range(t2) = {}
    PROVE  /\ t1 \o t2 \in Seq(Pages)
           /\ IsInjective(t1 \o t2)
           /\ Range(t1 \o t2) = Range(t1) \union Range(t2)
  <1>1. /\ t1 \o t2 \in Seq(Pages)
        /\ Len(t1 \o t2) = Len(t1) + Len(t2)
        /\ \A i \in 1 .. Len(t1) + Len(t2) :
                (t1 \o t2)[i] = IF i <= Len(t1) THEN t1[i] ELSE t2[i - Len(t1)]
    BY ConcatProperties
  <1>2. Range(t1 \o t2) = Range(t1) \union Range(t2)
    BY RangeConcatenation
  <1>3. ASSUME NEW i \in 1 .. Len(t1) + Len(t2), NEW j \in 1 .. Len(t1) + Len(t2),
               (t1 \o t2)[i] = (t1 \o t2)[j]
        PROVE  i = j
    <2>1. \A m \in 1 .. Len(t1) : t1[m] \in Range(t1)
      BY DEF Range
    <2>2. \A m \in 1 .. Len(t2) : t2[m] \in Range(t2)
      BY DEF Range
    <2>3. CASE i <= Len(t1) /\ j <= Len(t1)
      BY <1>1, <1>3, <2>3 DEF IsInjective
    <2>4. CASE i > Len(t1) /\ j > Len(t1)
      <3>1. i - Len(t1) \in 1 .. Len(t2) /\ j - Len(t1) \in 1 .. Len(t2)
        BY <2>4
      <3>2. t2[i - Len(t1)] = t2[j - Len(t1)]
        BY <1>1, <1>3, <2>4
      <3>3. i - Len(t1) = j - Len(t1)
        BY <3>1, <3>2 DEF IsInjective
      <3> QED
        BY <3>3
    <2>5. CASE i <= Len(t1) /\ j > Len(t1)
      BY <1>1, <1>3, <2>1, <2>2, <2>5
    <2>6. CASE i > Len(t1) /\ j <= Len(t1)
      BY <1>1, <1>3, <2>1, <2>2, <2>6
    <2> QED
      BY <2>3, <2>4, <2>5, <2>6
  <1>4. IsInjective(t1 \o t2)
    BY <1>1, <1>3 DEF IsInjective
  <1> QED
    BY <1>1, <1>2, <1>4

\* allocate claims the pages it found, and only those, from other holders.
LEMMA AllocateKeepsPool ==
    ASSUME BlockManagerTypeOK, PoolConsistent, NEW s \in Seqs, NEW n \in Nat, allocate(s, n)
    PROVE  PoolConsistent'
  <1> DEFINE found == reusable_prefix_block_ids(s)
             missing == required_blocks(prompt_len[s] + n) - Len(found)
  <1>1. found \in Seq(Pages) /\ IsInjective(found)
    BY ReusableProperties
  <1>2. missing \in Int
    <2>1. Len(found) \in Nat
      BY <1>1
    <2>2. prompt_len[s] + n \in Nat
      BY DEF BlockManagerTypeOK
    <2>3. required_blocks(prompt_len[s] + n) \in Nat
      BY <2>2, BlockCounts
    <2> HIDE DEF found
    <2> QED
      BY <2>1, <2>3
  <1>3. PICK fresh \in FreshChoices(missing, free_block_ids \ Range(found)) :
          /\ block_table' = [block_table EXCEPT ![s] = found \o fresh]
          /\ free_block_ids' = free_block_ids \ Range(found \o fresh)
          /\ used_block_ids' = used_block_ids \union Range(found \o fresh)
          /\ ref_count' = [p \in Pages |-> IF p \in Range(fresh) THEN 1
                                ELSE IF p \in Range(found) THEN ref_count[p] + 1
                                ELSE ref_count[p]]
    BY DEF allocate
  <1>4. /\ fresh \in Seq(Pages) /\ IsInjective(fresh)
        /\ Range(fresh) \subseteq free_block_ids \ Range(found)
    <2>1. free_block_ids \ Range(found) \in SUBSET Pages
      BY DEF BlockManagerTypeOK
    <2> QED
      BY <1>2, <1>3, <2>1, FreshProperties
  <1>5. /\ found \o fresh \in Seq(Pages) /\ IsInjective(found \o fresh)
        /\ Range(found \o fresh) = Range(found) \union Range(fresh)
    BY <1>1, <1>4, ConcatInjective
  <1>6. Range(found) \in SUBSET Pages /\ Range(block_table[s]) = {}
    BY <1>1 DEF allocate, Range
  <1> DEFINE table == found \o fresh
             F == Range(fresh)
             C == Range(found)
  <1>7. /\ F \in SUBSET free_block_ids /\ C \in SUBSET Pages
        /\ Range(table) = Range(block_table[s]) \union C \union F
        /\ C \intersect F = {} /\ C \intersect Range(block_table[s]) = {}
    BY <1>4, <1>5, <1>6
  <1>8. Range(table) = C \union F
    BY <1>5
  <1>9. /\ block_table' = [block_table EXCEPT ![s] = table]
        /\ free_block_ids' = free_block_ids \ (C \union F)
        /\ used_block_ids' = used_block_ids \union (C \union F)
        /\ ref_count' = [p \in Pages |-> IF p \in F THEN 1
                              ELSE IF p \in C THEN ref_count[p] + 1
                              ELSE ref_count[p]]
    BY <1>3, <1>8
  <1>10. table \in Seq(Pages) /\ IsInjective(table)
    BY <1>5
  <1> HIDE DEF found, missing, table, F, C
  <1> QED
    BY <1>7, <1>9, <1>10, TakingKeepsPool

\* may_append takes fresh pages only.
LEMMA MayAppendKeepsPool ==
    ASSUME BlockManagerTypeOK, PoolConsistent, NEW s \in Seqs, NEW n \in Nat, may_append(s, n)
    PROVE  PoolConsistent'
  <1>1. block_table[s] \in Seq(Pages) /\ IsInjective(block_table[s])
    BY DEF BlockManagerTypeOK, PoolConsistent
  <1>2. MissingPages(s, n) \in Int
    <2>1. Len(token_ids[s]) + n \in Nat /\ Len(block_table[s]) \in Nat
      BY DEF BlockManagerTypeOK
    <2>2. required_blocks(Len(token_ids[s]) + n) \in Nat
      BY <2>1, BlockCounts
    <2> QED
      BY <2>1, <2>2 DEF MissingPages
  <1>3. PICK fresh \in FreshChoices(MissingPages(s, n), free_block_ids) :
          /\ block_table' = [block_table EXCEPT ![s] = block_table[s] \o fresh]
          /\ free_block_ids' = free_block_ids \ Range(fresh)
          /\ used_block_ids' = used_block_ids \union Range(fresh)
          /\ ref_count' = [p \in Pages |-> IF p \in Range(fresh) THEN 1 ELSE ref_count[p]]
    BY DEF may_append
  <1>4. /\ fresh \in Seq(Pages) /\ IsInjective(fresh)
        /\ Range(fresh) \subseteq free_block_ids
    BY <1>2, <1>3, FreshProperties DEF BlockManagerTypeOK
  <1>5. Range(block_table[s]) \intersect free_block_ids = {}
    <2> SUFFICES ASSUME NEW p \in Range(block_table[s]), p \in free_block_ids
                 PROVE  FALSE
      OBVIOUS
    <2>1. p \in Pages
      BY DEF BlockManagerTypeOK
    <2>2. s \in Holders(p)
      BY DEF Holders
    <2> QED
      BY <2>1, <2>2, HolderCounts
  <1>6. /\ block_table[s] \o fresh \in Seq(Pages) /\ IsInjective(block_table[s] \o fresh)
        /\ Range(block_table[s] \o fresh) = Range(block_table[s]) \union Range(fresh)
    BY <1>1, <1>4, <1>5, ConcatInjective
  <1> DEFINE C == {}
  <1>7. /\ C \in SUBSET Pages /\ C \intersect Range(fresh) = {}
        /\ C \intersect Range(block_table[s]) = {} /\ C \union Range(fresh) = Range(fresh)
        /\ Range(block_table[s] \o fresh) = Range(block_table[s]) \union C \union Range(fresh)
    BY <1>6
  <1>8. ref_count' = [p \in Pages |-> IF p \in Range(fresh) THEN 1
                                      ELSE IF p \in C THEN ref_count[p] + 1
                                      ELSE ref_count[p]]
    BY <1>3
  <1> HIDE DEF C
  <1> QED
    BY <1>3, <1>4, <1>6, <1>7, <1>8, TakingKeepsPool

-----------------------------------------------------------------------------
(* Types.                                                                  *)

\* As many blocks as are required have room for the positions, and no fewer.
LEMMA RoundsUp ==
    ASSUME NEW n \in Nat
    PROVE  /\ required_blocks(n) \in Nat
           /\ required_blocks(n) * BlockSize >= n
           /\ n > 0 => (required_blocks(n) - 1) * BlockSize < n
  <1>1. BlockSize \in Nat /\ BlockSize > 0
    BY BlockSizeAssumption
  <1> DEFINE m == n + BlockSize - 1
             q == m \div BlockSize
  <1>2. m \in Nat
    BY <1>1
  <1>3. q \in Nat /\ q * BlockSize <= m /\ m < q * BlockSize + BlockSize
    <2> HIDE DEF m
    <2> QED
      BY <1>1, <1>2, SMTT(30)
  <1>4. required_blocks(n) = q
    BY DEF required_blocks
  <1>5. (q - 1) * BlockSize = q * BlockSize - BlockSize
    BY <1>1, <1>3, SMTT(30)
  <1> QED
    BY <1>1, <1>3, <1>4, <1>5

\* A position below the end of a block table has a page in it.
LEMMA PositionMapped ==
    ASSUME BlockManagerTypeOK, NEW s \in Seqs, NEW pos \in Nat,
           pos < Len(block_table[s]) * BlockSize
    PROVE  /\ pos \div BlockSize + 1 \in 1 .. Len(block_table[s])
           /\ IsMapped(s, pos)
           /\ physical_block_id(s, pos) \in Range(block_table[s])
           /\ Range(block_table[s]) \subseteq Pages
  <1>1. BlockSize \in Nat /\ BlockSize > 0 /\ block_table[s] \in Seq(Pages)
    BY BlockSizeAssumption DEF BlockManagerTypeOK
  <1> DEFINE q == pos \div BlockSize
             l == Len(block_table[s])
  <1>2. q \in Nat /\ q * BlockSize <= pos /\ l \in Nat
    BY <1>1, SMTT(30)
  <1>3. q < l
    <2>1. q >= l => q * BlockSize >= l * BlockSize
      BY <1>1, <1>2, SMTT(30)
    <2>2. q * BlockSize \in Int /\ l * BlockSize \in Int
      BY <1>1, <1>2
    <2> HIDE DEF q
    <2> QED
      BY <1>2, <2>1, <2>2
  <1> QED
    BY <1>1, <1>2, <1>3 DEF IsMapped, physical_block_id, Range

\* The logical block of a page of a table is an index of the table.
LEMMA LogicalBlockIndex ==
    ASSUME NEW table, NEW p \in Range(table)
    PROVE  LogicalBlock(table, p) \in DOMAIN table /\ table[LogicalBlock(table, p)] = p
  <1>1. \E i \in DOMAIN table : table[i] = p
    BY DEF Range
  <1> QED
    BY <1>1 DEF LogicalBlock

\* A part of a text is a text.
LEMMA SubTextType ==
    ASSUME NEW text \in Seq(Tokens), NEW from \in Nat \ {0}, NEW to \in Int, to <= Len(text)
    PROVE  /\ SubSeq(text, from, to) \in Seq(Tokens)
           /\ Len(SubSeq(text, from, to)) = IF from <= to THEN to - from + 1 ELSE 0
  <1>1. \A i \in from .. to : text[i] \in Tokens
    OBVIOUS
  <1> QED
    BY <1>1, SubSeqProperties

\* A block's slice of a text; where it fills the block, the prefix it ends is
\* a part of the text too.
LEMMA SliceType ==
    ASSUME NEW text \in Seq(Tokens), NEW i \in Nat \ {0}
    PROVE  /\ BlockSlice(text, i) \in Seq(Tokens)
           /\ Len(BlockSlice(text, i)) <= BlockSize
           /\ Len(BlockSlice(text, i)) = BlockSize => PrefixHash(text, i) \in Seq(Tokens)
  <1>1. BlockSize \in Nat /\ BlockSize > 0
    BY BlockSizeAssumption
  <1> DEFINE from == (i - 1) * BlockSize + 1
             to == Min({i * BlockSize, Len(text)})
  <1>2. i * BlockSize \in Nat /\ from \in Nat \ {0} /\ from = i * BlockSize - BlockSize + 1
    BY <1>1, SMTT(30)
  <1>3. to = IF i * BlockSize <= Len(text) THEN i * BlockSize ELSE Len(text)
    BY <1>2, MinOfTwo
  <1>4. BlockSlice(text, i) = SubSeq(text, from, to)
    BY DEF BlockSlice
  <1> HIDE DEF from, to
  <1>5. to \in Int /\ to <= Len(text) /\ to <= i * BlockSize
    BY <1>2, <1>3
  <1>6. /\ BlockSlice(text, i) \in Seq(Tokens)
        /\ Len(BlockSlice(text, i)) = IF from <= to THEN to - from + 1 ELSE 0
    BY <1>2, <1>4, <1>5, SubTextType
  <1>7. Len(BlockSlice(text, i)) = BlockSize => i * BlockSize <= Len(text)
    BY <1>1, <1>2, <1>3, <1>6
  <1>8. i * BlockSize <= Len(text) => PrefixHash(text, i) \in Seq(Tokens)
    BY <1>2, SubTextType DEF PrefixHash
  <1> QED
    BY <1>1, <1>2, <1>5, <1>6, <1>7, <1>8

\* The prompt is a part of the text, as long as prompt_len.
LEMMA PromptType ==
    ASSUME BlockManagerTypeOK, NEW s \in Seqs
    PROVE  Prompt(s) \in Seq(Tokens) /\ Len(Prompt(s)) = prompt_len[s]
  <1>1. /\ token_ids[s] \in Seq(Tokens) /\ prompt_len[s] \in Nat
        /\ prompt_len[s] <= Len(token_ids[s])
    BY DEF BlockManagerTypeOK
  <1> QED
    BY <1>1, SubTextType DEF Prompt

\* Eviction only removes entries from the index.
LEMMA EvictionShrinks ==
    ASSUME NEW F
    PROVE  /\ DOMAIN IndexWithout(F) \subseteq DOMAIN hash_to_block_id
           /\ \A h \in DOMAIN IndexWithout(F) : IndexWithout(F)[h] = hash_to_block_id[h]
  BY DEF IndexWithout, Restrict

\* allocate keeps the types, and reserves the prompt and n slots after it.
LEMMA AllocateTypes ==
    ASSUME BlockManagerTypeOK, NEW s \in Seqs, NEW n \in Nat, allocate(s, n)
    PROVE  /\ BlockManagerTypeOK'
           /\ Len(block_table'[s]) * BlockSize >= prompt_len[s] + n
           /\ \A r \in Seqs \ {s} : block_table'[r] = block_table[r]
  <1> DEFINE prompt == Prompt(s)
             found == reusable_prefix_block_ids(s)
             total == required_blocks(prompt_len[s] + n)
  <1>1. /\ found \in Seq(Pages) /\ Len(found) \in Nat
        /\ total \in Nat /\ total * BlockSize >= prompt_len[s] + n
    <2>1. prompt_len[s] + n \in Nat
      BY DEF BlockManagerTypeOK
    <2>2. total \in Nat /\ total * BlockSize >= prompt_len[s] + n
      BY <2>1, RoundsUp
    <2>3. found \in Seq(Pages)
      BY ReusableProperties
    <2> QED
      BY <2>2, <2>3
  <1>2. PICK fresh \in FreshChoices(total - Len(found), free_block_ids \ Range(found)) :
            LET table == found \o fresh
                F == Range(fresh)
                Slice(p) == BlockSlice(prompt, LogicalBlock(table, p))
            IN  /\ block_table' = [block_table EXCEPT ![s] = table]
                /\ free_block_ids' = free_block_ids \ Range(table)
                /\ used_block_ids' = used_block_ids \union Range(table)
                /\ ref_count' = [p \in Pages |->
                        IF p \in F THEN 1
                        ELSE IF p \in Range(found) THEN ref_count[p] + 1
                        ELSE ref_count[p]]
                /\ block_tokens' = [p \in Pages |->
                        IF p \in F THEN Slice(p) ELSE block_tokens[p]]
                /\ block_hash' = [p \in Pages |->
                        IF p \notin F THEN block_hash[p]
                        ELSE IF Len(Slice(p)) = BlockSize
                             THEN PrefixHash(prompt, LogicalBlock(table, p))
                             ELSE NoHash]
                /\ computed_tokens' = [p \in Pages |->
                        IF p \in F THEN 0 ELSE computed_tokens[p]]
                /\ hash_to_block_id' = IndexWithout(F)
                /\ UNCHANGED <<token_ids, prompt_len>>
    BY DEF allocate
  <1> DEFINE table == found \o fresh
             F == Range(fresh)
  <1>3. /\ fresh \in Seq(Pages)
        /\ Len(fresh) = IF total >= Len(found) THEN total - Len(found) ELSE 0
    <2> DEFINE missing == total - Len(found)
               available == free_block_ids \ Range(found)
    <2>1. available \in SUBSET Pages /\ missing \in Int /\ fresh \in FreshChoices(missing, available)
      BY <1>1 DEF BlockManagerTypeOK
    <2>2. missing >= 0 <=> total >= Len(found)
      BY <1>1
    <2> HIDE DEF missing, available
    <2>3. fresh \in Seq(Pages) /\ Len(fresh) = IF missing >= 0 THEN missing ELSE 0
      BY <2>1, FreshProperties
    <2> QED
      BY <2>2, <2>3 DEF missing
  <1>4. table \in Seq(Pages) /\ Len(table) = Len(found) + Len(fresh)
    BY <1>1, <1>3
  <1>5. Range(table) \subseteq Pages /\ F \subseteq Range(table)
    <2>1. Range(table) = Range(found) \union F
      BY <1>1, <1>3, RangeConcatenation
    <2>2. Range(table) \subseteq Pages
      BY <1>4 DEF Range
    <2> QED
      BY <2>1, <2>2
  <1>6. Len(table) * BlockSize >= prompt_len[s] + n
    <2>1. Len(table) >= total /\ Len(table) \in Nat
      BY <1>1, <1>3, <1>4
    <2>2. Len(table) * BlockSize >= total * BlockSize
      BY <1>1, <2>1, BlockSizeAssumption, SMTT(30)
    <2>3. Len(table) * BlockSize \in Int /\ total * BlockSize \in Int /\ prompt_len[s] + n \in Int
      BY <1>1, <2>1, BlockSizeAssumption DEF BlockManagerTypeOK
    <2> HIDE DEF table, total
    <2> QED
      BY <1>1, <2>2, <2>3
  <1>7. \A p \in F : LET i == LogicalBlock(table, p)
                     IN  /\ BlockSlice(prompt, i) \in Seq(Tokens)
                         /\ Len(BlockSlice(prompt, i)) = BlockSize
                                => PrefixHash(prompt, i) \in Seq(Tokens)
    <2> SUFFICES ASSUME NEW p \in F
                 PROVE  LET i == LogicalBlock(table, p)
                        IN  /\ BlockSlice(prompt, i) \in Seq(Tokens)
                            /\ Len(BlockSlice(prompt, i)) = BlockSize
                                   => PrefixHash(prompt, i) \in Seq(Tokens)
      OBVIOUS
    <2>1. LogicalBlock(table, p) \in Nat \ {0}
      <3>1. LogicalBlock(table, p) \in DOMAIN table
        BY <1>5, LogicalBlockIndex
      <3> QED
        BY <1>4, <3>1
    <2>2. prompt \in Seq(Tokens)
      BY PromptType
    <2> HIDE DEF table, prompt
    <2> QED
      BY <2>1, <2>2, SliceType
  <1>8. block_table' = [block_table EXCEPT ![s] = table]
    BY <1>2
  <1>9. block_table' \in [Seqs -> Seq(Pages)] /\ block_table'[s] = table
    BY <1>4, <1>8 DEF BlockManagerTypeOK
  <1>10. block_hash' \in [Pages -> Seq(Tokens)] /\ block_tokens' \in [Pages -> Seq(Tokens)]
    BY <1>2, <1>7 DEF BlockManagerTypeOK, NoHash
  <1>11. ref_count' \in [Pages -> Nat] /\ computed_tokens' \in [Pages -> 0 .. BlockSize]
    BY <1>2, BlockSizeAssumption DEF BlockManagerTypeOK
  <1>12. free_block_ids' \subseteq Pages /\ used_block_ids' \subseteq Pages
    BY <1>2, <1>5 DEF BlockManagerTypeOK
  <1>13. \A h \in DOMAIN hash_to_block_id' : h \in Seq(Tokens) /\ hash_to_block_id'[h] \in Pages
    BY <1>2, EvictionShrinks DEF BlockManagerTypeOK
  <1>14. BlockManagerTypeOK'
    BY <1>2, <1>9, <1>10, <1>11, <1>12, <1>13 DEF BlockManagerTypeOK
  <1>15. \A r \in Seqs \ {s} : block_table'[r] = block_table[r]
    BY <1>8 DEF BlockManagerTypeOK
  <1> QED
    BY <1>6, <1>9, <1>14, <1>15

\* may_append keeps the types, and reserves n slots after the text.
LEMMA MayAppendTypes ==
    ASSUME BlockManagerTypeOK, NEW s \in Seqs, NEW n \in Nat, may_append(s, n)
    PROVE  /\ BlockManagerTypeOK'
           /\ Len(block_table'[s]) * BlockSize >= Len(token_ids[s]) + n
           /\ Len(block_table'[s]) >= Len(block_table[s])
           /\ \A r \in Seqs \ {s} : block_table'[r] = block_table[r]
  <1> DEFINE old == block_table[s]
             total == required_blocks(Len(token_ids[s]) + n)
             missing == MissingPages(s, n)
  <1>1. /\ old \in Seq(Pages) /\ Len(old) \in Nat /\ Len(token_ids[s]) + n \in Nat
        /\ free_block_ids \in SUBSET Pages
    BY DEF BlockManagerTypeOK
  <1>2. total \in Nat /\ total * BlockSize >= Len(token_ids[s]) + n
    BY <1>1, RoundsUp
  <1>3. missing = total - Len(old)
    BY DEF MissingPages
  <1>4. PICK fresh \in FreshChoices(missing, free_block_ids) :
            LET F == Range(fresh)
            IN  /\ block_table' = [block_table EXCEPT ![s] = @ \o fresh]
                /\ free_block_ids' = free_block_ids \ F
                /\ used_block_ids' = used_block_ids \union F
                /\ ref_count' = [p \in Pages |-> IF p \in F THEN 1 ELSE ref_count[p]]
                /\ block_tokens' = [p \in Pages |-> IF p \in F THEN <<>> ELSE block_tokens[p]]
                /\ block_hash' = [p \in Pages |-> IF p \in F THEN NoHash ELSE block_hash[p]]
                /\ computed_tokens' = [p \in Pages |-> IF p \in F THEN 0 ELSE computed_tokens[p]]
                /\ hash_to_block_id' = IndexWithout(F)
                /\ UNCHANGED <<token_ids, prompt_len>>
    BY DEF may_append
  <1> DEFINE table == old \o fresh
             F == Range(fresh)
  <1>5. /\ fresh \in Seq(Pages)
        /\ Len(fresh) = IF missing >= 0 THEN missing ELSE 0
    <2>1. missing \in Int
      BY <1>1, <1>2, <1>3
    <2> HIDE DEF missing
    <2> QED
      BY <1>1, <1>4, <2>1, FreshProperties
  <1>6. table \in Seq(Pages) /\ Len(table) = Len(old) + Len(fresh) /\ Len(table) \in Nat
    BY <1>1, <1>5
  <1>7. Len(table) >= total /\ Len(table) >= Len(old)
    <2> HIDE DEF table, total, missing, old
    <2> QED
      BY <1>1, <1>2, <1>3, <1>5, <1>6
  <1>8. Len(table) * BlockSize >= Len(token_ids[s]) + n
    <2>1. Len(table) * BlockSize >= total * BlockSize
      BY <1>2, <1>6, <1>7, BlockSizeAssumption, SMTT(30)
    <2>2. Len(table) * BlockSize \in Int /\ total * BlockSize \in Int
      BY <1>2, <1>6, BlockSizeAssumption
    <2> HIDE DEF table, total
    <2> QED
      BY <1>1, <1>2, <2>1, <2>2
  <1>9. F \subseteq Pages
    BY <1>5 DEF Range
  <1>10. block_table' = [block_table EXCEPT ![s] = table]
    BY <1>4
  <1>11. block_table' \in [Seqs -> Seq(Pages)] /\ block_table'[s] = table
    BY <1>6, <1>10 DEF BlockManagerTypeOK
  <1>12. block_hash' \in [Pages -> Seq(Tokens)] /\ block_tokens' \in [Pages -> Seq(Tokens)]
    BY <1>4 DEF BlockManagerTypeOK, NoHash
  <1>13. ref_count' \in [Pages -> Nat] /\ computed_tokens' \in [Pages -> 0 .. BlockSize]
    BY <1>4, BlockSizeAssumption DEF BlockManagerTypeOK
  <1>14. free_block_ids' \subseteq Pages /\ used_block_ids' \subseteq Pages
    BY <1>4, <1>9 DEF BlockManagerTypeOK
  <1>15. \A h \in DOMAIN hash_to_block_id' : h \in Seq(Tokens) /\ hash_to_block_id'[h] \in Pages
    BY <1>4, EvictionShrinks DEF BlockManagerTypeOK
  <1>16. BlockManagerTypeOK'
    BY <1>4, <1>11, <1>12, <1>13, <1>14, <1>15 DEF BlockManagerTypeOK
  <1>17. \A r \in Seqs \ {s} : block_table'[r] = block_table[r]
    BY <1>10 DEF BlockManagerTypeOK
  <1> QED
    BY <1>7, <1>8, <1>11, <1>16, <1>17

\* deallocate keeps the types.
LEMMA DeallocateTypes ==
    ASSUME BlockManagerTypeOK, PoolConsistent, NEW s \in Seqs, deallocate(s)
    PROVE  /\ ref_count' \in [Pages -> Nat]
           /\ free_block_ids' \subseteq Pages
           /\ used_block_ids' \subseteq Pages
           /\ block_table' \in [Seqs -> Seq(Pages)]
           /\ block_table' = [block_table EXCEPT ![s] = <<>>]
  <1> DEFINE P == Range(block_table[s])
  <1>1. P \subseteq Pages
    BY DEF BlockManagerTypeOK, Range
  <1>2. \A p \in P : ref_count[p] \in Nat \ {0}
    <2> SUFFICES ASSUME NEW p \in P
                 PROVE  ref_count[p] \in Nat \ {0}
      OBVIOUS
    <2>1. p \in Pages /\ ref_count[p] \in Nat
      BY <1>1 DEF BlockManagerTypeOK
    <2>2. s \in Holders(p)
      BY DEF Holders
    <2> QED
      BY <2>1, <2>2, HolderCounts
  <1>3. ref_count' = [p \in Pages |-> IF p \in P THEN ref_count[p] - 1 ELSE ref_count[p]]
    BY DEF deallocate
  <1>4. ref_count' \in [Pages -> Nat]
    <2>1. \A p \in Pages : ref_count[p] \in Nat
      BY DEF BlockManagerTypeOK
    <2> HIDE DEF P
    <2> QED
      BY <1>2, <1>3, <2>1
  <1>5. LastReferences(s) \subseteq Pages
    BY <1>1 DEF LastReferences
  <1> QED
    BY <1>4, <1>5 DEF deallocate, BlockManagerTypeOK

\* mark_computed on mapped positions keeps the types.
LEMMA MarkTypes ==
    ASSUME BlockManagerTypeOK, NEW s \in Seqs, NEW start \in Nat, NEW n \in Nat,
           NEW hashes \in [Pages -> Seq(Tokens)],
           start + n <= Len(block_table[s]) * BlockSize,
           mark_computed(s, start, n, hashes)
    PROVE  /\ computed_tokens' \in [Pages -> 0 .. BlockSize]
           /\ \A h \in DOMAIN hash_to_block_id' : /\ h \in Seq(Tokens)
                                                  /\ hash_to_block_id'[h] \in Pages
  <1> DEFINE Touched == {physical_block_id(s, pos) : pos \in start .. start + n - 1}
             computed == [p \in Pages |->
                IF p \in Touched
                THEN Max({computed_tokens[p], ValidLength(s, p, start + n)})
                ELSE computed_tokens[p]]
             published == {p \in Touched : /\ EnablePrefixCaching
                                           /\ computed[p] = BlockSize
                                           /\ computed_tokens[p] < BlockSize
                                           /\ hashes[p] # NoHash}
             Publisher(h) == CHOOSE p \in published : hashes[p] = h
             index == hash_to_block_id
  <1>1. /\ computed_tokens' = computed
        /\ hash_to_block_id' =
            [h \in DOMAIN index \union {hashes[p] : p \in published} |->
                IF h \in DOMAIN index THEN index[h] ELSE Publisher(h)]
    BY DEF mark_computed
  <1>2. Touched \subseteq Range(block_table[s]) /\ Touched \subseteq Pages
    <2> SUFFICES ASSUME NEW pos \in start .. start + n - 1
                 PROVE  /\ physical_block_id(s, pos) \in Range(block_table[s])
                        /\ physical_block_id(s, pos) \in Pages
      OBVIOUS
    <2>1. pos \in Nat
      OBVIOUS
    <2>2. Len(block_table[s]) * BlockSize \in Int
      BY BlockSizeAssumption DEF BlockManagerTypeOK
    <2>3. pos < Len(block_table[s]) * BlockSize
      BY <2>1, <2>2
    <2> QED
      BY <2>1, <2>3, PositionMapped
  <1>3. \A p \in Touched : computed[p] \in 0 .. BlockSize
    <2> SUFFICES ASSUME NEW p \in Touched
                 PROVE  Max({computed_tokens[p], ValidLength(s, p, start + n)}) \in 0 .. BlockSize
      BY <1>2
    <2>1. LogicalBlock(block_table[s], p) \in DOMAIN block_table[s]
      BY <1>2, LogicalBlockIndex
    <2>2. LogicalBlock(block_table[s], p) \in Nat /\ BlockSize \in Nat
      <3>1. block_table[s] \in Seq(Pages)
        BY DEF BlockManagerTypeOK
      <3> QED
        BY <2>1, <3>1, BlockSizeAssumption
    <2> DEFINE end == (start + n) - (LogicalBlock(block_table[s], p) - 1) * BlockSize
    <2>3. end \in Int
      BY <2>2
    <2>4. ValidLength(s, p, start + n) = Min({BlockSize, end})
      BY DEF ValidLength
    <2> HIDE DEF end
    <2>5. ValidLength(s, p, start + n) \in Int /\ ValidLength(s, p, start + n) <= BlockSize
      BY <2>2, <2>3, <2>4, MinOfTwo
    <2>6. computed_tokens[p] \in 0 .. BlockSize
      BY <1>2 DEF BlockManagerTypeOK
    <2>7. computed_tokens[p] \in Int
      BY <2>6
    <2>8. Max({computed_tokens[p], ValidLength(s, p, start + n)})
            = IF computed_tokens[p] <= ValidLength(s, p, start + n)
              THEN ValidLength(s, p, start + n) ELSE computed_tokens[p]
      BY <2>5, <2>7, MaxOfTwo
    <2> QED
      BY <2>2, <2>5, <2>6, <2>8
  <1>4. computed_tokens' \in [Pages -> 0 .. BlockSize]
    <2>1. \A p \in Pages : computed_tokens[p] \in 0 .. BlockSize
      BY DEF BlockManagerTypeOK
    <2>2. \A p \in Pages : computed[p] \in 0 .. BlockSize
      BY <1>3, <2>1
    <2>3. computed = [p \in Pages |-> computed[p]]
      OBVIOUS
    <2> HIDE DEF computed
    <2> QED
      BY <1>1, <2>2, <2>3
  <1>5. published \subseteq Pages
    BY <1>2
  <1>6. \A h \in {hashes[p] : p \in published} : h \in Seq(Tokens) /\ Publisher(h) \in Pages
    <2> HIDE DEF published
    <2> QED
      BY <1>5
  <1>7. \A h \in DOMAIN index : h \in Seq(Tokens) /\ index[h] \in Pages
    BY DEF BlockManagerTypeOK
  <1> HIDE DEF published, Publisher, computed, Touched
  <1> QED
    BY <1>1, <1>4, <1>6, <1>7

\* append_token and record_tokens on reserved positions keep the types.
LEMMA RecordTypes ==
    ASSUME BlockManagerTypeOK, NEW s \in Seqs, NEW tokens \in Seq(Tokens), Len(tokens) > 0,
           Len(token_ids[s]) + Len(tokens) <= Len(block_table[s]) * BlockSize,
           append_and_record(s, tokens)
    PROVE  /\ token_ids' \in [Seqs -> Seq(Tokens)]
           /\ token_ids' = [token_ids EXCEPT ![s] = @ \o tokens]
           /\ Len(token_ids'[s]) = Len(token_ids[s]) + Len(tokens)
           /\ prompt_len' = prompt_len
           /\ block_tokens' \in [Pages -> Seq(Tokens)]
           /\ block_hash' \in [Pages -> Seq(Tokens)]
  <1> DEFINE old == Len(token_ids[s])
             first == old \div BlockSize + 1
             last == (old + Len(tokens) - 1) \div BlockSize + 1
             table == block_table[s]
             Touched == {table[i] : i \in first .. last}
             parent == IF first = 1 THEN NoHash ELSE block_hash[table[first - 1]]
             Upto(i) == SubSeq(tokens, 1, Min({i * BlockSize - old, Len(tokens)}))
             In(i) == SubSeq(tokens, Max({(i - 1) * BlockSize - old, 0}) + 1, Len(Upto(i)))
             Text(p) == block_tokens[p] \o In(LogicalBlock(table, p))
  <1>1. /\ token_ids' = [token_ids EXCEPT ![s] = @ \o tokens]
        /\ block_tokens' = [p \in Pages |->
                IF p \in Touched THEN Text(p) ELSE block_tokens[p]]
        /\ block_hash' = [p \in Pages |->
                IF p \in Touched /\ Len(Text(p)) = BlockSize
                THEN compute_block_hash(parent, block_tokens[table[first]]
                                                    \o Upto(LogicalBlock(table, p)))
                ELSE block_hash[p]]
        /\ prompt_len' = prompt_len
    BY DEF append_and_record
  <1>2. /\ old \in Nat /\ Len(tokens) \in Nat /\ table \in Seq(Pages)
        /\ token_ids[s] \in Seq(Tokens) /\ BlockSize \in Nat
    BY BlockSizeAssumption DEF BlockManagerTypeOK
  <1>3. first \in 1 .. Len(table) /\ last \in 1 .. Len(table)
    <2>1. old < Len(table) * BlockSize /\ old + Len(tokens) - 1 < Len(table) * BlockSize
      <3>1. Len(table) * BlockSize \in Int
        BY <1>2
      <3> QED
        BY <1>2, <3>1
    <2>2. old \in Nat /\ old + Len(tokens) - 1 \in Nat
      BY <1>2
    <2>3. first \in 1 .. Len(table)
      BY <2>1, <2>2, PositionMapped
    <2>4. last \in 1 .. Len(table)
      <3> DEFINE pos == old + Len(tokens) - 1
      <3>1. pos \in Nat /\ pos < Len(block_table[s]) * BlockSize /\ last = pos \div BlockSize + 1
        BY <2>1, <2>2
      <3> HIDE DEF pos, last
      <3> QED
        BY <3>1, PositionMapped
    <2> QED
      BY <2>3, <2>4
  <1>4. Touched \subseteq Range(table) /\ Touched \subseteq Pages /\ table[first] \in Pages
    <2>1. first .. last \subseteq 1 .. Len(table)
      BY <1>3
    <2> HIDE DEF first, last
    <2> QED
      BY <1>2, <1>3, <2>1 DEF Range
  <1>5. parent \in Seq(Tokens)
    <2>1. CASE first = 1
      BY <2>1 DEF NoHash
    <2>2. CASE first # 1
      <3>1. first - 1 \in 1 .. Len(table)
        BY <1>3, <2>2
      <3> HIDE DEF first
      <3>2. table[first - 1] \in Pages
        BY <1>2, <3>1
      <3>3. block_hash[table[first - 1]] \in Seq(Tokens)
        BY <3>2 DEF BlockManagerTypeOK
      <3> QED
        BY <2>2, <3>3
    <2> QED
      BY <2>1, <2>2
  <1>6. \A i \in Nat : Upto(i) \in Seq(Tokens) /\ Len(Upto(i)) <= Len(tokens)
    <2> SUFFICES ASSUME NEW i \in Nat
                 PROVE  Upto(i) \in Seq(Tokens) /\ Len(Upto(i)) <= Len(tokens)
      OBVIOUS
    <2> DEFINE m == i * BlockSize - old
    <2>1. m \in Int
      BY <1>2
    <2> HIDE DEF m
    <2>2. Min({m, Len(tokens)}) \in Int /\ Min({m, Len(tokens)}) <= Len(tokens)
      BY <1>2, <2>1, MinOfTwo
    <2> DEFINE to == Min({m, Len(tokens)})
    <2>3. Upto(i) = SubSeq(tokens, 1, to)
      BY DEF m
    <2> HIDE DEF Upto, to
    <2>4. to \in Int /\ to <= Len(tokens)
      BY <2>2 DEF to
    <2>5. /\ SubSeq(tokens, 1, to) \in Seq(Tokens)
          /\ Len(SubSeq(tokens, 1, to)) = IF 1 <= to THEN to - 1 + 1 ELSE 0
      BY <2>4, SubTextType
    <2> QED
      BY <1>2, <2>3, <2>4, <2>5
  <1>7. \A i \in Nat \ {0} : In(i) \in Seq(Tokens)
    <2> SUFFICES ASSUME NEW i \in Nat \ {0}
                 PROVE  In(i) \in Seq(Tokens)
      OBVIOUS
    <2> DEFINE m == (i - 1) * BlockSize - old
    <2>1. m \in Int
      BY <1>2
    <2> HIDE DEF m, Upto
    <2>2. Max({m, 0}) + 1 \in Nat \ {0}
      BY <2>1, MaxOfTwo
    <2>3. Upto(i) \in Seq(Tokens) /\ Len(Upto(i)) <= Len(tokens)
      BY <1>6
    <2> DEFINE from == Max({m, 0}) + 1
               to == Len(Upto(i))
    <2>4. In(i) = SubSeq(tokens, from, to)
      BY DEF m
    <2>5. from \in Nat \ {0} /\ to \in Int /\ to <= Len(tokens)
      BY <2>2, <2>3
    <2> HIDE DEF In, from, to
    <2> QED
      BY <2>4, <2>5, SubTextType
  <1>8. \A p \in Touched : LogicalBlock(table, p) \in Nat \ {0}
    <2> SUFFICES ASSUME NEW p \in Touched
                 PROVE  LogicalBlock(table, p) \in Nat \ {0}
      OBVIOUS
    <2>1. LogicalBlock(table, p) \in DOMAIN table
      BY <1>4, LogicalBlockIndex
    <2> QED
      BY <1>2, <2>1
  <1>9. \A p \in Pages : block_tokens[p] \in Seq(Tokens) /\ block_hash[p] \in Seq(Tokens)
    BY DEF BlockManagerTypeOK
  <1> HIDE DEF Touched, In, Upto, parent, first, last, table, old
  <1>10. block_tokens' \in [Pages -> Seq(Tokens)]
    BY <1>1, <1>7, <1>8, <1>9
  <1>11. block_hash' \in [Pages -> Seq(Tokens)]
    <2>1. \A p \in Touched : compute_block_hash(parent, block_tokens[table[first]]
                                \o Upto(LogicalBlock(table, p))) \in Seq(Tokens)
      <3> SUFFICES ASSUME NEW p \in Touched
                   PROVE  compute_block_hash(parent, block_tokens[table[first]]
                                \o Upto(LogicalBlock(table, p))) \in Seq(Tokens)
        OBVIOUS
      <3>1. Upto(LogicalBlock(table, p)) \in Seq(Tokens)
        BY <1>6, <1>8
      <3>2. block_tokens[table[first]] \in Seq(Tokens)
        BY <1>4, <1>9
      <3> QED
        BY <1>5, <3>1, <3>2 DEF compute_block_hash
    <2> QED
      BY <1>1, <1>9, <2>1
  <1>12. /\ token_ids' \in [Seqs -> Seq(Tokens)]
         /\ Len(token_ids'[s]) = Len(token_ids[s]) + Len(tokens)
    BY <1>1 DEF BlockManagerTypeOK
  <1> QED
    BY <1>1, <1>10, <1>11, <1>12

-----------------------------------------------------------------------------
(* The invariant of the runner.                                             *)

\* What the counters and the block table of one request say at each stage.
Accounting(s) ==
    /\ status[s] # "ACTIVE" => block_table[s] = <<>> /\ work[s] = "idle"
    /\ status[s] = "ACTIVE" =>
        /\ prompt_len[s] > 0
        /\ num_computed[s] <= prompt_len[s]
        /\ block_table[s] = <<>> => work[s] = "idle" /\ num_computed[s] = 0
        /\ block_table[s] # <<>> => prompt_len[s] + 1 <= Len(block_table[s]) * BlockSize
        /\ work[s] # "done" => (IsPrefilling(s) <=> num_generated(s) = 0)
        /\ work[s] # "idle" /\ IsPrefilling(s) => num_tokens[s] \in 1 .. uncomputed_tokens(s)
        /\ work[s] = "done" /\ IsPrefilling(s) =>
                (num_generated(s) = 0 <=> num_tokens[s] < uncomputed_tokens(s))
        /\ work[s] = "done" /\ ~ IsPrefilling(s) => num_generated(s) > 0
        /\ work[s] \in {"scheduled", "forwarded"} /\ ~ IsPrefilling(s) =>
                Len(token_ids[s]) + num_tokens[s] <= Len(block_table[s]) * BlockSize
        /\ work[s] = "forwarded" =>
                IF IsPrefilling(s) THEN Len(query[s]) = num_tokens[s]
                                   ELSE Len(query[s]) \in 1 .. num_tokens[s]

Inv == TypeOK /\ PoolConsistent /\ \A s \in Seqs : Accounting(s)

-----------------------------------------------------------------------------
(* What a step leaves alone.                                               *)

\* A request none of whose variables changes keeps its accounts.
LEMMA AccountingElsewhere ==
    ASSUME NEW r \in Seqs, Accounting(r),
           status'[r] = status[r], work'[r] = work[r], num_tokens'[r] = num_tokens[r],
           num_computed'[r] = num_computed[r], query'[r] = query[r],
           block_table'[r] = block_table[r], token_ids'[r] = token_ids[r],
           prompt_len'[r] = prompt_len[r]
    PROVE  Accounting(r)'
  BY DEF Accounting, IsPrefilling, uncomputed_tokens, num_generated

\* Ownership is a matter of the pool and the block tables alone.
LEMMA PoolUnchanged ==
    ASSUME PoolConsistent, UNCHANGED <<poolVars, block_table>>
    PROVE  PoolConsistent'
  BY DEF PoolConsistent, Holders, poolVars

\* The counters of a request are integers.
LEMMA Counts ==
    ASSUME TypeOK, NEW s \in Seqs
    PROVE  /\ prompt_len[s] \in Nat /\ num_computed[s] \in Nat /\ num_tokens[s] \in Nat
           /\ Len(token_ids[s]) \in Nat /\ Len(block_table[s]) \in Nat /\ Len(query[s]) \in Nat
           /\ prompt_len[s] <= Len(token_ids[s])
           /\ num_generated(s) \in Nat
           /\ uncomputed_tokens(s) \in Int
           /\ BlockSize \in Nat /\ BlockSize > 0
           /\ Len(block_table[s]) * BlockSize \in Nat
  <1>1. /\ prompt_len[s] \in Nat /\ num_computed[s] \in Nat /\ num_tokens[s] \in Nat
        /\ token_ids[s] \in Seq(Tokens) /\ block_table[s] \in Seq(Pages)
        /\ query[s] \in Seq(Tokens) /\ prompt_len[s] <= Len(token_ids[s])
    BY DEF TypeOK, BlockManagerTypeOK
  <1> QED
    BY <1>1, BlockSizeAssumption DEF num_generated, uncomputed_tokens

\* A cached prefix is shorter than the prompt.
LEMMA CachedPrefixShorter ==
    ASSUME BlockManagerTypeOK, NEW s \in Seqs, prompt_len[s] > 0
    PROVE  cached_prefix_tokens(s) \in 0 .. prompt_len[s] - 1
  <1> DEFINE k == ReusableBlocks(s)
             m == MaxReusable(s)
             r == required_blocks(prompt_len[s])
             q == prompt_len[s] \div BlockSize
  <1>1. BlockSize \in Nat /\ BlockSize > 0 /\ prompt_len[s] \in Nat
    BY BlockSizeAssumption DEF BlockManagerTypeOK
  <1>2. k \in 0 .. m /\ m \in Nat
    BY BlockCounts, ReusableProperties
  <1>3. r \in Nat /\ (r - 1) * BlockSize < prompt_len[s] /\ r * BlockSize >= prompt_len[s]
    BY <1>1, RoundsUp
  <1>4. r >= 1
    <2> HIDE DEF r
    <2>1. r = 0 => r * BlockSize = 0
      BY <1>1
    <2> QED
      BY <1>1, <1>3, <2>1
  <1>5. m <= r - 1
    <2>1. m = Min({q, Max({0, r - 1})})
      BY DEF MaxReusable
    <2>2. q \in Int
      BY <1>1, SMTT(30)
    <2> HIDE DEF q, r, m
    <2>3. Max({0, r - 1}) = r - 1
      BY <1>3, <1>4, MaxOfTwo
    <2>4. m = Min({q, r - 1})
      BY <2>1, <2>3
    <2> QED
      BY <1>3, <2>2, <2>4, MinOfTwo
  <1> HIDE DEF k, m, r, q
  <1>6. k * BlockSize <= (r - 1) * BlockSize
    BY <1>1, <1>2, <1>3, <1>4, <1>5, SMTT(30)
  <1>7. k * BlockSize \in Nat /\ (r - 1) * BlockSize \in Int
    BY <1>1, <1>2, <1>3
  <1>8. k * BlockSize < prompt_len[s]
    <2> DEFINE x == k * BlockSize
               y == (r - 1) * BlockSize
    <2>1. x \in Nat /\ y \in Int /\ x <= y /\ y < prompt_len[s]
      BY <1>3, <1>6, <1>7
    <2> HIDE DEF x, y
    <2>2. x < prompt_len[s]
      BY <1>1, <2>1
    <2> QED
      BY <2>2 DEF x
  <1> QED
    BY <1>1, <1>7, <1>8 DEF cached_prefix_tokens, k

-----------------------------------------------------------------------------
(* Each action preserves the invariant.                                    *)

\* The initial state is accounted for.
LEMMA InitInv == Init => Inv
  <1> SUFFICES ASSUME Init
               PROVE  Inv
    OBVIOUS
  <1>1. BlockSize \in Nat /\ BlockSize > 0
    BY BlockSizeAssumption
  <1>2. TypeOK
    <2>1. BlockManagerTypeOK
      BY <1>1 DEF Init, BlockManagerInit, BlockManagerTypeOK, NoHash
    <2> QED
      BY <1>1, <2>1 DEF Init, TypeOK, Garbage
  <1>3. PoolConsistent
    <2>1. \A p \in Pages : Holders(p) = {}
      BY DEF Init, BlockManagerInit, Holders, Range
    <2>2. \A s \in Seqs : IsInjective(block_table[s])
      BY DEF Init, BlockManagerInit, IsInjective
    <2> QED
      BY <2>1, <2>2, FS_EmptySet DEF Init, BlockManagerInit, PoolConsistent
  <1>4. \A s \in Seqs : Accounting(s)
    BY DEF Init, BlockManagerInit, Accounting
  <1> QED
    BY <1>2, <1>3, <1>4 DEF Inv

\* A new request has its prompt and nothing else.
LEMMA AddRequestInv ==
    ASSUME Inv, NEW s \in Seqs, AddRequest(s)
    PROVE  Inv'
  <1>1. PICK prompt \in Prompts :
            /\ token_ids' = [token_ids EXCEPT ![s] = prompt]
            /\ prompt_len' = [prompt_len EXCEPT ![s] = Len(prompt)]
    BY DEF AddRequest
  <1>2. /\ status[s] = "NEW"
        /\ status' = [status EXCEPT ![s] = "ACTIVE"]
        /\ num_computed' = [num_computed EXCEPT ![s] = 0]
        /\ UNCHANGED <<poolVars, metaVars, block_table, runVars>>
    BY DEF AddRequest
  <1>3. prompt \in Seq(Tokens) /\ Len(prompt) \in Nat /\ Len(prompt) > 0
    BY PromptsAssumption
  <1>4. TypeOK'
    <2>1. /\ token_ids' \in [Seqs -> Seq(Tokens)] /\ prompt_len' \in [Seqs -> Nat]
          /\ \A r \in Seqs : prompt_len'[r] <= Len(token_ids'[r])
      BY <1>1, <1>3 DEF Inv, TypeOK, BlockManagerTypeOK
    <2>2. BlockManagerTypeOK'
      BY <1>2, <2>1 DEF Inv, TypeOK, BlockManagerTypeOK, poolVars, metaVars
    <2> QED
      BY <1>2, <2>2 DEF Inv, TypeOK, runVars
  <1>5. PoolConsistent'
    BY <1>2, PoolUnchanged DEF Inv
  <1>6. Accounting(s)'
    <2>1. block_table[s] = <<>> /\ work[s] = "idle"
      BY <1>2 DEF Inv, Accounting
    <2>2. /\ block_table'[s] = <<>> /\ work'[s] = "idle" /\ status'[s] = "ACTIVE"
          /\ prompt_len'[s] = Len(prompt) /\ token_ids'[s] = prompt /\ num_computed'[s] = 0
      BY <1>1, <1>2, <2>1 DEF Inv, TypeOK, BlockManagerTypeOK, runVars
    <2> QED
      BY <1>3, <2>2 DEF Accounting, IsPrefilling, uncomputed_tokens, num_generated
  <1>7. \A r \in Seqs \ {s} : Accounting(r)'
    BY <1>1, <1>2, AccountingElsewhere DEF Inv, TypeOK, BlockManagerTypeOK, runVars
  <1> QED
    BY <1>4, <1>5, <1>6, <1>7 DEF Inv

\* Admission reserves the prompt and the first output token.
LEMMA AdmitInv ==
    ASSUME Inv, NEW s \in Seqs, NEW chunk \in 0 .. prompt_len[s], Admit(s, chunk)
    PROVE  Inv'
  <1>1. /\ status[s] = "ACTIVE" /\ work[s] = "idle" /\ status' = status
        /\ allocate(s, 1) /\ block_table[s] = <<>>
        /\ chunk \in 0 .. prompt_len[s] - cached_prefix_tokens(s)
        /\ num_computed' = [num_computed EXCEPT ![s] = cached_prefix_tokens(s)]
        /\ query' = query /\ kv' = kv
        /\ token_ids' = token_ids /\ prompt_len' = prompt_len
    BY DEF Admit, allocate, Schedule, runVars
  <1>2. \/ chunk = 0 /\ work' = work /\ num_tokens' = num_tokens
        \/ /\ chunk > 0 /\ work' = [work EXCEPT ![s] = "scheduled"]
           /\ num_tokens' = [num_tokens EXCEPT ![s] = chunk]
    BY <1>1 DEF Admit, Schedule, runVars
  <1>3. BlockManagerTypeOK /\ PoolConsistent
    BY DEF Inv, TypeOK
  <1>4. /\ BlockManagerTypeOK'
        /\ Len(block_table'[s]) * BlockSize >= prompt_len[s] + 1
        /\ \A r \in Seqs \ {s} : block_table'[r] = block_table[r]
    BY <1>1, <1>3, AllocateTypes
  <1>5. prompt_len[s] > 0 /\ num_computed[s] <= prompt_len[s] /\ num_computed[s] = 0
    BY <1>1 DEF Inv, Accounting
  <1>6. cached_prefix_tokens(s) \in 0 .. prompt_len[s] - 1
    BY <1>3, <1>5, CachedPrefixShorter
  <1>7. prompt_len[s] \in Nat /\ chunk \in Nat /\ Len(token_ids[s]) \in Nat
    BY Counts DEF Inv
  <1>8. TypeOK'
    <2>1. work' \in [Seqs -> {"idle", "scheduled", "forwarded", "done"}]
      BY <1>2 DEF Inv, TypeOK
    <2>2. num_tokens' \in [Seqs -> Nat]
      BY <1>2, <1>7 DEF Inv, TypeOK
    <2>3. num_computed' \in [Seqs -> Nat]
      BY <1>1, <1>6 DEF Inv, TypeOK
    <2> QED
      BY <1>1, <1>4, <2>1, <2>2, <2>3 DEF Inv, TypeOK
  <1>9. PoolConsistent'
    BY <1>1, <1>3, AllocateKeepsPool
  <1>10. Accounting(s)'
    <2>1. /\ num_computed'[s] = cached_prefix_tokens(s)
          /\ work'[s] = IF chunk > 0 THEN "scheduled" ELSE "idle"
          /\ chunk > 0 => num_tokens'[s] = chunk
      BY <1>1, <1>2, <1>7 DEF Inv, TypeOK
    <2>2. num_generated(s) = 0 /\ num_generated(s)' = 0
      BY <1>1, <1>5, <1>7 DEF Inv, Accounting, IsPrefilling, uncomputed_tokens, num_generated
    <2>3. uncomputed_tokens(s)' = prompt_len[s] - cached_prefix_tokens(s) /\ IsPrefilling(s)'
      BY <1>1, <1>6, <1>7, <2>1 DEF IsPrefilling, uncomputed_tokens
    <2>4. block_table'[s] # <<>>
      BY <1>4, <1>7, BlockSizeAssumption
    <2> QED
      BY <1>1, <1>4, <1>5, <1>6, <1>7, <2>1, <2>2, <2>3, <2>4 DEF Accounting
  <1>11. \A r \in Seqs \ {s} : Accounting(r)'
    <2> SUFFICES ASSUME NEW r \in Seqs \ {s}
                 PROVE  Accounting(r)'
      OBVIOUS
    <2>1. /\ work'[r] = work[r] /\ num_tokens'[r] = num_tokens[r]
          /\ num_computed'[r] = num_computed[r]
      BY <1>1, <1>2 DEF Inv, TypeOK
    <2> QED
      BY <1>1, <1>4, <2>1, AccountingElsewhere DEF Inv
  <1> QED
    BY <1>8, <1>9, <1>10, <1>11 DEF Inv

\* A later chunk of the prompt is scheduled within what is left of it.
LEMMA SchedulePrefillInv ==
    ASSUME Inv, NEW s \in Seqs, NEW chunk \in 1 .. prompt_len[s], SchedulePrefill(s, chunk)
    PROVE  Inv'
  <1>1. /\ status[s] = "ACTIVE" /\ work[s] = "idle" /\ block_table[s] # <<>>
        /\ chunk \in 1 .. uncomputed_tokens(s)
        /\ work' = [work EXCEPT ![s] = "scheduled"]
        /\ num_tokens' = [num_tokens EXCEPT ![s] = chunk]
        /\ UNCHANGED <<bmVars, reqVars, query, kv>>
    BY DEF SchedulePrefill, Schedule
  <1>2. TypeOK'
    <2>1. BlockManagerTypeOK'
      BY <1>1 DEF Inv, TypeOK, BlockManagerTypeOK, bmVars, poolVars, metaVars
    <2> QED
      BY <1>1, <2>1 DEF Inv, TypeOK, reqVars
  <1>3. PoolConsistent'
    BY <1>1, PoolUnchanged DEF Inv, bmVars
  <1>4. Accounting(s)'
    <2>1. work'[s] = "scheduled" /\ num_tokens'[s] = chunk
      BY <1>1 DEF Inv, TypeOK
    <2>2. IsPrefilling(s)
      BY <1>1, Counts DEF Inv, IsPrefilling
    <2> QED
      BY <1>1, <2>1, <2>2 DEF Inv, Accounting, IsPrefilling, uncomputed_tokens, num_generated,
                              bmVars, reqVars
  <1>5. \A r \in Seqs \ {s} : Accounting(r)'
    BY <1>1, AccountingElsewhere DEF Inv, TypeOK, bmVars, reqVars
  <1> QED
    BY <1>2, <1>3, <1>4, <1>5 DEF Inv

\* A decode burst is scheduled with all of its slots reserved.
LEMMA ScheduleDecodeInv ==
    ASSUME Inv, NEW s \in Seqs, NEW lookahead \in 1 .. 1 + MaxDraft, ScheduleDecode(s, lookahead)
    PROVE  Inv'
  <1>1. /\ status[s] = "ACTIVE" /\ work[s] = "idle" /\ num_generated(s) > 0
        /\ may_append(s, lookahead)
        /\ work' = [work EXCEPT ![s] = "scheduled"]
        /\ num_tokens' = [num_tokens EXCEPT ![s] = lookahead]
        /\ UNCHANGED <<reqVars, query, kv>>
    BY DEF ScheduleDecode, Schedule
  <1>2. token_ids' = token_ids /\ prompt_len' = prompt_len
    BY <1>1 DEF may_append
  <1>3. lookahead \in Nat /\ lookahead > 0
    BY MaxDraftAssumption
  <1>4. BlockManagerTypeOK /\ PoolConsistent
    BY DEF Inv, TypeOK
  <1>5. /\ BlockManagerTypeOK'
        /\ Len(token_ids[s]) + lookahead <= Len(block_table'[s]) * BlockSize
        /\ Len(block_table'[s]) >= Len(block_table[s])
        /\ \A r \in Seqs \ {s} : block_table'[r] = block_table[r]
    BY <1>1, <1>3, <1>4, MayAppendTypes
  <1>6. TypeOK'
    BY <1>1, <1>3, <1>5 DEF Inv, TypeOK, reqVars
  <1>7. PoolConsistent'
    BY <1>1, <1>3, <1>4, MayAppendKeepsPool
  <1>8. Accounting(s)'
    <2>1. work'[s] = "scheduled" /\ num_tokens'[s] = lookahead
      BY <1>1 DEF Inv, TypeOK
    <2>2. /\ ~ IsPrefilling(s) /\ block_table[s] # <<>>
          /\ prompt_len[s] > 0 /\ num_computed[s] <= prompt_len[s]
      BY <1>1, Counts DEF Inv, Accounting, IsPrefilling, uncomputed_tokens
    <2>3. prompt_len[s] + 1 <= Len(token_ids[s]) + lookahead /\ Len(token_ids[s]) + lookahead > 0
      BY <1>3, Counts DEF Inv
    <2>4. Len(block_table'[s]) * BlockSize \in Nat /\ block_table'[s] \in Seq(Pages)
      BY <1>5, BlockSizeAssumption DEF BlockManagerTypeOK
    <2>5. block_table'[s] # <<>>
      BY <1>5, <2>3, BlockSizeAssumption
    <2>6. prompt_len[s] + 1 <= Len(block_table'[s]) * BlockSize
      <3>1. prompt_len[s] \in Nat /\ Len(token_ids[s]) \in Nat
        BY Counts DEF Inv
      <3> QED
        BY <1>3, <1>5, <2>3, <2>4, <3>1
    <2> QED
      BY <1>1, <1>2, <1>5, <2>1, <2>2, <2>5, <2>6
      DEF Accounting, IsPrefilling, uncomputed_tokens, num_generated, reqVars
  <1>9. \A r \in Seqs \ {s} : Accounting(r)'
    BY <1>1, <1>2, <1>5, AccountingElsewhere DEF Inv, TypeOK, reqVars
  <1> QED
    BY <1>6, <1>7, <1>8, <1>9 DEF Inv

\* The tokens a scheduled request runs: its prompt chunk, or its last token and
\* the drafts.
Query(s, drafts) ==
    IF IsPrefilling(s)
    THEN SubSeq(token_ids[s], Start(s) + 1, Min({Start(s) + num_tokens[s], prompt_len[s]}))
    ELSE <<token_ids[s][Start(s) + 1]>> \o drafts

\* The query of a forward fits the scheduled tokens.
LEMMA QueryType ==
    ASSUME Inv, NEW s \in Seqs, NEW drafts \in Seq(Tokens), work[s] = "scheduled",
           IF IsPrefilling(s) THEN drafts = <<>> ELSE Len(drafts) < num_tokens[s]
    PROVE  /\ Query(s, drafts) \in Seq(Tokens)
           /\ IF IsPrefilling(s) THEN Len(Query(s, drafts)) = num_tokens[s]
                                 ELSE Len(Query(s, drafts)) \in 1 .. num_tokens[s]
           /\ Start(s) \in 0 .. Len(token_ids[s])
  <1>1. status[s] = "ACTIVE" /\ Accounting(s)
    BY DEF Inv, Accounting, TypeOK
  <1>2. token_ids[s] \in Seq(Tokens)
    BY DEF Inv, TypeOK, BlockManagerTypeOK
  <1>3. CASE IsPrefilling(s)
    <2> DEFINE to == Min({Start(s) + num_tokens[s], prompt_len[s]})
    <2>1. /\ Start(s) = num_computed[s] /\ num_tokens[s] \in Nat
          /\ num_tokens[s] >= 1 /\ num_tokens[s] <= prompt_len[s] - num_computed[s]
      BY <1>1, <1>3, Counts DEF Inv, Accounting, Start, uncomputed_tokens
    <2>2. Start(s) \in Nat /\ prompt_len[s] \in Nat /\ prompt_len[s] <= Len(token_ids[s])
      BY <2>1, Counts DEF Inv
    <2>3. to = Start(s) + num_tokens[s] /\ to \in Int /\ to <= Len(token_ids[s])
      <3> DEFINE end == Start(s) + num_tokens[s]
      <3>1. end \in Int /\ end <= prompt_len[s] /\ Len(token_ids[s]) \in Nat
        BY <1>2, <2>1, <2>2
      <3> HIDE DEF end
      <3>2. Min({end, prompt_len[s]}) = end
        BY <2>2, <3>1, MinOfTwo
      <3> QED
        BY <2>2, <3>1, <3>2 DEF end
    <2>4. Query(s, drafts) = SubSeq(token_ids[s], Start(s) + 1, to)
      BY <1>3 DEF Query
    <2> HIDE DEF to
    <2>5. /\ Query(s, drafts) \in Seq(Tokens)
          /\ Len(Query(s, drafts)) = IF Start(s) + 1 <= to THEN to - (Start(s) + 1) + 1 ELSE 0
      <3> DEFINE from == Start(s) + 1
      <3>1. from \in Nat \ {0} /\ to \in Int /\ to <= Len(token_ids[s])
        BY <2>2, <2>3
      <3>2. Query(s, drafts) = SubSeq(token_ids[s], from, to)
        BY <2>4
      <3> HIDE DEF from
      <3>3. /\ Query(s, drafts) \in Seq(Tokens)
            /\ Len(Query(s, drafts)) = IF from <= to THEN to - from + 1 ELSE 0
        BY <1>2, <3>1, <3>2, SubTextType
      <3> QED
        BY <3>3 DEF from
    <2>6. Start(s) + 1 <= to /\ to - (Start(s) + 1) + 1 = num_tokens[s]
      BY <2>1, <2>2, <2>3
    <2>7. Len(Query(s, drafts)) = num_tokens[s]
      BY <2>5, <2>6
    <2>8. Start(s) \in 0 .. Len(token_ids[s])
      BY <1>2, <2>1, <2>2
    <2> QED
      BY <1>3, <2>5, <2>7, <2>8
  <1>4. CASE ~ IsPrefilling(s)
    <2>1. num_generated(s) > 0 /\ num_generated(s) \in Nat
      BY <1>1, <1>4, Counts DEF Inv, Accounting
    <2>2. /\ Start(s) = Len(token_ids[s]) - 1 /\ Len(token_ids[s]) \in Nat
          /\ prompt_len[s] \in Nat /\ Len(token_ids[s]) > prompt_len[s]
      BY <1>4, <2>1, Counts DEF Inv, Start, num_generated
    <2>3. token_ids[s][Start(s) + 1] \in Tokens
      BY <1>2, <2>2
    <2>4. Query(s, drafts) = <<token_ids[s][Start(s) + 1]>> \o drafts
      BY <1>4 DEF Query
    <2>5. Query(s, drafts) \in Seq(Tokens) /\ Len(Query(s, drafts)) = 1 + Len(drafts)
      BY <2>3, <2>4
    <2> QED
      BY <1>4, <2>2, <2>5, Counts DEF Inv
  <1> QED
    BY <1>3, <1>4

\* A forward writes typed slots and nothing else.
LEMMA ForwardInv ==
    ASSUME Inv, NEW s \in Seqs, NEW drafts \in Drafts, Forward(s, drafts)
    PROVE  Inv'
  <1> DEFINE tokens == Query(s, drafts)
             start == Start(s)
             Value(i) == IF ReadsOwnText(s, start)
                         THEN SubSeq(token_ids[s], 1, start) \o SubSeq(tokens, 1, i)
                         ELSE Garbage
             values == [i \in 1 .. Len(tokens) |-> Value(i)]
             Hits(p, o) == {i \in DOMAIN values : /\ physical_block_id(s, start + i - 1) = p
                                                   /\ Offset(start + i - 1) = o}
  <1>1. /\ work[s] = "scheduled"
        /\ IF IsPrefilling(s) THEN drafts = <<>> ELSE Len(drafts) < num_tokens[s]
        /\ query' = [query EXCEPT ![s] = tokens]
        /\ work' = [work EXCEPT ![s] = "forwarded"]
        /\ UNCHANGED <<bmVars, reqVars, num_tokens>>
    BY DEF Forward, Query
  <1>2. kv' = [p \in Pages |-> [o \in 0 .. BlockSize - 1 |->
                    IF Hits(p, o) = {} THEN kv[p][o] ELSE values[Max(Hits(p, o))]]]
    BY DEF Forward, Written, Query
  <1>3. drafts \in Seq(Tokens)
    BY MaxDraftAssumption DEF Drafts
  <1>4. /\ tokens \in Seq(Tokens)
        /\ IF IsPrefilling(s) THEN Len(tokens) = num_tokens[s]
                              ELSE Len(tokens) \in 1 .. num_tokens[s]
        /\ start \in 0 .. Len(token_ids[s])
    BY <1>1, <1>3, QueryType
  <1> HIDE DEF tokens, start
  <1>5. \A i \in 1 .. Len(tokens) : Value(i) \in Seq(Tokens)
    <2> SUFFICES ASSUME NEW i \in 1 .. Len(tokens)
                 PROVE  Value(i) \in Seq(Tokens)
      OBVIOUS
    <2>1. SubSeq(tokens, 1, i) \in Seq(Tokens)
      BY <1>4, SubTextType
    <2>2. SubSeq(token_ids[s], 1, start) \in Seq(Tokens)
      <3>1. token_ids[s] \in Seq(Tokens) /\ Len(token_ids[s]) \in Nat
        BY DEF Inv, TypeOK, BlockManagerTypeOK
      <3> QED
        BY <1>4, <3>1, SubTextType
    <2> QED
      BY <2>1, <2>2 DEF Garbage
  <1>6. \A p \in Pages, o \in 0 .. BlockSize - 1 :
            Hits(p, o) # {} => values[Max(Hits(p, o))] \in Seq(Tokens)
    <2> SUFFICES ASSUME NEW p \in Pages, NEW o \in 0 .. BlockSize - 1, Hits(p, o) # {}
                 PROVE  values[Max(Hits(p, o))] \in Seq(Tokens)
      OBVIOUS
    <2>1. Hits(p, o) \in SUBSET (0 .. Len(tokens)) /\ Len(tokens) \in Nat
      BY <1>4
    <2>2. Hits(p, o) \subseteq 1 .. Len(tokens)
      OBVIOUS
    <2> HIDE DEF Hits, Value, values
    <2>3. Max(Hits(p, o)) \in Hits(p, o)
      BY <2>1, MaxOfBounded
    <2>4. values[Max(Hits(p, o))] = Value(Max(Hits(p, o)))
      BY <2>2, <2>3 DEF values
    <2> QED
      BY <1>5, <2>2, <2>3, <2>4
  <1>7. kv' \in [Pages -> [0 .. BlockSize - 1 -> Seq(Tokens)]]
    <2>1. \A p \in Pages, o \in 0 .. BlockSize - 1 : kv[p][o] \in Seq(Tokens)
      BY DEF Inv, TypeOK
    <2> HIDE DEF Hits, Value, values
    <2> QED
      BY <1>2, <1>6, <2>1
  <1>8. TypeOK'
    <2>1. BlockManagerTypeOK'
      BY <1>1 DEF Inv, TypeOK, BlockManagerTypeOK, bmVars, poolVars, metaVars
    <2>2. query' \in [Seqs -> Seq(Tokens)]
      BY <1>1, <1>4 DEF Inv, TypeOK
    <2> QED
      BY <1>1, <1>7, <2>1, <2>2 DEF Inv, TypeOK, reqVars
  <1>9. PoolConsistent'
    BY <1>1, PoolUnchanged DEF Inv, bmVars
  <1>10. Accounting(s)'
    <2>1. query'[s] = tokens /\ work'[s] = "forwarded"
      BY <1>1 DEF Inv, TypeOK
    <2>2. status[s] = "ACTIVE" /\ Accounting(s)
      BY <1>1 DEF Inv, Accounting, TypeOK
    <2> QED
      BY <1>1, <1>4, <2>1, <2>2
      DEF Accounting, IsPrefilling, uncomputed_tokens, num_generated, bmVars, reqVars
  <1>11. \A r \in Seqs \ {s} : Accounting(r)'
    BY <1>1, AccountingElsewhere DEF Inv, TypeOK, bmVars, reqVars
  <1> QED
    BY <1>8, <1>9, <1>10, <1>11 DEF Inv

\* The written range and the tokens recorded after it are reserved.
LEMMA ForwardedReserved ==
    ASSUME Inv, NEW s \in Seqs, work[s] = "forwarded"
    PROVE  /\ status[s] = "ACTIVE"
           /\ Start(s) \in Nat /\ Len(query[s]) \in Nat /\ Len(query[s]) > 0
           /\ IsPrefilling(s) =>
                /\ Start(s) = num_computed[s] /\ Len(query[s]) = num_tokens[s]
                /\ num_generated(s) = 0 /\ Len(token_ids[s]) = prompt_len[s]
                /\ Start(s) + Len(query[s]) <= prompt_len[s]
                /\ Len(token_ids[s]) + 1 <= Len(block_table[s]) * BlockSize
           /\ ~ IsPrefilling(s) =>
                /\ Start(s) = Len(token_ids[s]) - 1 /\ num_generated(s) > 0
                /\ Len(query[s]) <= num_tokens[s]
                /\ Len(token_ids[s]) + Len(query[s]) <= Len(block_table[s]) * BlockSize
           /\ Start(s) + Len(query[s]) <= Len(block_table[s]) * BlockSize
  <1> DEFINE room == Len(block_table[s]) * BlockSize
  <1>1. status[s] = "ACTIVE" /\ Accounting(s) /\ block_table[s] # <<>>
    BY DEF Inv, Accounting, TypeOK
  <1>2. /\ prompt_len[s] \in Nat /\ num_computed[s] \in Nat /\ num_tokens[s] \in Nat
        /\ Len(token_ids[s]) \in Nat /\ Len(query[s]) \in Nat
        /\ prompt_len[s] <= Len(token_ids[s])
        /\ room \in Nat
    BY Counts DEF Inv
  <1>3. /\ prompt_len[s] + 1 <= room
        /\ ~ IsPrefilling(s) => Len(token_ids[s]) + num_tokens[s] <= room
    BY <1>1 DEF Accounting
  <1> HIDE DEF room
  <1>4. CASE IsPrefilling(s)
    <2>1. /\ Start(s) = num_computed[s] /\ Len(query[s]) = num_tokens[s]
          /\ num_generated(s) = 0 /\ num_tokens[s] \in 1 .. uncomputed_tokens(s)
      BY <1>1, <1>4 DEF Accounting, Start
    <2>2. /\ Start(s) \in Nat /\ Len(query[s]) > 0 /\ Len(token_ids[s]) = prompt_len[s]
          /\ Start(s) + Len(query[s]) <= prompt_len[s]
          /\ Len(token_ids[s]) + 1 <= room
          /\ Start(s) + Len(query[s]) <= room
      BY <1>2, <1>3, <2>1 DEF num_generated, uncomputed_tokens
    <2> QED
      BY <1>1, <1>2, <1>4, <2>1, <2>2 DEF room
  <1>5. CASE ~ IsPrefilling(s)
    <2>1. /\ Start(s) = Len(token_ids[s]) - 1 /\ num_generated(s) # 0
          /\ Len(query[s]) \in 1 .. num_tokens[s]
      BY <1>1, <1>5 DEF Accounting, Start
    <2>2. Len(query[s]) > 0 /\ Len(query[s]) <= num_tokens[s]
      BY <1>2, <2>1
    <2>3. num_generated(s) > 0
      BY <1>2, <2>1 DEF num_generated
    <2>4. Len(token_ids[s]) > 0
      BY <1>2, <2>3 DEF num_generated
    <2>5. Len(token_ids[s]) + Len(query[s]) <= room /\ Start(s) + Len(query[s]) <= room
      <3>1. Len(token_ids[s]) + num_tokens[s] <= room
        BY <1>3, <1>5
      <3>2. Start(s) = Len(token_ids[s]) - 1
        BY <2>1
      <3> DEFINE l == Len(token_ids[s])
                 m == Len(query[s])
      <3>3. l \in Nat /\ m \in Nat /\ num_tokens[s] \in Nat /\ room \in Nat
        BY <1>2
      <3>4. l + num_tokens[s] <= room /\ m <= num_tokens[s]
        BY <2>2, <3>1
      <3> HIDE DEF l, m
      <3>5. l + m <= room /\ (l - 1) + m <= room
        BY <3>3, <3>4
      <3> QED
        BY <3>2, <3>5 DEF l, m
    <2>6. Start(s) \in Nat
      BY <1>2, <2>1, <2>4
    <2> QED
      BY <1>1, <1>2, <1>5, <2>1, <2>2, <2>3, <2>5, <2>6 DEF room
  <1> QED
    BY <1>4, <1>5

\* Ordinary execution: the range is marked, then one token may be recorded.
LEMMA CommitInv ==
    ASSUME Inv, NEW s \in Seqs, Commit(s)
    PROVE  Inv'
  <1> DEFINE start == Start(s)
             n == Len(query[s])
             ends == start + n >= prompt_len[s]
  <1>1. /\ work[s] = "forwarded" /\ (IsPrefilling(s) \/ n = 1)
        /\ mark_computed(s, start, n, block_hash)
        /\ work' = [work EXCEPT ![s] = "done"]
        /\ query' = [query EXCEPT ![s] = <<>>]
        /\ UNCHANGED <<poolVars, block_table, reqVars, num_tokens, kv>>
    BY DEF Commit, Committed
  <1>2. IF ends THEN \E token \in Tokens : append_and_record(s, <<token>>)
                ELSE UNCHANGED <<token_ids, prompt_len, block_tokens, block_hash>>
    BY DEF Commit
  <1>3. BlockManagerTypeOK /\ PoolConsistent
    BY DEF Inv, TypeOK
  <1>4. /\ status[s] = "ACTIVE" /\ start \in Nat /\ n \in Nat /\ n > 0
        /\ start + n <= Len(block_table[s]) * BlockSize
        /\ Len(token_ids[s]) + 1 <= Len(block_table[s]) * BlockSize
    <2>1. Len(block_table[s]) * BlockSize \in Nat /\ Len(token_ids[s]) \in Nat
      BY Counts DEF Inv
    <2> DEFINE room == Len(block_table[s]) * BlockSize
    <2>2. /\ status[s] = "ACTIVE" /\ start \in Nat /\ n \in Nat /\ n > 0 /\ start + n <= room
          /\ IsPrefilling(s) => Len(token_ids[s]) + 1 <= room
          /\ ~ IsPrefilling(s) => Len(token_ids[s]) + n <= room
      BY <1>1, ForwardedReserved
    <2> HIDE DEF room, start, n
    <2>3. Len(token_ids[s]) + 1 <= room
      BY <1>1, <2>2
    <2> QED
      BY <2>2, <2>3 DEF room
  <1>5. /\ computed_tokens' \in [Pages -> 0 .. BlockSize]
        /\ \A h \in DOMAIN hash_to_block_id' : h \in Seq(Tokens) /\ hash_to_block_id'[h] \in Pages
    <2>1. block_hash \in [Pages -> Seq(Tokens)]
      BY <1>3 DEF BlockManagerTypeOK
    <2> HIDE DEF start, n
    <2> QED
      BY <1>1, <1>3, <1>4, <2>1, MarkTypes DEF n
  <1>6. /\ token_ids' \in [Seqs -> Seq(Tokens)]
        /\ Len(token_ids'[s]) = Len(token_ids[s]) + (IF ends THEN 1 ELSE 0)
        /\ \A r \in Seqs \ {s} : token_ids'[r] = token_ids[r]
        /\ prompt_len' = prompt_len
        /\ block_tokens' \in [Pages -> Seq(Tokens)] /\ block_hash' \in [Pages -> Seq(Tokens)]
    <2>1. token_ids \in [Seqs -> Seq(Tokens)] /\ Len(token_ids[s]) \in Nat
      BY <1>3 DEF BlockManagerTypeOK
    <2>2. CASE ends
      <3>1. PICK token \in Tokens : append_and_record(s, <<token>>)
        BY <1>2, <2>2
      <3>2. <<token>> \in Seq(Tokens) /\ Len(<<token>>) = 1
        OBVIOUS
      <3>3. /\ token_ids' \in [Seqs -> Seq(Tokens)]
            /\ token_ids' = [token_ids EXCEPT ![s] = @ \o <<token>>]
            /\ Len(token_ids'[s]) = Len(token_ids[s]) + Len(<<token>>)
            /\ prompt_len' = prompt_len
            /\ block_tokens' \in [Pages -> Seq(Tokens)]
            /\ block_hash' \in [Pages -> Seq(Tokens)]
        <4> DEFINE tokens == <<token>>
        <4>1. /\ tokens \in Seq(Tokens) /\ Len(tokens) = 1 /\ append_and_record(s, tokens)
              /\ Len(token_ids[s]) + Len(tokens) <= Len(block_table[s]) * BlockSize
              /\ Len(tokens) > 0
          BY <1>4, <3>1, <3>2
        <4> HIDE DEF tokens
        <4>2. /\ token_ids' \in [Seqs -> Seq(Tokens)]
              /\ token_ids' = [token_ids EXCEPT ![s] = @ \o tokens]
              /\ Len(token_ids'[s]) = Len(token_ids[s]) + Len(tokens)
              /\ prompt_len' = prompt_len
              /\ block_tokens' \in [Pages -> Seq(Tokens)]
              /\ block_hash' \in [Pages -> Seq(Tokens)]
          BY <1>3, <4>1, RecordTypes
        <4> QED
          BY <4>2 DEF tokens
      <3> HIDE DEF ends
      <3> QED
        BY <2>1, <2>2, <3>2, <3>3
    <2>3. CASE ~ ends
      BY <1>2, <1>3, <2>1, <2>3 DEF BlockManagerTypeOK
    <2> QED
      BY <2>2, <2>3
  <1>7. TypeOK'
    <2>1. \A r \in Seqs : prompt_len'[r] <= Len(token_ids'[r])
      <3> SUFFICES ASSUME NEW r \in Seqs
                   PROVE  prompt_len[r] <= Len(token_ids'[r])
        BY <1>6
      <3>1. prompt_len[r] \in Nat /\ Len(token_ids[r]) \in Nat /\ prompt_len[r] <= Len(token_ids[r])
        BY Counts DEF Inv
      <3>2. r # s => token_ids'[r] = token_ids[r]
        BY <1>6
      <3>3. Len(token_ids'[s]) >= Len(token_ids[s])
        <4>1. Len(token_ids[s]) \in Nat
          BY Counts DEF Inv
        <4>2. CASE ends
          BY <1>6, <4>1, <4>2
        <4>3. CASE ~ ends
          BY <1>6, <4>1, <4>3
        <4> QED
          BY <4>2, <4>3
      <3>4. Len(token_ids'[r]) \in Nat
        BY <1>6
      <3> QED
        BY <3>1, <3>2, <3>3, <3>4
    <2>2. BlockManagerTypeOK'
      BY <1>1, <1>3, <1>5, <1>6, <2>1 DEF BlockManagerTypeOK, poolVars
    <2> QED
      BY <1>1, <2>2 DEF Inv, TypeOK, reqVars
  <1>8. PoolConsistent'
    BY <1>1, <1>3, PoolUnchanged
  <1>9. Accounting(s)'
    <2>1. work'[s] = "done" /\ num_tokens'[s] = num_tokens[s] /\ num_computed'[s] = num_computed[s]
      BY <1>1 DEF Inv, TypeOK, reqVars
    <2>2. IsPrefilling(s)' = IsPrefilling(s) /\ uncomputed_tokens(s)' = uncomputed_tokens(s)
      BY <1>6, <2>1 DEF IsPrefilling, uncomputed_tokens
    <2>3. num_generated(s)' = num_generated(s) + (IF ends THEN 1 ELSE 0)
      <3>1. Len(token_ids[s]) \in Nat /\ prompt_len[s] \in Nat
        BY Counts DEF Inv
      <3>2. prompt_len'[s] = prompt_len[s]
        BY <1>6
      <3>3. CASE ends
        <4>1. Len(token_ids'[s]) = Len(token_ids[s]) + 1
          BY <1>6, <3>3
        <4> QED
          BY <3>1, <3>2, <3>3, <4>1 DEF num_generated
      <3>4. CASE ~ ends
        <4>1. Len(token_ids'[s]) = Len(token_ids[s])
          BY <1>6, <3>1, <3>4
        <4> QED
          BY <3>1, <3>2, <3>4, <4>1 DEF num_generated
      <3> QED
        BY <3>3, <3>4
    <2>4. Accounting(s)
      BY DEF Inv
    <2>5. /\ prompt_len[s] \in Nat /\ num_computed[s] \in Nat /\ num_tokens[s] \in Nat
          /\ num_generated(s) \in Nat
      BY Counts DEF Inv
    <2>6. IsPrefilling(s) =>
             (num_generated(s)' = 0 <=> num_tokens[s] < uncomputed_tokens(s))
      <3> SUFFICES ASSUME IsPrefilling(s)
                   PROVE  num_generated(s)' = 0 <=> num_tokens[s] < uncomputed_tokens(s)
        OBVIOUS
      <3>1. start = num_computed[s] /\ n = num_tokens[s] /\ num_generated(s) = 0
        BY <1>1, ForwardedReserved
      <3>2. num_generated(s)' = 0 <=> ~ ends
        BY <2>3, <3>1
      <3>3. ends <=> num_computed[s] + num_tokens[s] >= prompt_len[s]
        BY <3>1
      <3> QED
        BY <2>5, <3>2, <3>3 DEF uncomputed_tokens
    <2>7. ~ IsPrefilling(s) => num_generated(s)' > 0
      <3>1. ~ IsPrefilling(s) => num_generated(s) > 0
        BY <1>1, ForwardedReserved
      <3> HIDE DEF ends
      <3> QED
        BY <2>3, <2>5, <3>1
    <2>8. status'[s] = "ACTIVE" /\ block_table'[s] = block_table[s] /\ prompt_len'[s] = prompt_len[s]
      BY <1>1, <1>4, <1>6 DEF reqVars
    <2>9. work[s] # "idle"
      BY <1>1
    <2> QED
      BY <1>4, <2>1, <2>2, <2>4, <2>6, <2>7, <2>8, <2>9 DEF Accounting
  <1>10. \A r \in Seqs \ {s} : Accounting(r)'
    BY <1>1, <1>6, AccountingElsewhere DEF Inv, TypeOK, reqVars
  <1> QED
    BY <1>7, <1>8, <1>9, <1>10 DEF Inv

\* Speculative execution: the accepted drafts and one token are recorded, and
\* as many positions marked.
LEMMA CommitSpeculativeInv ==
    ASSUME Inv, NEW s \in Seqs, CommitSpeculative(s)
    PROVE  Inv'
  <1> DEFINE drafts == Tail(query[s])
  <1>1. /\ work[s] = "forwarded" /\ ~ IsPrefilling(s) /\ Len(query[s]) > 1
        /\ work' = [work EXCEPT ![s] = "done"]
        /\ query' = [query EXCEPT ![s] = <<>>]
        /\ UNCHANGED <<poolVars, block_table, reqVars, num_tokens, kv>>
    BY DEF CommitSpeculative, Committed
  <1>2. PICK accepted \in 0 .. Len(drafts), token \in Tokens :
            /\ append_and_record(s, SubSeq(drafts, 1, accepted) \o <<token>>)
            /\ mark_computed(s, Start(s), accepted + 1, block_hash')
    BY DEF CommitSpeculative
  <1>3. BlockManagerTypeOK /\ PoolConsistent
    BY DEF Inv, TypeOK
  <1>4. drafts \in Seq(Tokens) /\ Len(drafts) = Len(query[s]) - 1
    <2>1. query[s] \in Seq(Tokens)
      BY DEF Inv, TypeOK
    <2>2. query[s] # <<>>
      BY <1>1, <2>1
    <2> QED
      BY <2>1, <2>2, HeadTailProperties
  <1> HIDE DEF drafts
  <1> DEFINE tokens == SubSeq(drafts, 1, accepted) \o <<token>>
  <1>5. tokens \in Seq(Tokens) /\ Len(tokens) = accepted + 1 /\ accepted \in Nat
    <2>1. /\ SubSeq(drafts, 1, accepted) \in Seq(Tokens)
          /\ Len(SubSeq(drafts, 1, accepted)) = accepted
      BY <1>4, SubTextType
    <2> QED
      BY <1>4, <2>1
  <1>6. append_and_record(s, tokens)
    BY <1>2
  <1> HIDE DEF tokens
  <1>7. /\ status[s] = "ACTIVE" /\ Start(s) \in Nat /\ num_generated(s) > 0
        /\ Start(s) + (accepted + 1) <= Len(block_table[s]) * BlockSize
        /\ Len(token_ids[s]) + Len(tokens) <= Len(block_table[s]) * BlockSize
    <2> DEFINE room == Len(block_table[s]) * BlockSize
               n == Len(query[s])
               l == Len(token_ids[s])
    <2>1. /\ status[s] = "ACTIVE" /\ Start(s) \in Nat /\ num_generated(s) > 0
          /\ Start(s) = l - 1 /\ l + n <= room
      BY <1>1, ForwardedReserved
    <2>2. room \in Nat /\ n \in Nat /\ l \in Nat
      BY Counts DEF Inv
    <2>3. accepted + 1 <= n
      BY <1>4, <2>2
    <2> HIDE DEF room, n, l
    <2>4. (l - 1) + (accepted + 1) <= room /\ l + (accepted + 1) <= room
      BY <1>5, <2>1, <2>2, <2>3
    <2> QED
      BY <1>5, <2>1, <2>4 DEF room, l
  <1>8. /\ token_ids' \in [Seqs -> Seq(Tokens)]
        /\ token_ids' = [token_ids EXCEPT ![s] = @ \o tokens]
        /\ Len(token_ids'[s]) = Len(token_ids[s]) + Len(tokens)
        /\ prompt_len' = prompt_len
        /\ block_tokens' \in [Pages -> Seq(Tokens)]
        /\ block_hash' \in [Pages -> Seq(Tokens)]
    <2>1. Len(tokens) > 0
      BY <1>5
    <2> QED
      BY <1>3, <1>5, <1>6, <1>7, <2>1, RecordTypes
  <1>9. /\ computed_tokens' \in [Pages -> 0 .. BlockSize]
        /\ \A h \in DOMAIN hash_to_block_id' : h \in Seq(Tokens) /\ hash_to_block_id'[h] \in Pages
    <2> DEFINE n == accepted + 1
               hashes == block_hash'
    <2>1. /\ n \in Nat /\ hashes \in [Pages -> Seq(Tokens)]
          /\ Start(s) + n <= Len(block_table[s]) * BlockSize
          /\ mark_computed(s, Start(s), n, hashes)
      BY <1>2, <1>5, <1>7, <1>8
    <2> HIDE DEF n, hashes
    <2> QED
      BY <1>3, <1>7, <2>1, MarkTypes
  <1>10. \A r \in Seqs \ {s} : token_ids'[r] = token_ids[r]
    BY <1>3, <1>8 DEF BlockManagerTypeOK
  <1>11. TypeOK'
    <2>1. \A r \in Seqs : prompt_len'[r] <= Len(token_ids'[r])
      <3> SUFFICES ASSUME NEW r \in Seqs
                   PROVE  prompt_len[r] <= Len(token_ids'[r])
        BY <1>8
      <3>1. prompt_len[r] \in Nat /\ Len(token_ids[r]) \in Nat /\ prompt_len[r] <= Len(token_ids[r])
        BY Counts DEF Inv
      <3>2. r # s => token_ids'[r] = token_ids[r]
        BY <1>10
      <3>3. Len(token_ids'[s]) >= Len(token_ids[s])
        <4>1. Len(token_ids[s]) \in Nat
          BY Counts DEF Inv
        <4> QED
          BY <1>5, <1>8, <4>1
      <3>4. Len(token_ids'[r]) \in Nat
        BY <1>8
      <3> QED
        BY <3>1, <3>2, <3>3, <3>4
    <2>2. BlockManagerTypeOK'
      BY <1>1, <1>3, <1>8, <1>9, <2>1 DEF BlockManagerTypeOK, poolVars
    <2> QED
      BY <1>1, <2>2 DEF Inv, TypeOK, reqVars
  <1>12. PoolConsistent'
    BY <1>1, <1>3, PoolUnchanged
  <1>13. Accounting(s)'
    <2>1. work'[s] = "done"
      BY <1>1 DEF Inv, TypeOK
    <2>2. ~ IsPrefilling(s)'
      BY <1>1, <1>8 DEF IsPrefilling, uncomputed_tokens, reqVars
    <2>3. num_generated(s)' > 0
      <3>1. Len(token_ids[s]) \in Nat /\ prompt_len[s] \in Nat
        BY Counts DEF Inv
      <3> QED
        BY <1>5, <1>7, <1>8, <3>1 DEF num_generated
    <2>4. Accounting(s)
      BY DEF Inv
    <2>5. /\ status'[s] = "ACTIVE" /\ block_table'[s] = block_table[s]
          /\ prompt_len'[s] = prompt_len[s] /\ num_computed'[s] = num_computed[s]
      BY <1>1, <1>7, <1>8 DEF reqVars
    <2>6. work[s] # "idle"
      BY <1>1
    <2> QED
      BY <1>7, <2>1, <2>2, <2>3, <2>4, <2>5, <2>6 DEF Accounting
  <1>14. \A r \in Seqs \ {s} : Accounting(r)'
    BY <1>1, <1>8, <1>10, AccountingElsewhere DEF Inv, TypeOK, reqVars
  <1> QED
    BY <1>11, <1>12, <1>13, <1>14 DEF Inv

\* A request without pages and without work, whose life is over.
LEMMA AccountingEnded ==
    ASSUME NEW s \in Seqs, status'[s] # "ACTIVE", block_table'[s] = <<>>, work'[s] = "idle"
    PROVE  Accounting(s)'
  BY DEF Accounting

\* The end of a step moves the prompt on, or returns the pages.
LEMMA PostprocessInv ==
    ASSUME Inv, NEW s \in Seqs, NEW finish \in BOOLEAN, Postprocess(s, finish)
    PROVE  Inv'
  <1> DEFINE computed == IF IsPrefilling(s) THEN num_computed[s] + num_tokens[s]
                                            ELSE num_computed[s]
  <1>1. /\ work[s] = "done"
        /\ num_computed' = [num_computed EXCEPT ![s] = computed]
        /\ work' = [work EXCEPT ![s] = "idle"]
        /\ num_tokens' = [num_tokens EXCEPT ![s] = 0]
        /\ query' = [query EXCEPT ![s] = <<>>]
        /\ UNCHANGED <<metaVars, token_ids, prompt_len, kv>>
    BY DEF Postprocess, ReleaseSlot
  <1>2. IF finish THEN status' = [status EXCEPT ![s] = "FINISHED"] /\ deallocate(s)
                  ELSE UNCHANGED <<status, poolVars, block_table>>
    BY DEF Postprocess
  <1>3. BlockManagerTypeOK /\ PoolConsistent
    BY DEF Inv, TypeOK
  <1>4. status[s] = "ACTIVE" /\ Accounting(s)
    BY <1>1 DEF Inv, Accounting, TypeOK
  <1>5. /\ prompt_len[s] \in Nat /\ num_computed[s] \in Nat /\ num_tokens[s] \in Nat
        /\ num_computed[s] <= prompt_len[s] /\ computed \in Nat
        /\ IsPrefilling(s) => num_tokens[s] <= prompt_len[s] - num_computed[s]
    <2>1. prompt_len[s] \in Nat /\ num_computed[s] \in Nat /\ num_tokens[s] \in Nat
      BY Counts DEF Inv
    <2> QED
      BY <1>1, <1>4, <2>1 DEF Accounting, uncomputed_tokens
  <1>6. /\ ref_count' \in [Pages -> Nat] /\ free_block_ids' \subseteq Pages
        /\ used_block_ids' \subseteq Pages /\ block_table' \in [Seqs -> Seq(Pages)]
        /\ \A r \in Seqs \ {s} : block_table'[r] = block_table[r]
    <2>1. CASE finish
      <3>1. deallocate(s)
        BY <1>2, <2>1
      <3> QED
        BY <1>3, <3>1, DeallocateTypes DEF BlockManagerTypeOK
    <2>2. CASE ~ finish
      BY <1>2, <1>3, <2>2 DEF BlockManagerTypeOK, poolVars
    <2> QED
      BY <2>1, <2>2
  <1>7. TypeOK'
    <2>1. BlockManagerTypeOK'
      BY <1>1, <1>3, <1>6 DEF BlockManagerTypeOK, metaVars
    <2>2. status' \in [Seqs -> {"NEW", "ACTIVE", "FINISHED"}]
      BY <1>2 DEF Inv, TypeOK
    <2>3. num_computed' \in [Seqs -> Nat]
      <3> HIDE DEF computed
      <3> QED
        BY <1>1, <1>5 DEF Inv, TypeOK
    <2> QED
      BY <1>1, <2>1, <2>2, <2>3 DEF Inv, TypeOK
  <1>8. PoolConsistent'
    <2>1. CASE finish
      BY <1>2, <1>3, <2>1, DeallocateKeepsPool
    <2>2. CASE ~ finish
      BY <1>2, <1>3, <2>2, PoolUnchanged
    <2> QED
      BY <2>1, <2>2
  <1>9. Accounting(s)'
    <2>1. work'[s] = "idle" /\ num_computed'[s] = computed
      <3> HIDE DEF computed
      <3> QED
        BY <1>1 DEF Inv, TypeOK
    <2>2. CASE finish
      <3>1. status'[s] # "ACTIVE" /\ deallocate(s)
        BY <1>2, <2>2 DEF Inv, TypeOK
      <3>2. block_table'[s] = <<>>
        BY <1>3, <3>1, DeallocateTypes DEF BlockManagerTypeOK
      <3> QED
        BY <2>1, <3>1, <3>2, AccountingEnded
    <2>3. CASE ~ finish
      <3>1. /\ status'[s] = "ACTIVE" /\ block_table'[s] = block_table[s]
            /\ prompt_len'[s] = prompt_len[s] /\ token_ids'[s] = token_ids[s]
        BY <1>1, <1>2, <1>4, <2>3
      <3>2. num_generated(s)' = num_generated(s) /\ num_generated(s) \in Nat
        BY <3>1, Counts DEF Inv, num_generated
      <3>3. IsPrefilling(s)' <=> computed < prompt_len[s]
        <4> HIDE DEF computed
        <4> QED
          BY <1>5, <2>1, <3>1 DEF IsPrefilling, uncomputed_tokens
      <3>4. computed <= prompt_len[s]
        BY <1>5
      <3>5. computed < prompt_len[s] <=> num_generated(s) = 0
        <4>1. CASE IsPrefilling(s)
          <5>1. num_generated(s) = 0 <=> num_tokens[s] < uncomputed_tokens(s)
            BY <1>1, <1>4, <4>1 DEF Accounting
          <5> QED
            BY <1>5, <4>1, <5>1 DEF uncomputed_tokens
        <4>2. CASE ~ IsPrefilling(s)
          <5>1. num_generated(s) > 0
            BY <1>1, <1>4, <4>2 DEF Accounting
          <5> QED
            BY <1>5, <3>2, <4>2, <5>1 DEF IsPrefilling, uncomputed_tokens
        <4> QED
          BY <4>1, <4>2
      <3> HIDE DEF computed
      <3>6. prompt_len[s] > 0 /\ block_table[s] # <<>>
              /\ prompt_len[s] + 1 <= Len(block_table[s]) * BlockSize
        BY <1>1, <1>4 DEF Accounting
      <3> QED
        BY <2>1, <3>1, <3>2, <3>3, <3>4, <3>5, <3>6 DEF Accounting
    <2> QED
      BY <2>2, <2>3
  <1>10. \A r \in Seqs \ {s} : Accounting(r)'
    <2> HIDE DEF computed
    <2>1. \A r \in Seqs \ {s} : status'[r] = status[r]
      BY <1>2 DEF Inv, TypeOK
    <2> QED
      BY <1>1, <1>6, <2>1, AccountingElsewhere DEF Inv, TypeOK
  <1> QED
    BY <1>7, <1>8, <1>9, <1>10 DEF Inv

\* A cancelled request returns its pages.
LEMMA AbortInv ==
    ASSUME Inv, NEW s \in Seqs, Abort(s)
    PROVE  Inv'
  <1>1. /\ work[s] = "idle" /\ status' = [status EXCEPT ![s] = "FINISHED"]
        /\ deallocate(s)
        /\ UNCHANGED <<metaVars, token_ids, prompt_len, num_computed, runVars>>
    BY DEF Abort
  <1>2. BlockManagerTypeOK /\ PoolConsistent
    BY DEF Inv, TypeOK
  <1>3. /\ ref_count' \in [Pages -> Nat] /\ free_block_ids' \subseteq Pages
        /\ used_block_ids' \subseteq Pages /\ block_table' \in [Seqs -> Seq(Pages)]
        /\ block_table' = [block_table EXCEPT ![s] = <<>>]
    BY <1>1, <1>2, DeallocateTypes
  <1>4. TypeOK'
    <2>1. BlockManagerTypeOK'
      BY <1>1, <1>2, <1>3 DEF BlockManagerTypeOK, metaVars
    <2> QED
      BY <1>1, <2>1 DEF Inv, TypeOK, runVars
  <1>5. PoolConsistent'
    BY <1>1, <1>2, DeallocateKeepsPool
  <1>6. Accounting(s)'
    <2>1. status'[s] # "ACTIVE" /\ block_table'[s] = <<>> /\ work'[s] = "idle"
      BY <1>1, <1>2, <1>3 DEF Inv, TypeOK, BlockManagerTypeOK, runVars
    <2> QED
      BY <2>1, AccountingEnded
  <1>7. \A r \in Seqs \ {s} : Accounting(r)'
    BY <1>1, <1>3, AccountingElsewhere DEF Inv, TypeOK, BlockManagerTypeOK, runVars
  <1> QED
    BY <1>4, <1>5, <1>6, <1>7 DEF Inv

\* A failed request returns its pages too; what a torn forward leaves in them
\* is typed.
LEMMA FailInv ==
    ASSUME Inv, NEW s \in Seqs, NEW torn \in BOOLEAN, Fail(s, torn)
    PROVE  Inv'
  <1> DEFINE values == [i \in 1 .. num_tokens[s] |-> Garbage]
             Hits(p, o) == {i \in DOMAIN values :
                                /\ physical_block_id(s, Start(s) + i - 1) = p
                                /\ Offset(Start(s) + i - 1) = o}
  <1>1. /\ hash_to_block_id' = IndexWithout(Range(block_table[s]))
        /\ status' = [status EXCEPT ![s] = "FINISHED"]
        /\ deallocate(s)
        /\ work' = [work EXCEPT ![s] = "idle"]
        /\ num_tokens' = [num_tokens EXCEPT ![s] = 0]
        /\ query' = [query EXCEPT ![s] = <<>>]
        /\ UNCHANGED <<block_hash, block_tokens, computed_tokens, token_ids,
                       prompt_len, num_computed>>
    BY DEF Fail, ReleaseSlot
  <1>2. BlockManagerTypeOK /\ PoolConsistent
    BY DEF Inv, TypeOK
  <1>3. /\ ref_count' \in [Pages -> Nat] /\ free_block_ids' \subseteq Pages
        /\ used_block_ids' \subseteq Pages /\ block_table' \in [Seqs -> Seq(Pages)]
        /\ block_table' = [block_table EXCEPT ![s] = <<>>]
    BY <1>1, <1>2, DeallocateTypes
  <1>4. kv' \in [Pages -> [0 .. BlockSize - 1 -> Seq(Tokens)]]
    <2> HIDE DEF Hits
    <2>1. kv \in [Pages -> [0 .. BlockSize - 1 -> Seq(Tokens)]]
      BY DEF Inv, TypeOK
    <2>2. CASE torn
      <3>1. kv' = [p \in Pages |-> [o \in 0 .. BlockSize - 1 |->
                        IF Hits(p, o) = {} THEN kv[p][o] ELSE values[Max(Hits(p, o))]]]
        BY <2>2 DEF Fail, Written, Hits
      <3>2. \A p \in Pages, o \in 0 .. BlockSize - 1 :
                (IF Hits(p, o) = {} THEN kv[p][o] ELSE values[Max(Hits(p, o))]) \in Seq(Tokens)
        <4>1. \A p \in Pages, o \in 0 .. BlockSize - 1 : kv[p][o] \in Seq(Tokens)
          BY <2>1
        <4>2. ASSUME NEW p \in Pages, NEW o \in 0 .. BlockSize - 1, Hits(p, o) # {}
              PROVE  values[Max(Hits(p, o))] \in Seq(Tokens)
          <5>1. Hits(p, o) \in SUBSET (0 .. num_tokens[s]) /\ num_tokens[s] \in Nat
            BY DEF Inv, TypeOK, Hits
          <5>2. Max(Hits(p, o)) \in Hits(p, o)
            BY <4>2, <5>1, MaxOfBounded
          <5>3. Max(Hits(p, o)) \in 1 .. num_tokens[s]
            BY <5>2 DEF Hits
          <5> QED
            BY <5>3 DEF values, Garbage
        <4> HIDE DEF values
        <4> QED
          BY <4>1, <4>2
      <3> QED
        BY <3>1, <3>2
    <2>3. CASE ~ torn
      BY <2>1, <2>3 DEF Fail
    <2> QED
      BY <2>2, <2>3
  <1>5. TypeOK'
    <2>1. \A h \in DOMAIN hash_to_block_id' : h \in Seq(Tokens) /\ hash_to_block_id'[h] \in Pages
      BY <1>1, <1>2, EvictionShrinks DEF BlockManagerTypeOK
    <2>2. BlockManagerTypeOK'
      BY <1>1, <1>2, <1>3, <2>1 DEF BlockManagerTypeOK
    <2> QED
      BY <1>1, <1>4, <2>2 DEF Inv, TypeOK
  <1>6. PoolConsistent'
    BY <1>1, <1>2, DeallocateKeepsPool
  <1>7. Accounting(s)'
    <2>1. status'[s] # "ACTIVE" /\ block_table'[s] = <<>> /\ work'[s] = "idle"
      BY <1>1, <1>2, <1>3 DEF Inv, TypeOK, BlockManagerTypeOK
    <2> QED
      BY <2>1, AccountingEnded
  <1>8. \A r \in Seqs \ {s} : Accounting(r)'
    BY <1>1, <1>3, AccountingElsewhere DEF Inv, TypeOK, BlockManagerTypeOK
  <1> QED
    BY <1>5, <1>6, <1>7, <1>8 DEF Inv

\* A forgotten request leaves nothing behind.
LEMMA ForgetInv ==
    ASSUME Inv, NEW s \in Seqs, Forget(s)
    PROVE  Inv'
  <1>1. /\ status[s] = "FINISHED"
        /\ status' = [status EXCEPT ![s] = "NEW"]
        /\ token_ids' = [token_ids EXCEPT ![s] = <<>>]
        /\ prompt_len' = [prompt_len EXCEPT ![s] = 0]
        /\ num_computed' = [num_computed EXCEPT ![s] = 0]
        /\ UNCHANGED <<poolVars, metaVars, block_table, runVars>>
    BY DEF Forget
  <1>2. TypeOK'
    <2>1. BlockManagerTypeOK'
      BY <1>1 DEF Inv, TypeOK, BlockManagerTypeOK, poolVars, metaVars
    <2> QED
      BY <1>1, <2>1 DEF Inv, TypeOK, runVars
  <1>3. PoolConsistent'
    BY <1>1, PoolUnchanged DEF Inv
  <1>4. Accounting(s)'
    <2>1. block_table[s] = <<>> /\ work[s] = "idle"
      BY <1>1 DEF Inv, Accounting
    <2>2. status'[s] # "ACTIVE" /\ block_table'[s] = <<>> /\ work'[s] = "idle"
      BY <1>1, <2>1 DEF Inv, TypeOK, runVars
    <2> QED
      BY <2>2, AccountingEnded
  <1>5. \A r \in Seqs \ {s} : Accounting(r)'
    BY <1>1, AccountingElsewhere DEF Inv, TypeOK, BlockManagerTypeOK, runVars
  <1> QED
    BY <1>2, <1>3, <1>4, <1>5 DEF Inv

-----------------------------------------------------------------------------
(* The theorems.                                                           *)

\* Every step keeps the inductive invariant.
LEMMA StepInv ==
    ASSUME Inv, [Next]_vars
    PROVE  Inv'
  <1>1. CASE Next
    <2>1. PICK s \in Seqs :
              \/ AddRequest(s)
              \/ \E chunk \in 0 .. prompt_len[s] : Admit(s, chunk)
              \/ \E chunk \in 1 .. prompt_len[s] : SchedulePrefill(s, chunk)
              \/ \E lookahead \in 1 .. 1 + MaxDraft : ScheduleDecode(s, lookahead)
              \/ \E drafts \in Drafts : Forward(s, drafts)
              \/ Commit(s)
              \/ CommitSpeculative(s)
              \/ \E finish \in BOOLEAN : Postprocess(s, finish)
              \/ Abort(s)
              \/ \E torn \in BOOLEAN : Fail(s, torn)
              \/ Forget(s)
      BY <1>1 DEF Next
    <2>2. CASE AddRequest(s)
      BY <2>2, AddRequestInv
    <2>3. CASE \E chunk \in 0 .. prompt_len[s] : Admit(s, chunk)
      BY <2>3, AdmitInv
    <2>4. CASE \E chunk \in 1 .. prompt_len[s] : SchedulePrefill(s, chunk)
      BY <2>4, SchedulePrefillInv
    <2>5. CASE \E lookahead \in 1 .. 1 + MaxDraft : ScheduleDecode(s, lookahead)
      BY <2>5, ScheduleDecodeInv
    <2>6. CASE \E drafts \in Drafts : Forward(s, drafts)
      BY <2>6, ForwardInv
    <2>7. CASE Commit(s)
      BY <2>7, CommitInv
    <2>8. CASE CommitSpeculative(s)
      BY <2>8, CommitSpeculativeInv
    <2>9. CASE \E finish \in BOOLEAN : Postprocess(s, finish)
      BY <2>9, PostprocessInv
    <2>10. CASE Abort(s)
      BY <2>10, AbortInv
    <2>11. CASE \E torn \in BOOLEAN : Fail(s, torn)
      BY <2>11, FailInv
    <2>12. CASE Forget(s)
      BY <2>12, ForgetInv
    <2> QED
      BY <2>1, <2>2, <2>3, <2>4, <2>5, <2>6, <2>7, <2>8, <2>9, <2>10, <2>11, <2>12
  <1>2. CASE UNCHANGED vars
    <2>1. TypeOK'
      BY <1>2 DEF Inv, TypeOK, BlockManagerTypeOK, vars, bmVars, poolVars, metaVars,
                  reqVars, runVars
    <2>2. PoolConsistent'
      BY <1>2, PoolUnchanged DEF Inv, vars, bmVars
    <2>3. \A r \in Seqs : Accounting(r)'
      BY <1>2, AccountingElsewhere DEF Inv, vars, bmVars, reqVars, runVars
    <2> QED
      BY <2>1, <2>2, <2>3 DEF Inv
  <1> QED
    BY <1>1, <1>2

\* Inv is an invariant of every behaviour of the paged cache.
THEOREM Invariance == Spec => []Inv
  <1>1. Init => Inv
    BY InitInv
  <1>2. Inv /\ [Next]_vars => Inv'
    BY StepInv
  <1> QED
    BY <1>1, <1>2, PTL DEF Spec

\* The state of the manager, the requests and the runner stays within its types.
THEOREM TypeCorrectness == Spec => []TypeOK
  <1>1. Inv => TypeOK
    BY DEF Inv
  <1> QED
    BY <1>1, Invariance, PTL

\* Reference counts are the numbers of holders and the pool is partitioned into
\* free and used pages: what assert_invariants tests, in every reachable state.
THEOREM OwnershipConsistent == Spec => []PoolConsistent
  <1>1. Inv => PoolConsistent
    BY DEF Inv
  <1> QED
    BY <1>1, Invariance, PTL

\* The pages in use are those of the active requests.
LEMMA NoPageLost == Inv => PagesReturned
  <1> SUFFICES ASSUME Inv
               PROVE  PagesReturned
    OBVIOUS
  <1> DEFINE held == UNION {Range(block_table[s]) : s \in {r \in Seqs : status[r] = "ACTIVE"}}
  <1>1. \A s \in Seqs : Range(block_table[s]) \subseteq Pages
    BY DEF Inv, TypeOK, BlockManagerTypeOK, Range
  <1>2. \A s \in Seqs : status[s] # "ACTIVE" => Range(block_table[s]) = {}
    BY DEF Inv, Accounting, Range
  <1>3. \A p \in Pages : p \in used_block_ids <=> Holders(p) # {}
    <2> SUFFICES ASSUME NEW p \in Pages
                 PROVE  p \in used_block_ids <=> Holders(p) # {}
      OBVIOUS
    <2>1. PoolConsistent
      BY DEF Inv
    <2>2. p \in free_block_ids <=> Holders(p) = {}
      BY <2>1, HolderCounts
    <2> QED
      BY <2>1, <2>2 DEF PoolConsistent
  <1>4. \A p \in Pages : Holders(p) # {} <=> p \in held
    BY <1>2 DEF Holders
  <1>5. used_block_ids \subseteq Pages /\ held \subseteq Pages
    BY <1>1 DEF Inv, TypeOK, BlockManagerTypeOK
  <1>6. used_block_ids = held
    <2> HIDE DEF held
    <2> QED
      BY <1>3, <1>4, <1>5
  <1> QED
    BY <1>6 DEF PagesReturned

\* No page leaks, however requests end: the used pages are those in the block
\* tables of the live requests.
THEOREM NoPageLeaks == Spec => []PagesReturned
  <1>1. Inv => PagesReturned
    BY NoPageLost
  <1> QED
    BY <1>1, Invariance, PTL

\* The pages that an admission reuses and that nobody holds are as many as the
\* reusable pages that are not counted as shared.
LEMMA FreeReusable ==
    ASSUME BlockManagerTypeOK, PoolConsistent, NEW s \in Seqs
    PROVE  LET found == reusable_prefix_block_ids(s)
               shared == {i \in DOMAIN found : ref_count[found[i]] > 0}
           IN  /\ Cardinality(shared) \in Nat
               /\ Cardinality(free_block_ids) \in Nat
               /\ Cardinality(free_block_ids \ Range(found))
                    = Cardinality(free_block_ids) - (ReusableBlocks(s) - Cardinality(shared))
  <1> DEFINE found == reusable_prefix_block_ids(s)
             k == ReusableBlocks(s)
             shared == {i \in DOMAIN found : ref_count[found[i]] > 0}
             cached == {i \in DOMAIN found : ref_count[found[i]] = 0}
             T == free_block_ids \intersect Range(found)
  <1>1. /\ found \in Seq(Pages) /\ Len(found) = k /\ k \in Nat /\ IsInjective(found)
    <2>1. k \in 0 .. MaxReusable(s) /\ MaxReusable(s) \in Nat
      BY BlockCounts, ReusableProperties
    <2>2. found \in Seq(Pages) /\ Len(found) = k /\ IsInjective(found)
      BY ReusableProperties
    <2> QED
      BY <2>1, <2>2
  <1> HIDE DEF found, k
  <1>2. DOMAIN found = 1 .. k /\ \A i \in 1 .. k : found[i] \in Pages
    BY <1>1
  <1>3. IsFiniteSet(1 .. k) /\ Cardinality(1 .. k) = k
    BY <1>1, FS_Interval
  <1>4. IsFiniteSet(shared) /\ IsFiniteSet(cached)
    BY <1>2, <1>3, FS_Subset
  <1>5. Cardinality(shared) \in Nat /\ Cardinality(cached) \in Nat
    BY <1>4, FS_CardinalityType
  <1>6. \A i \in 1 .. k : ref_count[found[i]] \in Nat
    BY <1>2 DEF BlockManagerTypeOK
  <1>7. shared \union cached = 1 .. k /\ shared \intersect cached = {}
    BY <1>2, <1>6
  <1>8. Cardinality(shared) + Cardinality(cached) = k
    <2>1. Cardinality(shared \union cached)
            = Cardinality(shared) + Cardinality(cached) - Cardinality(shared \intersect cached)
      BY <1>4, FS_Union
    <2>2. Cardinality(shared \intersect cached) = 0
      BY <1>7, FS_EmptySet
    <2>3. Cardinality(shared \union cached) = k
      BY <1>3, <1>7
    <2> HIDE DEF shared, cached
    <2> QED
      BY <1>1, <1>5, <2>1, <2>2, <2>3
  <1>9. IsFiniteSet(T) /\ Cardinality(T) = Cardinality(cached)
    <2> DEFINE f == [i \in cached |-> found[i]]
    <2>1. \A i \in cached : found[i] \in T
      <3> SUFFICES ASSUME NEW i \in cached
                   PROVE  found[i] \in T
        OBVIOUS
      <3>1. found[i] \in Pages /\ ref_count[found[i]] = 0 /\ found[i] \in Range(found)
        BY <1>2 DEF Range
      <3> QED
        BY <3>1 DEF PoolConsistent
    <2>2. \A p \in T : \E i \in cached : found[i] = p
      BY DEF PoolConsistent, Range
    <2>3. \A i, j \in cached : found[i] = found[j] => i = j
      BY <1>1 DEF IsInjective
    <2> HIDE DEF cached, T
    <2>4. f \in Bijection(cached, T)
      BY <2>1, <2>2, <2>3 DEF Bijection, Injection, Surjection, IsInjective
    <2>5. ExistsBijection(cached, T)
      BY <2>4 DEF ExistsBijection
    <2> QED
      BY <1>4, <2>5, FS_Bijection
  <1>10. IsFiniteSet(free_block_ids)
    BY PagesAssumption, FS_Subset DEF BlockManagerTypeOK
  <1>11. Cardinality(free_block_ids) \in Nat
    BY <1>10, FS_CardinalityType
  <1>12. Cardinality(free_block_ids \ Range(found)) = Cardinality(free_block_ids) - Cardinality(T)
    BY <1>10, FS_Difference
  <1>13. Cardinality(free_block_ids \ Range(found))
            = Cardinality(free_block_ids) - (k - Cardinality(shared))
    <2> HIDE DEF shared, cached, T
    <2> QED
      BY <1>1, <1>5, <1>8, <1>9, <1>11, <1>12
  <1> QED
    BY <1>5, <1>11, <1>13 DEF found, k

\* Admission control is exact: can_allocate accepts a waiting prompt if and only
\* if its fresh pages can be had from the pool once its reusable pages are
\* claimed, and an accepted prompt has at least one token left to run.
THEOREM AdmissionIsExact == Spec => []AdmissionExact
  <1>1. Inv => AdmissionExact
    <2> SUFFICES ASSUME Inv, NEW s \in Seqs, status[s] = "ACTIVE", block_table[s] = <<>>
                 PROVE  /\ can_allocate(s, 1) <=>
                                Cardinality(free_block_ids \ Range(reusable_prefix_block_ids(s)))
                                    >= required_blocks(prompt_len[s] + 1) - ReusableBlocks(s)
                        /\ cached_prefix_tokens(s) < prompt_len[s]
      BY DEF AdmissionExact
    <2> DEFINE found == reusable_prefix_block_ids(s)
               shared == Cardinality({i \in DOMAIN found : ref_count[found[i]] > 0})
               free == Cardinality(free_block_ids)
               left == Cardinality(free_block_ids \ Range(found))
               total == required_blocks(prompt_len[s] + 1)
               k == ReusableBlocks(s)
    <2>1. BlockManagerTypeOK /\ PoolConsistent /\ prompt_len[s] > 0 /\ prompt_len[s] \in Nat
      <3>1. Accounting(s)
        BY DEF Inv
      <3>2. prompt_len[s] > 0
        BY <3>1 DEF Accounting
      <3>3. BlockManagerTypeOK /\ PoolConsistent /\ prompt_len[s] \in Nat
        BY Counts DEF Inv, TypeOK
      <3> QED
        BY <3>2, <3>3
    <2>2. shared \in Nat /\ free \in Nat /\ left = free - (k - shared)
      BY <2>1, FreeReusable
    <2>3. total \in Nat
      <3>1. prompt_len[s] + 1 \in Nat
        BY <2>1
      <3> QED
        BY <2>1, <3>1, BlockCounts
    <2>4. k \in Nat
      <3>1. k \in 0 .. MaxReusable(s) /\ MaxReusable(s) \in Nat
        BY <2>1, BlockCounts, ReusableProperties
      <3> QED
        BY <3>1
    <2>5. can_allocate(s, 1) <=> free >= total - shared
      BY DEF can_allocate
    <2>6. cached_prefix_tokens(s) < prompt_len[s]
      <3>1. cached_prefix_tokens(s) \in 0 .. prompt_len[s] - 1
        BY <2>1, CachedPrefixShorter
      <3> QED
        BY <2>1, <3>1
    <2> HIDE DEF shared, free, left, total, k
    <2>7. free >= total - shared <=> left >= total - k
      BY <2>2, <2>3, <2>4
    <2> QED
      BY <2>5, <2>6, <2>7 DEF left, total, k
  <1> QED
    BY <1>1, Invariance, PTL

-----------------------------------------------------------------------------
(* What each action does to the requests' texts and places.                *)

\* The request's place in the step, its text and its pages are as they were.
Alike(r) ==
    /\ status'[r] = status[r] /\ work'[r] = work[r] /\ num_tokens'[r] = num_tokens[r]
    /\ num_computed'[r] = num_computed[r] /\ prompt_len'[r] = prompt_len[r]
    /\ token_ids'[r] = token_ids[r] /\ block_table'[r] = block_table[r]

AlikeBut(s) == \A r \in Seqs \ {s} : Alike(r)

\* The functions that the actions update.
LEMMA Domains ==
    ASSUME Inv
    PROVE  /\ status \in [Seqs -> {"NEW", "ACTIVE", "FINISHED"}]
           /\ num_computed \in [Seqs -> Nat] /\ num_tokens \in [Seqs -> Nat]
           /\ work \in [Seqs -> {"idle", "scheduled", "forwarded", "done"}]
           /\ query \in [Seqs -> Seq(Tokens)]
           /\ token_ids \in [Seqs -> Seq(Tokens)] /\ prompt_len \in [Seqs -> Nat]
           /\ block_table \in [Seqs -> Seq(Pages)]
  BY DEF Inv, TypeOK, BlockManagerTypeOK

LEMMA AddRequestEffect ==
    ASSUME Inv, NEW s \in Seqs, AddRequest(s)
    PROVE  /\ AlikeBut(s)
           /\ status[s] = "NEW" /\ status'[s] = "ACTIVE"
           /\ work[s] = "idle" /\ work'[s] = "idle"
           /\ block_table[s] = <<>> /\ block_table'[s] = <<>>
           /\ token_ids'[s] \in Prompts /\ prompt_len'[s] = Len(token_ids'[s])
  <1>1. /\ status[s] = "NEW" /\ status' = [status EXCEPT ![s] = "ACTIVE"]
        /\ num_computed' = [num_computed EXCEPT ![s] = 0]
        /\ UNCHANGED <<block_table, runVars>>
    BY DEF AddRequest
  <1>2. PICK prompt \in Prompts : /\ token_ids' = [token_ids EXCEPT ![s] = prompt]
                                  /\ prompt_len' = [prompt_len EXCEPT ![s] = Len(prompt)]
    BY DEF AddRequest
  <1>3. work[s] = "idle" /\ block_table[s] = <<>>
    BY <1>1 DEF Inv, Accounting
  <1> QED
    BY <1>1, <1>2, <1>3, Domains DEF Alike, AlikeBut, runVars

LEMMA AdmitEffect ==
    ASSUME Inv, NEW s \in Seqs, NEW chunk, Admit(s, chunk)
    PROVE  /\ AlikeBut(s)
           /\ UNCHANGED <<status, token_ids, prompt_len>>
           /\ status[s] = "ACTIVE" /\ work[s] = "idle"
           /\ work'[s] \in {"idle", "scheduled"}
           /\ block_table[s] = <<>> /\ block_table'[s] # <<>>
           /\ num_computed'[s] = cached_prefix_tokens(s)
           /\ IsPrefilling(s) /\ IsPrefilling(s)'
  <1>1. /\ status[s] = "ACTIVE" /\ work[s] = "idle" /\ allocate(s, 1)
        /\ chunk \in 0 .. prompt_len[s] - cached_prefix_tokens(s)
        /\ num_computed' = [num_computed EXCEPT ![s] = cached_prefix_tokens(s)]
        /\ IF chunk > 0 THEN Schedule(s, chunk) ELSE UNCHANGED runVars
        /\ status' = status
    BY DEF Admit
  <1>2. UNCHANGED <<token_ids, prompt_len>> /\ block_table[s] = <<>>
    BY <1>1 DEF allocate
  <1>3. /\ prompt_len[s] \in Nat /\ prompt_len[s] > 0 /\ num_computed[s] = 0
        /\ BlockManagerTypeOK
    BY <1>1, <1>2, Counts DEF Inv, Accounting, TypeOK
  <1>4. cached_prefix_tokens(s) \in 0 .. prompt_len[s] - 1
    BY <1>3, CachedPrefixShorter
  <1>5. /\ Len(block_table'[s]) * BlockSize >= prompt_len[s] + 1
        /\ \A r \in Seqs \ {s} : block_table'[r] = block_table[r]
    BY <1>1, <1>3, AllocateTypes
  <1>6. block_table'[s] # <<>>
    BY <1>3, <1>5, BlockSizeAssumption
  <1>7. /\ work'[s] \in {"idle", "scheduled"}
        /\ \A r \in Seqs \ {s} : work'[r] = work[r] /\ num_tokens'[r] = num_tokens[r]
    BY <1>1, Domains DEF Schedule, runVars
  <1>8. num_computed'[s] = cached_prefix_tokens(s)
    BY <1>1, Domains
  <1>9. IsPrefilling(s) /\ IsPrefilling(s)'
    BY <1>2, <1>3, <1>4, <1>8 DEF IsPrefilling, uncomputed_tokens
  <1>10. AlikeBut(s)
    BY <1>1, <1>2, <1>5, <1>7, Domains DEF Alike, AlikeBut
  <1> QED
    BY <1>1, <1>2, <1>6, <1>7, <1>8, <1>9, <1>10

LEMMA SchedulePrefillEffect ==
    ASSUME Inv, NEW s \in Seqs, NEW chunk, SchedulePrefill(s, chunk)
    PROVE  /\ AlikeBut(s)
           /\ UNCHANGED <<status, token_ids, prompt_len, block_table, num_computed>>
           /\ status[s] = "ACTIVE" /\ work[s] = "idle" /\ work'[s] = "scheduled"
           /\ block_table[s] # <<>>
           /\ IsPrefilling(s) /\ IsPrefilling(s)'
  <1>1. /\ status[s] = "ACTIVE" /\ work[s] = "idle" /\ block_table[s] # <<>>
        /\ chunk \in 1 .. uncomputed_tokens(s) /\ Schedule(s, chunk)
        /\ UNCHANGED <<bmVars, reqVars>>
    BY DEF SchedulePrefill
  <1>2. uncomputed_tokens(s) \in Int
    BY Counts DEF Inv
  <1>3. IsPrefilling(s)
    BY <1>1, <1>2 DEF IsPrefilling
  <1>4. IsPrefilling(s)'
    BY <1>1, <1>3 DEF IsPrefilling, uncomputed_tokens, bmVars, reqVars
  <1> QED
    BY <1>1, <1>3, <1>4, Domains DEF Schedule, Alike, AlikeBut, bmVars, reqVars

LEMMA ScheduleDecodeEffect ==
    ASSUME Inv, NEW s \in Seqs, NEW n, ScheduleDecode(s, n)
    PROVE  /\ AlikeBut(s)
           /\ UNCHANGED <<status, token_ids, prompt_len, num_computed>>
           /\ status[s] = "ACTIVE" /\ work[s] = "idle" /\ work'[s] = "scheduled"
           /\ num_tokens'[s] = n /\ n \in Lookaheads(s) /\ n \in Nat \ {0}
           /\ block_table[s] # <<>> /\ block_table'[s] # <<>>
           /\ ~ IsPrefilling(s) /\ ~ IsPrefilling(s)'
  <1>1. /\ status[s] = "ACTIVE" /\ work[s] = "idle" /\ num_generated(s) > 0
        /\ n \in Lookaheads(s) /\ may_append(s, n) /\ Schedule(s, n)
        /\ UNCHANGED reqVars
    BY DEF ScheduleDecode
  <1>2. n \in Nat \ {0}
    <2>1. num_generated(s) \in Nat
      BY Counts DEF Inv
    <2> DEFINE most == MaxTokens - num_generated(s)
    <2>2. most \in Int /\ 1 + MaxDraft \in Nat \ {0}
      BY <2>1, MaxTokensAssumption, MaxDraftAssumption
    <2> HIDE DEF most
    <2>3. Max({1, most}) \in Nat \ {0}
      BY <2>2, MaxOfTwo
    <2> DEFINE least == Max({1, most})
               burst == 1 + MaxDraft
    <2> HIDE DEF least, burst
    <2>4. Min({burst, least}) \in Nat \ {0}
      <3>1. burst \in Int /\ least \in Int /\ burst \in Nat \ {0} /\ least \in Nat \ {0}
        BY <2>2, <2>3 DEF least, burst
      <3> QED
        BY <3>1, MinOfTwo
    <2> QED
      BY <1>1, <2>4 DEF Lookaheads, most, least, burst
  <1>3. UNCHANGED <<token_ids, prompt_len>>
    BY <1>1 DEF may_append
  <1>4. BlockManagerTypeOK
    BY DEF Inv, TypeOK
  <1>5. /\ Len(token_ids[s]) + n <= Len(block_table'[s]) * BlockSize
        /\ \A r \in Seqs \ {s} : block_table'[r] = block_table[r]
    BY <1>1, <1>2, <1>4, MayAppendTypes
  <1>6. block_table'[s] # <<>>
    <2>1. Len(token_ids[s]) \in Nat
      BY Counts DEF Inv
    <2> QED
      BY <1>2, <1>5, <2>1, BlockSizeAssumption
  <1>7. ~ IsPrefilling(s) /\ block_table[s] # <<>>
    <2>1. ~ IsPrefilling(s)
      BY <1>1 DEF Inv, Accounting
    <2>2. prompt_len[s] \in Nat /\ num_computed[s] \in Nat
      BY Counts DEF Inv
    <2>3. prompt_len[s] > 0 /\ (block_table[s] = <<>> => num_computed[s] = 0)
      BY <1>1 DEF Inv, Accounting
    <2> QED
      BY <2>1, <2>2, <2>3 DEF IsPrefilling, uncomputed_tokens
  <1>8. ~ IsPrefilling(s)'
    BY <1>1, <1>3, <1>7 DEF IsPrefilling, uncomputed_tokens, reqVars
  <1> QED
    BY <1>1, <1>2, <1>3, <1>5, <1>6, <1>7, <1>8, Domains DEF Schedule, Alike, AlikeBut, reqVars

LEMMA ForwardEffect ==
    ASSUME Inv, NEW s \in Seqs, NEW drafts, Forward(s, drafts)
    PROVE  /\ AlikeBut(s)
           /\ UNCHANGED <<status, token_ids, prompt_len, block_table, num_computed, num_tokens>>
           /\ work[s] = "scheduled" /\ work'[s] = "forwarded"
  BY Domains DEF Forward, Alike, AlikeBut, bmVars, reqVars

AppendsTo(s, tokens) ==
    /\ token_ids' = [token_ids EXCEPT ![s] = @ \o tokens]
    /\ IsPrefilling(s) => Len(tokens) <= 1
    /\ ~ IsPrefilling(s) => Len(tokens) <= num_tokens[s]

\* A commit leaves the request in its place with a longer text, or the same one.
LEMMA CommitEffect ==
    ASSUME Inv, NEW s \in Seqs, Commit(s) \/ CommitSpeculative(s)
    PROVE  /\ AlikeBut(s)
           /\ UNCHANGED <<status, prompt_len, block_table, num_computed, num_tokens>>
           /\ work[s] = "forwarded" /\ work'[s] = "done"
           /\ num_generated(s)' \in Nat /\ num_generated(s) <= num_generated(s)'
           /\ IsPrefilling(s) => num_generated(s)' <= num_generated(s) + 1
           /\ ~ IsPrefilling(s) => num_generated(s)' <= num_generated(s) + num_tokens[s]
  <1>1. /\ work[s] = "forwarded"
        /\ work' = [work EXCEPT ![s] = "done"]
        /\ UNCHANGED <<block_table, reqVars, num_tokens>>
    BY DEF Commit, CommitSpeculative, Committed
  <1>2. /\ token_ids[s] \in Seq(Tokens) /\ Len(token_ids[s]) \in Nat /\ prompt_len[s] \in Nat
        /\ num_tokens[s] \in Nat /\ num_generated(s) \in Nat
        /\ num_generated(s) = Len(token_ids[s]) - prompt_len[s]
    BY Counts, Domains DEF Inv, num_generated
  <1>3. /\ prompt_len' = prompt_len
        /\ \E tokens \in Seq(Tokens) : AppendsTo(s, tokens)
    <2>1. ~ IsPrefilling(s) => Len(query[s]) \in 1 .. num_tokens[s]
      <3>1. status[s] = "ACTIVE"
        BY <1>1 DEF Inv, Accounting
      <3> QED
        BY <1>1, <3>1 DEF Inv, Accounting
    <2>2. CASE Commit(s)
      <3>1. CASE \E token \in Tokens : append_and_record(s, <<token>>)
        <4>1. PICK token \in Tokens : append_and_record(s, <<token>>)
          BY <3>1
        <4>2. <<token>> \in Seq(Tokens) /\ Len(<<token>>) = 1
          OBVIOUS
        <4>3. token_ids' = [token_ids EXCEPT ![s] = @ \o <<token>>] /\ prompt_len' = prompt_len
          BY <4>1 DEF append_and_record
        <4>4. ~ IsPrefilling(s) => 1 <= num_tokens[s]
          BY <1>2, <2>1
        <4> DEFINE one == <<token>>
        <4>5. /\ one \in Seq(Tokens) /\ Len(one) = 1
              /\ token_ids' = [token_ids EXCEPT ![s] = @ \o one]
          BY <4>2, <4>3
        <4> HIDE DEF one
        <4>6. /\ IsPrefilling(s) => Len(one) <= 1
              /\ ~ IsPrefilling(s) => Len(one) <= num_tokens[s]
          BY <4>4, <4>5
        <4>7. AppendsTo(s, one)
          BY <4>5, <4>6 DEF AppendsTo
        <4> QED
          BY <4>3, <4>5, <4>7
      <3>2. CASE UNCHANGED <<token_ids, prompt_len, block_tokens, block_hash>>
        <4>1. token_ids[s] \o <<>> = token_ids[s]
          BY <1>2
        <4>2. token_ids' = [token_ids EXCEPT ![s] = @ \o <<>>]
          BY <3>2, <4>1, Domains
        <4> DEFINE none == <<>>
        <4>3. /\ none \in Seq(Tokens) /\ Len(none) = 0
              /\ token_ids' = [token_ids EXCEPT ![s] = @ \o none]
          BY <4>2
        <4> HIDE DEF none
        <4>4. Len(none) <= 1 /\ Len(none) <= num_tokens[s]
          BY <1>2, <4>3
        <4>5. AppendsTo(s, none)
          BY <4>3, <4>4 DEF AppendsTo
        <4> QED
          BY <3>2, <4>3, <4>5
      <3> QED
        BY <2>2, <3>1, <3>2 DEF Commit
    <2>3. CASE CommitSpeculative(s)
      <3> DEFINE drafts == Tail(query[s])
      <3>1. ~ IsPrefilling(s) /\ Len(query[s]) > 1
        BY <2>3 DEF CommitSpeculative
      <3>2. PICK accepted \in 0 .. Len(drafts), token \in Tokens :
                append_and_record(s, SubSeq(drafts, 1, accepted) \o <<token>>)
        BY <2>3 DEF CommitSpeculative
      <3>3. drafts \in Seq(Tokens) /\ Len(drafts) = Len(query[s]) - 1
        <4>1. query[s] \in Seq(Tokens)
          BY Domains
        <4>2. query[s] # <<>>
          BY <3>1, <4>1
        <4> QED
          BY <4>1, <4>2, HeadTailProperties
      <3> HIDE DEF drafts
      <3> DEFINE tokens == SubSeq(drafts, 1, accepted) \o <<token>>
      <3>4. tokens \in Seq(Tokens) /\ Len(tokens) = accepted + 1
        <4>1. /\ SubSeq(drafts, 1, accepted) \in Seq(Tokens)
              /\ Len(SubSeq(drafts, 1, accepted)) = accepted
          BY <3>3, SubTextType
        <4> QED
          BY <3>3, <4>1
      <3>5. append_and_record(s, tokens)
        BY <3>2
      <3> HIDE DEF tokens
      <3>6. token_ids' = [token_ids EXCEPT ![s] = @ \o tokens] /\ prompt_len' = prompt_len
        BY <3>5 DEF append_and_record
      <3>7. Len(tokens) <= num_tokens[s]
        <4>1. Len(query[s]) \in Nat /\ Len(query[s]) <= num_tokens[s]
          BY <1>2, <2>1, <3>1
        <4> QED
          BY <1>2, <3>3, <3>4, <4>1
      <3>8. AppendsTo(s, tokens)
        BY <3>1, <3>6, <3>7 DEF AppendsTo
      <3> QED
        BY <3>4, <3>6, <3>8
    <2> QED
      BY <2>2, <2>3
  <1>4. PICK tokens \in Seq(Tokens) :
            /\ token_ids' = [token_ids EXCEPT ![s] = @ \o tokens]
            /\ IsPrefilling(s) => Len(tokens) <= 1
            /\ ~ IsPrefilling(s) => Len(tokens) <= num_tokens[s]
    BY <1>3 DEF AppendsTo
  <1>5. /\ Len(tokens) \in Nat
        /\ token_ids'[s] = token_ids[s] \o tokens
        /\ Len(token_ids'[s]) = Len(token_ids[s]) + Len(tokens)
    BY <1>2, <1>4, Domains
  <1>6. num_generated(s)' = num_generated(s) + Len(tokens)
    BY <1>2, <1>3, <1>5 DEF num_generated
  <1>7. AlikeBut(s)
    BY <1>1, <1>3, <1>4, Domains DEF Alike, AlikeBut, reqVars
  <1>8. /\ num_generated(s)' \in Nat /\ num_generated(s) <= num_generated(s)'
        /\ IsPrefilling(s) => num_generated(s)' <= num_generated(s) + 1
        /\ ~ IsPrefilling(s) => num_generated(s)' <= num_generated(s) + num_tokens[s]
    BY <1>2, <1>4, <1>5, <1>6
  <1> QED
    BY <1>1, <1>3, <1>7, <1>8, Domains DEF reqVars

LEMMA PostprocessEffect ==
    ASSUME Inv, NEW s \in Seqs, NEW finish \in BOOLEAN, Postprocess(s, finish)
    PROVE  /\ AlikeBut(s)
           /\ UNCHANGED <<token_ids, prompt_len>>
           /\ status[s] = "ACTIVE" /\ work[s] = "done" /\ work'[s] = "idle"
           /\ block_table[s] # <<>>
           /\ finish => status'[s] = "FINISHED" /\ block_table'[s] = <<>>
           /\ ~ finish => /\ status'[s] = "ACTIVE" /\ block_table'[s] = block_table[s]
                          /\ num_generated(s) < MaxTokens
  <1>1. /\ work[s] = "done" /\ (num_generated(s) >= MaxTokens => finish)
        /\ work' = [work EXCEPT ![s] = "idle"]
        /\ num_tokens' = [num_tokens EXCEPT ![s] = 0]
        /\ IF finish
           THEN status' = [status EXCEPT ![s] = "FINISHED"] /\ deallocate(s)
           ELSE UNCHANGED <<status, poolVars, block_table>>
        /\ UNCHANGED <<token_ids, prompt_len>>
    BY DEF Postprocess, ReleaseSlot
  <1>2. \A r \in Seqs \ {s} : num_computed'[r] = num_computed[r]
    BY Domains DEF Postprocess
  <1>3. status[s] = "ACTIVE" /\ block_table[s] # <<>>
    BY <1>1 DEF Inv, Accounting
  <1>4. num_generated(s) \in Nat
    BY Counts DEF Inv
  <1>5. finish => block_table' = [block_table EXCEPT ![s] = <<>>]
    BY <1>1 DEF deallocate
  <1> QED
    BY <1>1, <1>2, <1>3, <1>4, <1>5, MaxTokensAssumption, Domains DEF Alike, AlikeBut

LEMMA EndEffect ==
    ASSUME Inv, NEW s \in Seqs, (\E torn \in BOOLEAN : Fail(s, torn)) \/ Abort(s)
    PROVE  /\ AlikeBut(s)
           /\ UNCHANGED <<token_ids, prompt_len>>
           /\ status'[s] = "FINISHED" /\ work'[s] = "idle" /\ block_table'[s] = <<>>
  <1>1. /\ status' = [status EXCEPT ![s] = "FINISHED"] /\ deallocate(s)
        /\ UNCHANGED <<token_ids, prompt_len, num_computed>>
    BY DEF Fail, Abort
  <1>2. block_table' = [block_table EXCEPT ![s] = <<>>]
    BY <1>1 DEF deallocate
  <1>3. /\ work'[s] = "idle"
        /\ \A r \in Seqs \ {s} : work'[r] = work[r] /\ num_tokens'[r] = num_tokens[r]
    BY Domains DEF Fail, Abort, ReleaseSlot, runVars
  <1> QED
    BY <1>1, <1>2, <1>3, Domains DEF Alike, AlikeBut

LEMMA ForgetEffect ==
    ASSUME Inv, NEW s \in Seqs, Forget(s)
    PROVE  /\ AlikeBut(s)
           /\ UNCHANGED block_table
           /\ status[s] = "FINISHED" /\ status'[s] = "NEW"
           /\ work[s] = "idle" /\ work'[s] = "idle"
           /\ token_ids'[s] = <<>> /\ prompt_len'[s] = 0
  <1>1. status[s] = "FINISHED" /\ work[s] = "idle"
    BY DEF Forget, Inv, Accounting
  <1> QED
    BY <1>1, Domains DEF Forget, Alike, AlikeBut, runVars

-----------------------------------------------------------------------------
(* The length of an output.                                                *)

\* A request never has more than max_tokens, and a burst in flight cannot give
\* it more, however many of its drafts are accepted.
OutputFits(s) ==
    /\ num_generated(s) <= MaxTokens
    /\ status[s] = "ACTIVE" /\ work[s] = "idle" => num_generated(s) < MaxTokens
    /\ work[s] \in {"scheduled", "forwarded"} /\ ~ IsPrefilling(s) =>
            num_generated(s) + num_tokens[s] <= MaxTokens

OutputsBounded == \A s \in Seqs : OutputFits(s)

LEMMA BoundedElsewhere ==
    ASSUME NEW r, OutputFits(r), Alike(r)
    PROVE  OutputFits(r)'
  BY DEF OutputFits, Alike, num_generated, IsPrefilling, uncomputed_tokens

\* A burst is cut to what is left of the output.
LEMMA LookaheadFits ==
    ASSUME Inv, NEW s \in Seqs, NEW n \in Lookaheads(s), num_generated(s) < MaxTokens
    PROVE  num_generated(s) + n <= MaxTokens
  <1>1. num_generated(s) \in Nat
    BY Counts DEF Inv
  <1> DEFINE most == MaxTokens - num_generated(s)
  <1>2. most \in Nat \ {0} /\ 1 + MaxDraft \in Nat \ {0} /\ most = MaxTokens - num_generated(s)
    BY <1>1, MaxTokensAssumption, MaxDraftAssumption
  <1>3. n = 1 \/ n = Min({1 + MaxDraft, Max({1, most})})
    BY DEF Lookaheads
  <1> HIDE DEF most
  <1>4. Max({1, most}) = most
    BY <1>2, MaxOfTwo
  <1>5. n = 1 \/ n = Min({1 + MaxDraft, most})
    BY <1>3, <1>4
  <1>6. n <= most /\ n \in Nat
    BY <1>2, <1>5, MinOfTwo
  <1> QED
    BY <1>1, <1>2, <1>6, MaxTokensAssumption

LEMMA OutputsStep ==
    ASSUME Inv, OutputsBounded, [Next]_vars
    PROVE  OutputsBounded'
  <1>1. ASSUME NEW s \in Seqs, AlikeBut(s), OutputFits(s)'
        PROVE  OutputsBounded'
    BY <1>1, BoundedElsewhere DEF OutputsBounded, AlikeBut
  <1>2. \A s \in Seqs : /\ OutputFits(s) /\ num_generated(s) \in Nat /\ num_tokens[s] \in Nat
                        /\ MaxTokens \in Nat \ {0}
    BY Counts, MaxTokensAssumption DEF Inv, OutputsBounded
  <1>3. CASE Next
    <2>1. PICK s \in Seqs :
              \/ AddRequest(s)
              \/ \E chunk \in 0 .. prompt_len[s] : Admit(s, chunk)
              \/ \E chunk \in 1 .. prompt_len[s] : SchedulePrefill(s, chunk)
              \/ \E lookahead \in 1 .. 1 + MaxDraft : ScheduleDecode(s, lookahead)
              \/ \E drafts \in Drafts : Forward(s, drafts)
              \/ Commit(s)
              \/ CommitSpeculative(s)
              \/ \E finish \in BOOLEAN : Postprocess(s, finish)
              \/ Abort(s)
              \/ \E torn \in BOOLEAN : Fail(s, torn)
              \/ Forget(s)
      BY <1>3 DEF Next
    <2>2. CASE AddRequest(s)
      <3>1. /\ AlikeBut(s) /\ work'[s] = "idle"
            /\ token_ids'[s] \in Prompts /\ prompt_len'[s] = Len(token_ids'[s])
        BY <2>2, AddRequestEffect
      <3>2. num_generated(s)' = 0
        BY <3>1, PromptsAssumption DEF num_generated
      <3>3. OutputFits(s)'
        BY <1>2, <3>1, <3>2 DEF OutputFits
      <3> QED
        BY <1>1, <3>1, <3>3
    <2>3. CASE \E chunk \in 0 .. prompt_len[s] : Admit(s, chunk)
      <3>1. /\ AlikeBut(s) /\ UNCHANGED <<status, token_ids, prompt_len>>
            /\ status[s] = "ACTIVE" /\ work[s] = "idle" /\ IsPrefilling(s)'
        BY <2>3, AdmitEffect
      <3>2. num_generated(s)' = num_generated(s)
        BY <3>1 DEF num_generated
      <3>3. OutputFits(s)'
        BY <1>2, <3>1, <3>2 DEF OutputFits
      <3> QED
        BY <1>1, <3>1, <3>3
    <2>4. CASE \E chunk \in 1 .. prompt_len[s] : SchedulePrefill(s, chunk)
      <3>1. /\ AlikeBut(s) /\ UNCHANGED <<status, token_ids, prompt_len>>
            /\ status[s] = "ACTIVE" /\ work[s] = "idle" /\ IsPrefilling(s)'
        BY <2>4, SchedulePrefillEffect
      <3>2. num_generated(s)' = num_generated(s)
        BY <3>1 DEF num_generated
      <3>3. OutputFits(s)'
        BY <1>2, <3>1, <3>2 DEF OutputFits
      <3> QED
        BY <1>1, <3>1, <3>3
    <2>5. CASE \E lookahead \in 1 .. 1 + MaxDraft : ScheduleDecode(s, lookahead)
      <3>1. PICK n \in 1 .. 1 + MaxDraft : ScheduleDecode(s, n)
        BY <2>5
      <3>2. /\ AlikeBut(s) /\ UNCHANGED <<status, token_ids, prompt_len>>
            /\ status[s] = "ACTIVE" /\ work[s] = "idle" /\ work'[s] = "scheduled"
            /\ num_tokens'[s] = n /\ n \in Lookaheads(s)
        BY <3>1, ScheduleDecodeEffect
      <3>3. num_generated(s)' = num_generated(s)
        BY <3>2 DEF num_generated
      <3>4. num_generated(s) < MaxTokens
        BY <1>2, <3>2 DEF OutputFits
      <3>5. num_generated(s) + n <= MaxTokens
        BY <3>2, <3>4, LookaheadFits
      <3>6. OutputFits(s)'
        BY <1>2, <3>2, <3>3, <3>5 DEF OutputFits
      <3> QED
        BY <1>1, <3>2, <3>6
    <2>6. CASE \E drafts \in Drafts : Forward(s, drafts)
      <3>1. /\ AlikeBut(s)
            /\ UNCHANGED <<status, token_ids, prompt_len, num_computed, num_tokens>>
            /\ work[s] = "scheduled" /\ work'[s] = "forwarded"
        BY <2>6, ForwardEffect
      <3>2. num_generated(s)' = num_generated(s) /\ IsPrefilling(s)' = IsPrefilling(s)
        BY <3>1 DEF num_generated, IsPrefilling, uncomputed_tokens
      <3>3. OutputFits(s)'
        BY <1>2, <3>1, <3>2 DEF OutputFits
      <3> QED
        BY <1>1, <3>1, <3>3
    <2>7. CASE Commit(s) \/ CommitSpeculative(s)
      <3>1. /\ AlikeBut(s) /\ work[s] = "forwarded" /\ work'[s] = "done"
            /\ num_generated(s)' \in Nat
            /\ IsPrefilling(s) => num_generated(s)' <= num_generated(s) + 1
            /\ ~ IsPrefilling(s) => num_generated(s)' <= num_generated(s) + num_tokens[s]
        BY <2>7, CommitEffect
      <3>2. IsPrefilling(s) => num_generated(s) = 0
        BY <3>1 DEF Inv, Accounting
      <3>3. num_generated(s)' <= MaxTokens
        <4>1. CASE IsPrefilling(s)
          BY <1>2, <3>1, <3>2, <4>1
        <4>2. CASE ~ IsPrefilling(s)
          <5>1. num_generated(s) + num_tokens[s] <= MaxTokens
            BY <1>2, <3>1, <4>2 DEF OutputFits
          <5> QED
            BY <1>2, <3>1, <4>2, <5>1
        <4> QED
          BY <4>1, <4>2
      <3>4. OutputFits(s)'
        BY <1>2, <3>1, <3>3 DEF OutputFits
      <3> QED
        BY <1>1, <3>1, <3>4
    <2>8. CASE \E finish \in BOOLEAN : Postprocess(s, finish)
      <3>1. PICK finish \in BOOLEAN : Postprocess(s, finish)
        BY <2>8
      <3>2. /\ AlikeBut(s) /\ UNCHANGED <<token_ids, prompt_len>> /\ work'[s] = "idle"
            /\ finish => status'[s] = "FINISHED"
            /\ ~ finish => num_generated(s) < MaxTokens
        BY <3>1, PostprocessEffect
      <3>3. num_generated(s)' = num_generated(s)
        BY <3>2 DEF num_generated
      <3>4. OutputFits(s)'
        BY <1>2, <3>2, <3>3 DEF OutputFits
      <3> QED
        BY <1>1, <3>2, <3>4
    <2>9. CASE (\E torn \in BOOLEAN : Fail(s, torn)) \/ Abort(s)
      <3>1. /\ AlikeBut(s) /\ UNCHANGED <<token_ids, prompt_len>>
            /\ status'[s] = "FINISHED" /\ work'[s] = "idle"
        BY <2>9, EndEffect
      <3>2. num_generated(s)' = num_generated(s)
        BY <3>1 DEF num_generated
      <3>3. OutputFits(s)'
        BY <1>2, <3>1, <3>2 DEF OutputFits
      <3> QED
        BY <1>1, <3>1, <3>3
    <2>10. CASE Forget(s)
      <3>1. /\ AlikeBut(s) /\ status'[s] = "NEW" /\ work'[s] = "idle"
            /\ token_ids'[s] = <<>> /\ prompt_len'[s] = 0
        BY <2>10, ForgetEffect
      <3>2. num_generated(s)' = 0
        BY <3>1 DEF num_generated
      <3>3. OutputFits(s)'
        BY <1>2, <3>1, <3>2 DEF OutputFits
      <3> QED
        BY <1>1, <3>1, <3>3
    <2> QED
      BY <2>1, <2>2, <2>3, <2>4, <2>5, <2>6, <2>7, <2>8, <2>9, <2>10
  <1>4. CASE UNCHANGED vars
    <2>1. \A r \in Seqs : Alike(r)
      BY <1>4 DEF vars, bmVars, reqVars, runVars, Alike
    <2> QED
      BY <1>2, <2>1, BoundedElsewhere DEF OutputsBounded
  <1> QED
    BY <1>3, <1>4

LEMMA OutputsInit == Init => OutputsBounded
  BY MaxTokensAssumption
  DEF Init, BlockManagerInit, OutputsBounded, OutputFits, num_generated

\* No request generates more than max_tokens tokens: the cut of a burst's
\* lookahead in _decode_lookahead leaves nothing to be dropped afterwards.
THEOREM OutputsWithinLimit == Spec => [](\A s \in Seqs : num_generated(s) <= MaxTokens)
  <1>1. Init => OutputsBounded
    BY OutputsInit
  <1>2. Inv /\ OutputsBounded /\ [Next]_vars => OutputsBounded'
    BY OutputsStep
  <1>3. OutputsBounded => \A s \in Seqs : num_generated(s) <= MaxTokens
    BY DEF OutputsBounded, OutputFits
  <1> QED
    BY <1>1, <1>2, <1>3, Invariance, PTL DEF Spec

-----------------------------------------------------------------------------
(* Where a request's positions lie, and how far they are computed.          *)

\* The first position of logical block i.
Base(i) == (i - 1) * BlockSize

\* How many of the first n positions of a text lie in logical block i.
Filled(n, i) ==
    IF n <= Base(i) THEN 0
    ELSE IF n >= Base(i) + BlockSize THEN BlockSize
    ELSE n - Base(i)

\* How far the K/V of a request is computed.
ValidEnd(s) ==
    IF work[s] = "done" /\ IsPrefilling(s) THEN num_computed[s] + num_tokens[s] ELSE Start(s)

\* What the slot with offset o in block i of a text has to hold.
KVAt(text, i, o) == SubSeq(text, 1, Base(i) + o + 1)

\* Page p carries the tokens of the i-th block of a text, the hash of the prefix
\* they end, if they fill the page, and the K/V of as much of them as lies before
\* position `end`.
PageHolds(p, text, i, end) ==
    /\ block_tokens[p] = BlockSlice(text, i)
    /\ Filled(Len(text), i) = BlockSize => block_hash[p] = PrefixHash(text, i)
    /\ computed_tokens[p] = Filled(end, i)
    /\ \A o \in 0 .. Filled(end, i) - 1 : kv[p][o] = KVAt(text, i, o)

\* The pages of a request have the blocks of its text, up to what is computed.
Contents(s) ==
    block_table[s] # <<>> =>
        /\ Len(token_ids[s]) <= Len(block_table[s]) * BlockSize
        /\ \A i \in DOMAIN block_table[s] :
                PageHolds(block_table[s][i], token_ids[s], i, ValidEnd(s))

\* The K/V that the forward in flight has computed for a position.
Fed(s, pos) ==
    SubSeq(token_ids[s], 1, Start(s)) \o SubSeq(query[s], 1, pos - Start(s) + 1)

\* A forward that was not torn has left the K/V of its query in the slots behind
\* the valid ones, and its query starts with what is left of the text.
InFlight(s) ==
    /\ work[s] = "scheduled" => num_tokens[s] > 0
    /\ work[s] = "done" /\ IsPrefilling(s) => num_generated(s) <= 1
    /\ work[s] = "forwarded" =>
        /\ \A i \in DOMAIN query[s] :
                Start(s) + i <= Len(token_ids[s]) => query[s][i] = token_ids[s][Start(s) + i]
        /\ \A pos \in Start(s) .. Start(s) + Len(query[s]) - 1 :
                kv[physical_block_id(s, pos)][Offset(pos)] = Fed(s, pos)

\* Only pages that are computed throughout are shared.
SharedFull ==
    \A s, r \in Seqs : s # r =>
        \A p \in Range(block_table[s]) \intersect Range(block_table[r]) :
            computed_tokens[p] = BlockSize

KVInv ==
    /\ Inv
    /\ ValidBehindTokens
    /\ IndexSound
    /\ SharedFull
    /\ \A s \in Seqs : Contents(s) /\ InFlight(s)

-----------------------------------------------------------------------------
(* Positions and blocks.                                                   *)

\* Logical blocks tile the positions.
LEMMA Blocks ==
    ASSUME NEW i \in Nat \ {0}
    PROVE  /\ Base(i) \in Nat
           /\ i * BlockSize \in Nat
           /\ i * BlockSize = Base(i) + BlockSize
           /\ BlockSize \in Nat /\ BlockSize > 0
           /\ \A j \in Nat \ {0} : i < j => i * BlockSize <= Base(j)
           /\ \A j \in Nat \ {0} : i <= j => Base(i) <= Base(j)
  <1>1. BlockSize \in Nat /\ BlockSize > 0
    BY BlockSizeAssumption
  <1>2. i * BlockSize \in Nat /\ (i - 1) * BlockSize \in Nat
    BY <1>1, SMTT(30)
  <1>3. i * BlockSize = (i - 1) * BlockSize + BlockSize
    BY <1>1, SMTT(30)
  <1>4. \A j \in Nat \ {0} : i < j => i * BlockSize <= (j - 1) * BlockSize
    BY <1>1, SMTT(30)
  <1>5. \A j \in Nat \ {0} : i <= j => (i - 1) * BlockSize <= (j - 1) * BlockSize
    BY <1>1, SMTT(30)
  <1> QED
    BY <1>1, <1>2, <1>3, <1>4, <1>5 DEF Base

\* A position is its offset behind the first position of its block.
LEMMA PositionBounds ==
    ASSUME NEW pos \in Nat
    PROVE  /\ pos \div BlockSize + 1 \in Nat \ {0}
           /\ Offset(pos) \in 0 .. BlockSize - 1
           /\ pos = Base(pos \div BlockSize + 1) + Offset(pos)
  <1>1. BlockSize \in Nat /\ BlockSize > 0
    BY BlockSizeAssumption
  <1> DEFINE q == pos \div BlockSize
             o == pos % BlockSize
  <1>2. q \in Nat /\ o \in 0 .. BlockSize - 1 /\ pos = q * BlockSize + o
    BY <1>1, SMTT(30)
  <1> QED
    BY <1>2 DEF Offset, Base

\* And this is the only way to write it.
LEMMA PositionOf ==
    ASSUME NEW i \in Nat \ {0}, NEW o \in 0 .. BlockSize - 1
    PROVE  /\ Base(i) + o \in Nat
           /\ (Base(i) + o) \div BlockSize + 1 = i
           /\ Offset(Base(i) + o) = o
  <1> DEFINE pos == Base(i) + o
             j == pos \div BlockSize + 1
  <1>1. Base(i) \in Nat /\ BlockSize \in Nat /\ BlockSize > 0 /\ i * BlockSize = Base(i) + BlockSize
    BY Blocks
  <1>2. pos \in Nat
    BY <1>1
  <1>3. /\ j \in Nat \ {0} /\ Offset(pos) \in 0 .. BlockSize - 1
        /\ pos = Base(j) + Offset(pos)
    BY <1>2, PositionBounds
  <1>4. Base(j) \in Nat /\ j * BlockSize = Base(j) + BlockSize
    BY <1>3, Blocks
  <1>5. ~ (i < j)
    <2>1. i < j => i * BlockSize <= Base(j)
      BY <1>3, Blocks
    <2> HIDE DEF j
    <2> QED
      BY <1>1, <1>3, <1>4, <2>1
  <1>6. ~ (j < i)
    <2> HIDE DEF j
    <2>1. j < i => j * BlockSize <= Base(i)
      BY <1>3, Blocks
    <2> QED
      BY <1>1, <1>3, <1>4, <2>1
  <1>7. j = i
    <2> HIDE DEF j
    <2> QED
      BY <1>3, <1>5, <1>6
  <1>8. Offset(pos) = o
    <2>1. Base(j) = Base(i) /\ pos = Base(j) + Offset(pos) /\ Offset(pos) \in Int
      BY <1>3, <1>7
    <2>2. pos = Base(i) + o
      OBVIOUS
    <2> HIDE DEF pos, j
    <2> QED
      BY <1>1, <2>1, <2>2
  <1> QED
    BY <1>2, <1>7, <1>8

\* The share of a block in the first n positions.
LEMMA FilledProperties ==
    ASSUME NEW n \in Nat, NEW i \in Nat \ {0}
    PROVE  /\ Filled(n, i) \in 0 .. BlockSize
           /\ Filled(n, i) = BlockSize <=> i * BlockSize <= n
           /\ \A o \in 0 .. BlockSize - 1 : o < Filled(n, i) <=> Base(i) + o < n
           /\ \A m \in Nat : m <= n => Filled(m, i) <= Filled(n, i)
           /\ n <= Base(i) <=> Filled(n, i) = 0
           /\ Filled(n, i) > 0 => Base(i) + Filled(n, i) <= n
  BY Blocks DEF Filled

-----------------------------------------------------------------------------
(* Texts.                                                                  *)

\* A slice of a text has the tokens of the text in its block.
LEMMA SliceProperties ==
    ASSUME NEW text \in Seq(Tokens), NEW i \in Nat \ {0}
    PROVE  /\ BlockSlice(text, i) \in Seq(Tokens)
           /\ Len(BlockSlice(text, i)) = Filled(Len(text), i)
           /\ \A j \in 1 .. Filled(Len(text), i) : BlockSlice(text, i)[j] = text[Base(i) + j]
  <1>1. /\ Base(i) \in Nat /\ BlockSize \in Nat /\ BlockSize > 0
        /\ i * BlockSize = Base(i) + BlockSize /\ i * BlockSize \in Nat
    BY Blocks
  <1> DEFINE from == Base(i) + 1
             to == Min({i * BlockSize, Len(text)})
  <1>2. Len(text) \in Nat /\ to = IF i * BlockSize <= Len(text) THEN i * BlockSize ELSE Len(text)
    BY <1>1, MinOfTwo
  <1>3. BlockSlice(text, i) = SubSeq(text, from, to)
    BY DEF BlockSlice, Base
  <1>4. to \in Int /\ to <= Len(text) /\ from \in Int
    BY <1>1, <1>2
  <1>5. Filled(Len(text), i) = IF from <= to THEN to - from + 1 ELSE 0
    BY <1>1, <1>2 DEF Filled
  <1>6. \A j \in from .. to : text[j] \in Tokens
    <2> HIDE DEF to
    <2> QED
      BY <1>1, <1>4
  <1> HIDE DEF to
  <1>7. /\ SubSeq(text, from, to) \in Seq(Tokens)
        /\ Len(SubSeq(text, from, to)) = IF from <= to THEN to - from + 1 ELSE 0
        /\ \A j \in 1 .. to - from + 1 : SubSeq(text, from, to)[j] = text[from + j - 1]
    <2> HIDE DEF from
    <2> QED
      BY <1>4, <1>6, SubSeqProperties
  <1>8. \A j \in 1 .. Filled(Len(text), i) :
            j \in 1 .. to - from + 1 /\ from + j - 1 = Base(i) + j
    BY <1>1, <1>4, <1>5
  <1> QED
    BY <1>3, <1>5, <1>7, <1>8

\* The first n tokens of a text.
LEMMA PrefixProperties ==
    ASSUME NEW text \in Seq(Tokens), NEW n \in 0 .. Len(text)
    PROVE  /\ SubSeq(text, 1, n) \in Seq(Tokens)
           /\ Len(SubSeq(text, 1, n)) = n
           /\ \A j \in 1 .. n : SubSeq(text, 1, n)[j] = text[j]
  <1>1. n \in Int /\ \A j \in 1 .. n : text[j] \in Tokens
    OBVIOUS
  <1>2. /\ SubSeq(text, 1, n) \in Seq(Tokens)
        /\ Len(SubSeq(text, 1, n)) = IF 1 <= n THEN n - 1 + 1 ELSE 0
        /\ \A j \in 1 .. n - 1 + 1 : SubSeq(text, 1, n)[j] = text[1 + j - 1]
    BY <1>1, SubSeqProperties
  <1> QED
    BY <1>2

\* A text that grows keeps its prefixes.
LEMMA GrowPrefix ==
    ASSUME NEW text \in Seq(Tokens), NEW tokens \in Seq(Tokens), NEW n \in 0 .. Len(text)
    PROVE  SubSeq(text \o tokens, 1, n) = SubSeq(text, 1, n)
  <1> DEFINE whole == text \o tokens
  <1>1. /\ whole \in Seq(Tokens) /\ Len(whole) = Len(text) + Len(tokens)
        /\ \A j \in 1 .. Len(text) : whole[j] = text[j]
    BY ConcatProperties
  <1> HIDE DEF whole
  <1>2. n \in 0 .. Len(whole)
    BY <1>1
  <1>3. /\ SubSeq(whole, 1, n) \in Seq(Tokens) /\ Len(SubSeq(whole, 1, n)) = n
        /\ \A j \in 1 .. n : SubSeq(whole, 1, n)[j] = whole[j]
    BY <1>1, <1>2, PrefixProperties
  <1>4. /\ SubSeq(text, 1, n) \in Seq(Tokens) /\ Len(SubSeq(text, 1, n)) = n
        /\ \A j \in 1 .. n : SubSeq(text, 1, n)[j] = text[j]
    BY PrefixProperties
  <1>5. \A j \in 1 .. n : SubSeq(whole, 1, n)[j] = SubSeq(text, 1, n)[j]
    BY <1>1, <1>3, <1>4
  <1>6. SubSeq(whole, 1, n) = SubSeq(text, 1, n)
    BY <1>3, <1>4, <1>5, SeqEqual
  <1> QED
    BY <1>6 DEF whole

\* A prefix of a prefix.
LEMMA SubPrefix ==
    ASSUME NEW text \in Seq(Tokens), NEW n \in 0 .. Len(text), NEW m \in 0 .. n
    PROVE  SubSeq(SubSeq(text, 1, n), 1, m) = SubSeq(text, 1, m)
  <1> DEFINE part == SubSeq(text, 1, n)
  <1>1. /\ part \in Seq(Tokens) /\ Len(part) = n /\ \A j \in 1 .. n : part[j] = text[j]
    BY PrefixProperties
  <1> HIDE DEF part
  <1>2. m \in 0 .. Len(part) /\ m \in 0 .. Len(text)
    BY <1>1
  <1>3. /\ SubSeq(part, 1, m) \in Seq(Tokens) /\ Len(SubSeq(part, 1, m)) = m
        /\ \A j \in 1 .. m : SubSeq(part, 1, m)[j] = part[j]
    BY <1>1, <1>2, PrefixProperties
  <1>4. /\ SubSeq(text, 1, m) \in Seq(Tokens) /\ Len(SubSeq(text, 1, m)) = m
        /\ \A j \in 1 .. m : SubSeq(text, 1, m)[j] = text[j]
    BY <1>2, PrefixProperties
  <1>5. \A j \in 1 .. m : SubSeq(part, 1, m)[j] = SubSeq(text, 1, m)[j]
    BY <1>1, <1>3, <1>4
  <1>6. SubSeq(part, 1, m) = SubSeq(text, 1, m)
    BY <1>3, <1>4, <1>5, SeqEqual
  <1> QED
    BY <1>6 DEF part

\* A block that is full before the new tokens keeps its slice.
LEMMA GrowSlice ==
    ASSUME NEW text \in Seq(Tokens), NEW tokens \in Seq(Tokens), NEW i \in Nat \ {0},
           Filled(Len(text) + Len(tokens), i) = Filled(Len(text), i)
    PROVE  BlockSlice(text \o tokens, i) = BlockSlice(text, i)
  <1> DEFINE whole == text \o tokens
             n == Filled(Len(text), i)
  <1>1. /\ whole \in Seq(Tokens) /\ Len(whole) = Len(text) + Len(tokens)
        /\ \A j \in 1 .. Len(text) : whole[j] = text[j]
    BY ConcatProperties
  <1> HIDE DEF whole
  <1>2. /\ BlockSlice(whole, i) \in Seq(Tokens) /\ Len(BlockSlice(whole, i)) = n
        /\ \A j \in 1 .. n : BlockSlice(whole, i)[j] = whole[Base(i) + j]
    <2>1. Filled(Len(whole), i) = n
      BY <1>1
    <2> HIDE DEF n
    <2> QED
      BY <1>1, <2>1, SliceProperties
  <1>3. /\ BlockSlice(text, i) \in Seq(Tokens) /\ Len(BlockSlice(text, i)) = n
        /\ \A j \in 1 .. n : BlockSlice(text, i)[j] = text[Base(i) + j]
    BY SliceProperties
  <1>4. \A j \in 1 .. n : Base(i) + j \in 1 .. Len(text)
    <2>1. /\ n \in 0 .. BlockSize /\ (n > 0 => Base(i) + n <= Len(text))
          /\ Base(i) \in Nat /\ Len(text) \in Nat /\ BlockSize \in Nat
      BY FilledProperties, Blocks
    <2> HIDE DEF n
    <2> QED
      BY <2>1
  <1> HIDE DEF n
  <1>5. \A j \in 1 .. n : BlockSlice(whole, i)[j] = BlockSlice(text, i)[j]
    BY <1>1, <1>2, <1>3, <1>4
  <1>6. BlockSlice(whole, i) = BlockSlice(text, i)
    BY <1>2, <1>3, <1>5, SeqEqual
  <1> QED
    BY <1>6 DEF whole

\* slice is what text has behind its first b tokens.
IsRest(slice, text, b) ==
    /\ b + Len(slice) = Len(text)
    /\ \A j \in 1 .. Len(slice) : slice[j] = text[b + j]

\* upto is a prefix of tokens.
IsStart(upto, tokens) ==
    /\ Len(upto) <= Len(tokens)
    /\ \A j \in 1 .. Len(upto) : upto[j] = tokens[j]

\* upto brings text to the end of its i-th block.
EndsBlock(text, upto, i) == Len(text) + Len(upto) = i * BlockSize

\* Texts with the same tokens are the same.
LEMMA SameText ==
    ASSUME NEW s1 \in Seq(Tokens), NEW s2 \in Seq(Tokens),
           NEW n \in Nat, Len(s1) = n, Len(s2) = n, \A j \in 1 .. n : s1[j] = s2[j]
    PROVE  s1 = s2
  <1>1. Len(s1) = Len(s2) /\ \A j \in 1 .. Len(s1) : s1[j] = s2[j]
    OBVIOUS
  <1> QED
    BY <1>1, SeqEqual

\* A slice by the length of its text.
LEMMA SliceOf ==
    ASSUME NEW text \in Seq(Tokens), NEW i \in Nat \ {0}, NEW old \in Nat, Len(text) = old,
           NEW b, Base(i) = b, NEW m \in Nat, Filled(old, i) = m
    PROVE  \E slice \in Seq(Tokens) :
            /\ BlockSlice(text, i) = slice /\ Len(slice) = m
            /\ \A j \in 1 .. m : slice[j] = text[b + j]
  <1>1. Filled(Len(text), i) = m
    OBVIOUS
  <1>2. PICK slice \in Seq(Tokens) : BlockSlice(text, i) = slice
    BY SliceProperties
  <1>3. /\ Len(slice) = Filled(Len(text), i)
        /\ \A j \in 1 .. Filled(Len(text), i) : slice[j] = text[Base(i) + j]
    BY <1>2, SliceProperties
  <1> QED
    BY <1>1, <1>2, <1>3

\* Of the tokens that follow a text, those from skip on and up to `to` are in block i.
Adds(text, tokens, i, skip, to) ==
    \E old \in Nat, new \in Nat, b \in Nat, e \in Nat :
        /\ Len(text) = old /\ Len(tokens) = new /\ Base(i) = b /\ b + BlockSize = e
        /\ b < old + new /\ old < e
        /\ e - old <= new => e - old = to
        /\ ~ (e - old <= new) => new = to
        /\ b <= old => skip = 0
        /\ ~ (b <= old) => b - old = skip

\* And with them the slice of block i is that of the longer text.
Completes(text, tokens, i, skip, to) ==
    BlockSlice(text, i) \o SubSeq(tokens, skip + 1, to) = BlockSlice(text \o tokens, i)

\* What append_and_record adds to a page completes the slice of the longer text.
LEMMA RecordSlice ==
    ASSUME NEW text \in Seq(Tokens), NEW tokens \in Seq(Tokens), NEW i \in Nat \ {0},
           NEW skip \in Int, NEW to \in Int, Adds(text, tokens, i, skip, to)
    PROVE  BlockSlice(text, i) \o SubSeq(tokens, skip + 1, to) = BlockSlice(text \o tokens, i)
  <1>0. PICK old \in Nat, new \in Nat, b \in Nat, e \in Nat :
            /\ Len(text) = old /\ Len(tokens) = new /\ Base(i) = b /\ b + BlockSize = e
            /\ b < old + new /\ old < e
            /\ e - old <= new => e - old = to
            /\ ~ (e - old <= new) => new = to
            /\ b <= old => skip = 0
            /\ ~ (b <= old) => b - old = skip
    BY DEF Adds
  <1>1. BlockSize \in Nat /\ BlockSize > 0
    BY BlockSizeAssumption
  <1>2. PICK whole \in Seq(Tokens) : text \o tokens = whole
    BY <1>0, ConcatProperties
  <1>3. /\ Len(whole) = old + new
        /\ \A j \in 1 .. old + new : whole[j] = IF j <= old THEN text[j] ELSE tokens[j - old]
    BY <1>0, <1>2, ConcatProperties
  <1>4. PICK m \in Int :
            /\ Filled(old, i) = m
            /\ old <= b => m = 0
            /\ ~ (old <= b) => old - b = m
    <2>1. /\ Filled(old, i) \in Int
          /\ old <= b => Filled(old, i) = 0
          /\ ~ (old <= b) => Filled(old, i) = old - b
      BY <1>0, <1>1 DEF Filled
    <2> QED
      BY <1>0, <2>1
  <1>5. PICK n \in Int :
            /\ Filled(old + new, i) = n
            /\ old + new >= e => e - b = n
            /\ ~ (old + new >= e) => old + new - b = n
    <2>1. /\ Filled(old + new, i) \in Int
          /\ old + new >= e => Filled(old + new, i) = e - b
          /\ ~ (old + new >= e) => Filled(old + new, i) = old + new - b
      BY <1>0, <1>1 DEF Filled
    <2> QED
      BY <1>0, <2>1
  <1>6. PICK left \in Seq(Tokens) :
            /\ BlockSlice(text, i) = left /\ Len(left) = m
            /\ \A j \in 1 .. m : left[j] = text[b + j]
    <2>1. Filled(Len(text), i) = m
      BY <1>0, <1>4
    <2> QED
      BY <1>0, <2>1, SliceProperties, Zenon
  <1>7. PICK slice \in Seq(Tokens) :
            /\ BlockSlice(whole, i) = slice /\ Len(slice) = n
            /\ \A j \in 1 .. n : slice[j] = whole[b + j]
    <2>1. /\ BlockSlice(whole, i) \in Seq(Tokens)
          /\ Len(BlockSlice(whole, i)) = Filled(Len(whole), i)
          /\ \A j \in 1 .. Filled(Len(whole), i) : BlockSlice(whole, i)[j] = whole[Base(i) + j]
      BY <1>0, SliceProperties
    <2>2. Filled(Len(whole), i) = n
      BY <1>0, <1>3, <1>5
    <2> QED
      BY <1>0, <2>1, <2>2
  <1>8. skip \in Nat /\ to \in Nat /\ skip <= to /\ to <= new
    BY <1>0, <1>1
  <1>9. PICK part \in Seq(Tokens) :
            /\ SubSeq(tokens, skip + 1, to) = part /\ Len(part) = to - skip
            /\ \A j \in 1 .. to - skip : part[j] = tokens[skip + j]
    <2>1. PICK from \in Nat : skip + 1 = from
      BY <1>0, <1>8
    <2>2. \A j \in from .. to : tokens[j] \in Tokens
      BY <1>0, <1>8, <2>1
    <2>3. /\ SubSeq(tokens, from, to) \in Seq(Tokens)
          /\ Len(SubSeq(tokens, from, to)) = IF from <= to THEN to - from + 1 ELSE 0
          /\ \A j \in 1 .. to - from + 1 : SubSeq(tokens, from, to)[j] = tokens[from + j - 1]
      BY <1>0, <2>2, SubSeqProperties
    <2>4. \A j \in 1 .. to - skip : j \in 1 .. to - from + 1 /\ from + j - 1 = skip + j
      BY <1>0, <1>8, <2>1
    <2>5. PICK part \in Seq(Tokens) : SubSeq(tokens, from, to) = part
      BY <1>0, <2>3
    <2>6. Len(part) = to - skip
      <3>1. Len(part) = IF from <= to THEN to - from + 1 ELSE 0
        BY <1>0, <2>3, <2>5
      <3> QED
        BY <1>0, <1>8, <2>1, <3>1
    <2>7. \A j \in 1 .. to - skip : part[j] = tokens[skip + j]
      BY <1>0, <2>3, <2>4, <2>5
    <2>8. SubSeq(tokens, skip + 1, to) = part
      BY <1>0, <2>1, <2>5
    <2> QED
      BY <1>0, <2>6, <2>7, <2>8
  <1>10. PICK both \in Seq(Tokens) :
            /\ left \o part = both /\ Len(both) = m + (to - skip)
            /\ \A j \in 1 .. m + (to - skip) : both[j] = IF j <= m THEN left[j] ELSE part[j - m]
    <2>1. PICK both \in Seq(Tokens) : left \o part = both
      BY <1>0, ConcatProperties
    <2>2. /\ Len(both) = Len(left) + Len(part)
          /\ \A j \in 1 .. Len(left) + Len(part) :
                both[j] = IF j <= Len(left) THEN left[j] ELSE part[j - Len(left)]
      BY <1>0, <2>1, ConcatProperties
    <2>3. Len(left) = m /\ Len(part) = to - skip
      BY <1>0, <1>6, <1>9
    <2> QED
      BY <1>0, <2>1, <2>2, <2>3
  <1>11. m + (to - skip) = n /\ m >= 0
    BY <1>0, <1>4, <1>5
  <1>12. ASSUME NEW j \in 1 .. n
         PROVE  both[j] = slice[j]
    <2>1. PICK pos \in 1 .. old + new : b + j = pos
      BY <1>0, <1>1, <1>5
    <2>2. slice[j] = whole[pos]
      BY <1>0, <1>7, <2>1
    <2>3. whole[pos] = IF pos <= old THEN text[pos] ELSE tokens[pos - old]
      BY <1>0, <1>3
    <2>4. both[j] = IF j <= m THEN left[j] ELSE part[j - m]
      BY <1>0, <1>10, <1>11
    <2>5. CASE j <= m
      <3>1. pos <= old /\ j \in 1 .. m
        BY <1>0, <1>4, <2>1, <2>5
      <3>2. left[j] = text[pos]
        BY <1>0, <1>6, <2>1, <3>1
      <3> QED
        BY <1>0, <2>2, <2>3, <2>4, <2>5, <3>1, <3>2
    <2>6. CASE j > m
      <3>1. PICK k \in 1 .. to - skip : j - m = k /\ skip + k = pos - old /\ ~ (pos <= old) /\ ~ (j <= m)
        BY <1>0, <1>4, <1>5, <1>11, <2>1, <2>6
      <3>2. part[k] = tokens[pos - old]
        BY <1>0, <1>9, <3>1
      <3> QED
        BY <1>0, <2>2, <2>3, <2>4, <3>1, <3>2
    <2> QED
      BY <1>0, <2>5, <2>6
  <1>13. both = slice
    BY <1>0, <1>7, <1>10, <1>11, <1>12, SeqEqual
  <1> QED
    BY <1>0, <1>2, <1>6, <1>7, <1>9, <1>10, <1>13

\* A prefix of a text and the rest of it are the text, whatever follows.
LEMMA PrefixAndRest ==
    ASSUME NEW text \in Seq(Tokens), NEW slice \in Seq(Tokens), NEW upto \in Seq(Tokens),
           NEW b \in Nat, IsRest(slice, text, b)
    PROVE  SubSeq(text, 1, b) \o (slice \o upto) = text \o upto
  <1>1. PICK old \in Nat, m \in Nat, k \in Nat, n \in Nat, mk \in Nat :
            /\ Len(text) = old /\ Len(slice) = m /\ Len(upto) = k
            /\ b + m = old /\ old + k = n /\ m + k = mk /\ b + mk = n
    BY DEF IsRest
  <1>2. \A j \in 1 .. m : slice[j] = text[b + j]
    BY <1>1 DEF IsRest
  <1>3. PICK whole \in Seq(Tokens) :
            /\ text \o upto = whole /\ Len(whole) = n
            /\ \A j \in 1 .. n : whole[j] = IF j <= old THEN text[j] ELSE upto[j - old]
    <2>1. PICK whole \in Seq(Tokens) : text \o upto = whole
      BY ConcatProperties
    <2>2. /\ Len(whole) = Len(text) + Len(upto)
          /\ \A j \in 1 .. Len(text) + Len(upto) :
                whole[j] = IF j <= Len(text) THEN text[j] ELSE upto[j - Len(text)]
      BY <2>1, ConcatProperties
    <2>3. Len(text) + Len(upto) = n /\ Len(text) = old
      BY <1>1
    <2> QED
      BY <2>1, <2>2, <2>3
  <1>4. PICK parent \in Seq(Tokens) :
            /\ SubSeq(text, 1, b) = parent /\ Len(parent) = b
            /\ \A j \in 1 .. b : parent[j] = text[j]
    <2>1. b \in 0 .. Len(text)
      BY <1>1
    <2> QED
      BY <2>1, PrefixProperties
  <1>5. PICK tail \in Seq(Tokens) :
            /\ slice \o upto = tail /\ Len(tail) = mk
            /\ \A j \in 1 .. mk : tail[j] = IF j <= m THEN slice[j] ELSE upto[j - m]
    <2>1. PICK tail \in Seq(Tokens) : slice \o upto = tail
      BY ConcatProperties
    <2>2. /\ Len(tail) = Len(slice) + Len(upto)
          /\ \A j \in 1 .. Len(slice) + Len(upto) :
                tail[j] = IF j <= Len(slice) THEN slice[j] ELSE upto[j - Len(slice)]
      BY <2>1, ConcatProperties
    <2>3. Len(slice) + Len(upto) = mk /\ Len(slice) = m
      BY <1>1
    <2> QED
      BY <2>1, <2>2, <2>3
  <1>6. PICK hash \in Seq(Tokens) :
            /\ parent \o tail = hash /\ Len(hash) = n
            /\ \A j \in 1 .. n : hash[j] = IF j <= b THEN parent[j] ELSE tail[j - b]
    <2>1. PICK hash \in Seq(Tokens) : parent \o tail = hash
      BY ConcatProperties
    <2>2. /\ Len(hash) = Len(parent) + Len(tail)
          /\ \A j \in 1 .. Len(parent) + Len(tail) :
                hash[j] = IF j <= Len(parent) THEN parent[j] ELSE tail[j - Len(parent)]
      BY <2>1, ConcatProperties
    <2>3. Len(parent) + Len(tail) = n /\ Len(parent) = b
      BY <1>1, <1>4, <1>5
    <2> QED
      BY <2>1, <2>2, <2>3
  <1>7. ASSUME NEW j \in 1 .. n
        PROVE  hash[j] = whole[j]
    <2>1. whole[j] = IF j <= old THEN text[j] ELSE upto[j - old]
      BY <1>3
    <2>2. hash[j] = IF j <= b THEN parent[j] ELSE tail[j - b]
      BY <1>6
    <2>3. CASE j <= b
      <3>1. j <= old /\ j \in 1 .. b
        BY <1>1, <2>3
      <3> QED
        BY <1>4, <2>1, <2>2, <2>3, <3>1
    <2>4. CASE j > b /\ j <= old
      <3>1. PICK i \in 1 .. mk : j - b = i /\ i \in 1 .. m /\ i <= m /\ b + i = j /\ ~ (j <= b)
        BY <1>1, <2>4
      <3>2. tail[i] = slice[i]
        BY <1>5, <3>1
      <3>3. slice[i] = text[j]
        BY <1>2, <3>1
      <3> QED
        BY <2>1, <2>2, <2>4, <3>1, <3>2, <3>3
    <2>5. CASE j > old
      <3>1. PICK i \in 1 .. mk : j - b = i /\ ~ (i <= m) /\ ~ (j <= b) /\ ~ (j <= old)
        <4>1. j - b <= mk
          BY <1>1
        <4>2. ~ (j - b <= m) /\ ~ (j <= b) /\ ~ (j <= old) /\ j - b >= 1
          BY <1>1, <2>5
        <4> QED
          BY <4>1, <4>2
      <3>2. i - m = j - old
        BY <1>1, <3>1
      <3>3. tail[i] = upto[j - old]
        BY <1>5, <3>1, <3>2
      <3> QED
        BY <2>1, <2>2, <3>1, <3>3
    <2> QED
      BY <1>1, <2>3, <2>4, <2>5
  <1>8. hash = whole
    BY <1>3, <1>6, <1>7, SameText
  <1> QED
    BY <1>3, <1>4, <1>5, <1>6, <1>8

\* The hash of block i of text \o tokens is what text and upto concatenate to.
HashesTo(text, upto, tokens, i) ==
    text \o upto = PrefixHash(text \o tokens, i)

\* A text with the start of the new tokens is the start of the longer text.
LEMMA StartOfWhole ==
    ASSUME NEW text \in Seq(Tokens), NEW tokens \in Seq(Tokens), NEW upto \in Seq(Tokens),
           IsStart(upto, tokens), NEW i \in Nat \ {0}, EndsBlock(text, upto, i)
    PROVE  text \o upto = PrefixHash(text \o tokens, i)
  <1>1. PICK old \in Nat, new \in Nat, k \in Nat, n \in Nat :
            /\ Len(text) = old /\ Len(tokens) = new /\ Len(upto) = k
            /\ k <= new /\ old + k = n
    BY DEF IsStart
  <1>2. \A j \in 1 .. k : upto[j] = tokens[j]
    BY <1>1 DEF IsStart
  <1>3. PICK whole \in Seq(Tokens) :
            /\ text \o tokens = whole /\ Len(whole) = old + new
            /\ \A j \in 1 .. old + new : whole[j] = IF j <= old THEN text[j] ELSE tokens[j - old]
    <2>1. PICK whole \in Seq(Tokens) : text \o tokens = whole
      BY ConcatProperties
    <2>2. /\ Len(whole) = Len(text) + Len(tokens)
          /\ \A j \in 1 .. Len(text) + Len(tokens) :
                whole[j] = IF j <= Len(text) THEN text[j] ELSE tokens[j - Len(text)]
      BY <2>1, ConcatProperties
    <2>3. Len(text) + Len(tokens) = old + new /\ Len(text) = old
      BY <1>1
    <2> QED
      BY <2>1, <2>2, <2>3
  <1>4. PICK part \in Seq(Tokens) :
            /\ text \o upto = part /\ Len(part) = n
            /\ \A j \in 1 .. n : part[j] = IF j <= old THEN text[j] ELSE upto[j - old]
    <2>1. PICK part \in Seq(Tokens) : text \o upto = part
      BY ConcatProperties
    <2>2. /\ Len(part) = Len(text) + Len(upto)
          /\ \A j \in 1 .. Len(text) + Len(upto) :
                part[j] = IF j <= Len(text) THEN text[j] ELSE upto[j - Len(text)]
      BY <2>1, ConcatProperties
    <2>3. Len(text) + Len(upto) = n /\ Len(text) = old
      BY <1>1
    <2> QED
      BY <2>1, <2>2, <2>3
  <1>5. PICK prefix \in Seq(Tokens) :
            /\ SubSeq(whole, 1, n) = prefix /\ Len(prefix) = n
            /\ \A j \in 1 .. n : prefix[j] = whole[j]
    <2>1. n \in 0 .. Len(whole)
      BY <1>1, <1>3
    <2> QED
      BY <2>1, PrefixProperties
  <1>6. ASSUME NEW j \in 1 .. n
        PROVE  part[j] = prefix[j]
    <2>1. j \in 1 .. old + new
      BY <1>1
    <2>2. prefix[j] = IF j <= old THEN text[j] ELSE tokens[j - old]
      BY <1>3, <1>5, <2>1
    <2>3. part[j] = IF j <= old THEN text[j] ELSE upto[j - old]
      BY <1>4
    <2>4. ~ (j <= old) => j - old \in 1 .. k
      BY <1>1
    <2> QED
      BY <1>2, <2>2, <2>3, <2>4
  <1>7. part = prefix
    BY <1>4, <1>5, <1>6, SameText
  <1>8. i * BlockSize = n
    BY <1>1 DEF EndsBlock
  <1> QED
    BY <1>3, <1>4, <1>5, <1>7, <1>8 DEF PrefixHash

\* The chained hash of a page that fills up digests the whole text before its end.
LEMMA RecordHash ==
    ASSUME NEW text \in Seq(Tokens), NEW upto \in Seq(Tokens), NEW first \in Nat \ {0},
           Base(first) <= Len(text), Len(text) < first * BlockSize
    PROVE  compute_block_hash(IF first = 1 THEN NoHash ELSE PrefixHash(text, first - 1),
                              BlockSlice(text, first) \o upto)
                = text \o upto
  <1> DEFINE parent == IF first = 1 THEN NoHash ELSE PrefixHash(text, first - 1)
             slice == BlockSlice(text, first)
  <1>1. /\ Base(first) \in Nat /\ first * BlockSize = Base(first) + BlockSize
        /\ BlockSize \in Nat /\ BlockSize > 0
    BY Blocks
  <1>2. SubSeq(text, 1, Base(first)) = parent
    <2>1. CASE first = 1
      <3>1. Base(first) = 0
        BY <1>1, <2>1 DEF Base
      <3>2. SubSeq(text, 1, 0) = <<>>
        BY SubSeqEmpty
      <3> QED
        BY <2>1, <3>1, <3>2 DEF NoHash
    <2>2. CASE first # 1
      BY <2>2 DEF PrefixHash, Base
    <2> QED
      BY <2>1, <2>2
  <1>3. Filled(Len(text), first) = Len(text) - Base(first)
    BY <1>1 DEF Filled
  <1>4. /\ slice \in Seq(Tokens) /\ Len(slice) = Filled(Len(text), first)
        /\ \A j \in 1 .. Filled(Len(text), first) : slice[j] = text[Base(first) + j]
    BY SliceProperties
  <1> HIDE DEF parent, slice
  <1>5. IsRest(slice, text, Base(first))
    BY <1>1, <1>3, <1>4 DEF IsRest
  <1>6. \A t, r \in Seq(Tokens), b \in Nat :
            IsRest(r, t, b) => SubSeq(t, 1, b) \o (r \o upto) = t \o upto
    BY PrefixAndRest, SMTT(30)
  <1>7. slice \in Seq(Tokens)
    BY <1>4
  <1>8. SubSeq(text, 1, Base(first)) \o (slice \o upto) = text \o upto
    BY <1>1, <1>5, <1>6, <1>7
  <1> QED
    BY <1>2, <1>8 DEF parent, slice, compute_block_hash

-----------------------------------------------------------------------------
(* Pages a step does not write.                                            *)

\* A step leaves page p as it is.
Untouched(p) ==
    /\ block_tokens'[p] = block_tokens[p] /\ block_hash'[p] = block_hash[p]
    /\ computed_tokens'[p] = computed_tokens[p] /\ kv'[p] = kv[p]

\* A step leaves the state of request r as it is.
Idle(r) ==
    /\ status'[r] = status[r] /\ work'[r] = work[r] /\ num_tokens'[r] = num_tokens[r]
    /\ num_computed'[r] = num_computed[r] /\ query'[r] = query[r]
    /\ block_table'[r] = block_table[r] /\ token_ids'[r] = token_ids[r]
    /\ prompt_len'[r] = prompt_len[r]

\* An untouched page holds what it held.
LEMMA PageKept ==
    ASSUME NEW p, NEW text, NEW i, NEW end, PageHolds(p, text, i, end), Untouched(p)
    PROVE  PageHolds(p, text, i, end)'
  BY DEF PageHolds, Untouched

\* A request that takes no part in a step keeps its contents if its pages do.
LEMMA ContentsElsewhere ==
    ASSUME NEW r \in Seqs, Contents(r), Idle(r),
           \A p \in Range(block_table[r]) : Untouched(p)
    PROVE  Contents(r)'
  <1>1. ValidEnd(r)' = ValidEnd(r)
    BY DEF Idle, ValidEnd, Start, IsPrefilling, uncomputed_tokens
  <1>2. block_table'[r] = block_table[r] /\ token_ids'[r] = token_ids[r]
    BY DEF Idle
  <1>3. ASSUME NEW i \in DOMAIN block_table[r], block_table[r] # <<>>
        PROVE  PageHolds(block_table[r][i], token_ids[r], i, ValidEnd(r))'
    <2>1. block_table[r][i] \in Range(block_table[r])
      BY DEF Range
    <2>2. PageHolds(block_table[r][i], token_ids[r], i, ValidEnd(r))
      BY <1>3 DEF Contents
    <2> DEFINE p == block_table[r][i]
               t == token_ids[r]
               e == ValidEnd(r)
    <2>3. p' = p /\ t' = t /\ e' = e
      BY <1>1, <1>2
    <2>4. Untouched(p)
      BY <2>1
    <2> QED
      BY <2>2, <2>3, <2>4 DEF PageHolds, Untouched
  <1> QED
    BY <1>2, <1>3 DEF Contents

\* The page and the offset of a position that the block table reaches.
LEMMA SlotOf ==
    ASSUME BlockManagerTypeOK, NEW s \in Seqs, NEW pos \in Nat,
           pos < Len(block_table[s]) * BlockSize
    PROVE  \E i \in DOMAIN block_table[s] :
            /\ i \in Nat \ {0}
            /\ i = pos \div BlockSize + 1
            /\ physical_block_id(s, pos) = block_table[s][i]
            /\ block_table[s][i] \in Range(block_table[s])
            /\ block_table[s][i] \in Pages
            /\ Offset(pos) \in 0 .. BlockSize - 1
            /\ pos = Base(i) + Offset(pos)
  <1> DEFINE i == pos \div BlockSize + 1
  <1>1. i \in 1 .. Len(block_table[s]) /\ Range(block_table[s]) \subseteq Pages
    BY PositionMapped
  <1>2. block_table[s] \in Seq(Pages)
    BY DEF BlockManagerTypeOK
  <1>3. i \in DOMAIN block_table[s]
    BY <1>1, <1>2
  <1>4. i \in Nat \ {0} /\ Offset(pos) \in 0 .. BlockSize - 1 /\ pos = Base(i) + Offset(pos)
    BY PositionBounds
  <1>5. physical_block_id(s, pos) = block_table[s][i]
    BY DEF physical_block_id
  <1>6. i = pos \div BlockSize + 1
    OBVIOUS
  <1> HIDE DEF i
  <1>7. block_table[s][i] \in Range(block_table[s])
    BY <1>3 DEF Range
  <1> QED
    BY <1>1, <1>3, <1>4, <1>5, <1>6, <1>7

\* No table has a page twice, so a page knows its logical block.
LEMMA LogicalBlockOf ==
    ASSUME NEW table, IsInjective(table), NEW i \in DOMAIN table
    PROVE  LogicalBlock(table, table[i]) = i
  <1>1. table[i] \in Range(table)
    BY DEF Range
  <1>2. /\ LogicalBlock(table, table[i]) \in DOMAIN table
        /\ table[LogicalBlock(table, table[i])] = table[i]
    BY <1>1, LogicalBlockIndex
  <1> QED
    BY <1>2 DEF IsInjective

\* The requests and their pages, by the types of their variables.
LEMMA Tables ==
    ASSUME TypeOK, NEW s \in Seqs
    PROVE  /\ block_table[s] \in Seq(Pages) /\ token_ids[s] \in Seq(Tokens)
           /\ query[s] \in Seq(Tokens)
           /\ DOMAIN block_table[s] = 1 .. Len(block_table[s])
           /\ Range(block_table[s]) \subseteq Pages
           /\ \A i \in DOMAIN block_table[s] :
                i \in Nat \ {0} /\ block_table[s][i] \in Pages
                                /\ block_table[s][i] \in Range(block_table[s])
  <1>1. /\ block_table[s] \in Seq(Pages) /\ token_ids[s] \in Seq(Tokens)
        /\ query[s] \in Seq(Tokens)
    BY DEF TypeOK, BlockManagerTypeOK
  <1> QED
    BY <1>1 DEF Range

\* A request that takes no part in a step keeps its forward pass if its pages
\* keep their K/V.
LEMMA InFlightElsewhere ==
    ASSUME Inv, NEW r \in Seqs, InFlight(r), Idle(r),
           \A p \in Range(block_table[r]) : kv'[p] = kv[p]
    PROVE  InFlight(r)'
  <1>1. /\ work'[r] = work[r] /\ num_tokens'[r] = num_tokens[r] /\ query'[r] = query[r]
        /\ token_ids'[r] = token_ids[r]
    BY DEF Idle
  <1>2. Start(r)' = Start(r) /\ IsPrefilling(r)' = IsPrefilling(r)
        /\ num_generated(r)' = num_generated(r)
    BY DEF Idle, Start, IsPrefilling, uncomputed_tokens, num_generated
  <1>3. ASSUME work[r] = "forwarded", NEW pos \in Start(r) .. Start(r) + Len(query[r]) - 1
        PROVE  (kv[physical_block_id(r, pos)][Offset(pos)])' = (Fed(r, pos))'
    <2>1. /\ Start(r) \in Nat /\ Len(query[r]) \in Nat
          /\ Start(r) + Len(query[r]) <= Len(block_table[r]) * BlockSize
          /\ Len(block_table[r]) * BlockSize \in Nat
      <3>1. TypeOK
        BY DEF Inv
      <3> QED
        BY <1>3, <3>1, ForwardedReserved, Counts
    <2>2. pos \in Nat /\ pos < Len(block_table[r]) * BlockSize
      BY <2>1
    <2>3. physical_block_id(r, pos) \in Range(block_table[r])
      BY <2>2, PositionMapped DEF Inv, TypeOK
    <2>4. physical_block_id(r, pos)' = physical_block_id(r, pos)
      BY DEF physical_block_id, Idle
    <2>5. kv[physical_block_id(r, pos)][Offset(pos)] = Fed(r, pos)
      BY <1>3 DEF InFlight
    <2>6. (kv[physical_block_id(r, pos)][Offset(pos)])' = kv[physical_block_id(r, pos)][Offset(pos)]
      BY <2>3, <2>4 DEF Offset
    <2>7. (Fed(r, pos))' = Fed(r, pos)
      BY <1>1, <1>2 DEF Fed
    <2> QED
      BY <2>5, <2>6, <2>7
  <1> QED
    BY <1>1, <1>2, <1>3 DEF InFlight

-----------------------------------------------------------------------------
(* The index, the sharing and the bounds of pages across a step.           *)

\* A hash names a page that carries it and holds the hashed prefix.
IndexEntry(h, p) ==
    /\ block_hash[p] = h
    /\ computed_tokens[p] = BlockSize
    /\ \A o \in 0 .. BlockSize - 1 : kv[p][o] = SubSeq(h, 1, Len(h) - BlockSize + o + 1)

\* A page's K/V lies within its tokens, and these within the page.
Bounded(p) ==
    /\ computed_tokens[p] <= Len(block_tokens[p])
    /\ Len(block_tokens[p]) <= BlockSize

LEMMA IndexEntries ==
    IndexSound <=> \A h \in DOMAIN hash_to_block_id : IndexEntry(h, hash_to_block_id[h])
  BY DEF IndexSound, IndexEntry

LEMMA BoundedPages ==
    ValidBehindTokens <=> \A p \in Pages : Bounded(p)
  BY DEF ValidBehindTokens, Bounded

LEMMA EntryKept ==
    ASSUME NEW h, NEW p, IndexEntry(h, p), Untouched(p)
    PROVE  IndexEntry(h, p)'
  BY DEF IndexEntry, Untouched

LEMMA BoundedKept ==
    ASSUME NEW p, Bounded(p), Untouched(p)
    PROVE  Bounded(p)'
  BY DEF Bounded, Untouched

\* The index stays sound if what is left of it names untouched pages.
LEMMA IndexFrame ==
    ASSUME IndexSound,
           \A h \in DOMAIN hash_to_block_id' :
                /\ h \in DOMAIN hash_to_block_id
                /\ hash_to_block_id'[h] = hash_to_block_id[h]
                /\ Untouched(hash_to_block_id[h])
    PROVE  IndexSound'
  <1>1. ASSUME NEW h \in DOMAIN hash_to_block_id'
        PROVE  IndexEntry(h, hash_to_block_id[h])'
    <2> DEFINE p == hash_to_block_id[h]
    <2>1. IndexEntry(h, p) /\ Untouched(p) /\ p' = p
      BY IndexEntries
    <2> HIDE DEF p
    <2>2. (IndexEntry(h, p))'
      BY <2>1 DEF IndexEntry, Untouched
    <2> QED
      BY <2>2 DEF p
  <1> QED
    BY <1>1 DEF IndexSound, IndexEntry

\* Eviction takes every entry of an evicted page.
LEMMA Evicted ==
    ASSUME IndexSound, NEW F, NEW h \in DOMAIN IndexWithout(F)
    PROVE  /\ h \in DOMAIN hash_to_block_id
           /\ IndexWithout(F)[h] = hash_to_block_id[h]
           /\ hash_to_block_id[h] \notin F
  <1>1. h \in DOMAIN hash_to_block_id /\ IndexWithout(F)[h] = hash_to_block_id[h]
    BY EvictionShrinks
  <1>2. block_hash[hash_to_block_id[h]] = h
    BY <1>1 DEF IndexSound
  <1>3. ~ \E p \in F : h = block_hash[p] /\ IsIndexed(p)
    BY DEF IndexWithout, Restrict
  <1> QED
    BY <1>1, <1>2, <1>3 DEF IsIndexed

\* A page that is not computed throughout is in no other table ...
LEMMA OwnPage ==
    ASSUME SharedFull, NEW s \in Seqs, NEW r \in Seqs, r # s,
           NEW p \in Range(block_table[s]), computed_tokens[p] # BlockSize
    PROVE  p \notin Range(block_table[r])
  BY DEF SharedFull

\* ... and not in the index.
LEMMA NotIndexed ==
    ASSUME IndexSound, NEW p, computed_tokens[p] # BlockSize,
           NEW h \in DOMAIN hash_to_block_id
    PROVE  hash_to_block_id[h] # p
  BY DEF IndexSound

\* Sharing needs no care when tables only go and full pages stay full.
LEMMA SharedFrame ==
    ASSUME SharedFull,
           \A r \in Seqs : Range(block_table'[r]) \subseteq Range(block_table[r]),
           \A p \in Pages : computed_tokens[p] = BlockSize => computed_tokens'[p] = BlockSize,
           TypeOK
    PROVE  SharedFull'
  <1>1. \A r \in Seqs : Range(block_table[r]) \subseteq Pages
    BY Tables
  <1> QED
    BY <1>1 DEF SharedFull

\* A block that holds a text is within the text.
LEMMA HeldBounded ==
    ASSUME NEW p, NEW text \in Seq(Tokens), NEW i \in Nat \ {0}, NEW end \in Nat,
           end <= Len(text), PageHolds(p, text, i, end)
    PROVE  Bounded(p)
  <1>1. Len(block_tokens[p]) = Filled(Len(text), i) /\ computed_tokens[p] = Filled(end, i)
    BY SliceProperties DEF PageHolds
  <1>2. /\ Filled(Len(text), i) \in 0 .. BlockSize
        /\ Filled(end, i) <= Filled(Len(text), i)
    BY FilledProperties
  <1> QED
    BY <1>1, <1>2, BlockSizeAssumption DEF Bounded

\* A block that a position at or behind the end lies in is not full.
LEMMA NotFull ==
    ASSUME NEW end \in Nat, NEW i \in Nat \ {0}, NEW o \in 0 .. BlockSize - 1, end <= Base(i) + o
    PROVE  Filled(end, i) <= o /\ Filled(end, i) # BlockSize
  <1>1. Filled(end, i) \in 0 .. BlockSize /\ (o < Filled(end, i) <=> Base(i) + o < end)
    BY FilledProperties
  <1>2. Base(i) \in Nat /\ BlockSize \in Nat
    BY Blocks
  <1> QED
    BY <1>1, <1>2

\* What a step of request s has to show: its own contents, and that what it
\* writes is nobody else's.
LEMMA StepOf ==
    ASSUME KVInv, Inv', NEW s \in Seqs,
           \A r \in Seqs \ {s} : Idle(r) /\ \A p \in Range(block_table[r]) : Untouched(p),
           Contents(s)', InFlight(s)', IndexSound', SharedFull', ValidBehindTokens'
    PROVE  KVInv'
  <1>1. ASSUME NEW r \in Seqs, r # s
        PROVE  (Contents(r) /\ InFlight(r))'
    <2>1. Contents(r) /\ InFlight(r) /\ Inv
      BY DEF KVInv
    <2>2. Idle(r) /\ \A p \in Range(block_table[r]) : Untouched(p)
      BY <1>1
    <2>3. \A p \in Range(block_table[r]) : kv'[p] = kv[p]
      BY <2>2 DEF Untouched
    <2>4. Contents(r)'
      BY <2>1, <2>2, ContentsElsewhere
    <2>5. InFlight(r)'
      BY <2>1, <2>2, <2>3, InFlightElsewhere
    <2> QED
      BY <2>4, <2>5
  <1> QED
    BY <1>1 DEF KVInv

\* A step that writes no page and takes none.
LEMMA StillStep ==
    ASSUME KVInv, Inv', NEW s \in Seqs, UNCHANGED <<metaVars, kv>>,
           \A r \in Seqs \ {s} : Idle(r),
           Range(block_table'[s]) \subseteq Range(block_table[s]),
           Contents(s)', InFlight(s)'
    PROVE  KVInv'
  <1>1. \A p : Untouched(p)
    BY DEF Untouched, metaVars
  <1>2. IndexSound' /\ ValidBehindTokens'
    BY DEF KVInv, IndexSound, ValidBehindTokens, metaVars
  <1>3. SharedFull'
    <2>1. \A r \in Seqs : Range(block_table'[r]) \subseteq Range(block_table[r])
      BY DEF Idle
    <2> QED
      BY <2>1, SharedFrame DEF KVInv, Inv, metaVars
  <1> QED
    BY <1>1, <1>2, <1>3, StepOf

-----------------------------------------------------------------------------
(* The steps that write no page.                                           *)

LEMMA NothingHeld ==
    ASSUME NEW s \in Seqs, block_table'[s] = <<>>
    PROVE  Contents(s)'
  BY DEF Contents

LEMMA NothingInFlight ==
    ASSUME NEW s \in Seqs, work'[s] = "idle"
    PROVE  InFlight(s)'
  BY DEF InFlight

LEMMA SameContents ==
    ASSUME NEW s \in Seqs, Contents(s), UNCHANGED <<metaVars, kv>>,
           block_table'[s] = block_table[s], token_ids'[s] = token_ids[s],
           ValidEnd(s)' = ValidEnd(s)
    PROVE  Contents(s)'
  <1>1. ASSUME NEW i \in DOMAIN block_table[s], block_table[s] # <<>>
        PROVE  PageHolds(block_table[s][i], token_ids[s], i, ValidEnd(s))'
    <2> DEFINE p == block_table[s][i]
               t == token_ids[s]
               e == ValidEnd(s)
    <2>1. PageHolds(p, t, i, e)
      BY <1>1 DEF Contents
    <2>2. p' = p /\ t' = t /\ e' = e
      OBVIOUS
    <2> HIDE DEF p, t, e
    <2>3. PageHolds(p, t, i, e)'
      BY <2>1, <2>2 DEF PageHolds, metaVars
    <2> QED
      BY <2>3 DEF p, t, e
  <1> QED
    BY <1>1 DEF Contents

LEMMA InitKV == Init => KVInv
  <1> SUFFICES ASSUME Init
               PROVE  KVInv
    OBVIOUS
  <1>1. Inv
    BY InitInv
  <1>2. \A s \in Seqs : block_table[s] = <<>> /\ work[s] = "idle"
    BY DEF Init, BlockManagerInit
  <1>3. \A s \in Seqs : Contents(s) /\ InFlight(s)
    BY <1>2 DEF Contents, InFlight
  <1>4. ValidBehindTokens
    BY BlockSizeAssumption DEF Init, BlockManagerInit, ValidBehindTokens
  <1>5. IndexSound
    BY DEF Init, BlockManagerInit, IndexSound
  <1>6. SharedFull
    BY <1>2 DEF SharedFull, Range
  <1> QED
    BY <1>1, <1>3, <1>4, <1>5, <1>6 DEF KVInv

LEMMA AddRequestKV ==
    ASSUME KVInv, NEW s \in Seqs, AddRequest(s)
    PROVE  KVInv'
  <1>1. Inv /\ Inv' /\ TypeOK /\ Accounting(s)
    BY AddRequestInv DEF KVInv, Inv
  <1>2. block_table[s] = <<>> /\ work[s] = "idle"
    BY <1>1 DEF Accounting, AddRequest
  <1>3. /\ UNCHANGED <<metaVars, kv>> /\ block_table' = block_table /\ work' = work
        /\ \A r \in Seqs \ {s} : Idle(r)
    BY <1>1 DEF AddRequest, Idle, TypeOK, BlockManagerTypeOK, runVars
  <1>4. Contents(s)' /\ InFlight(s)'
    BY <1>2, <1>3, NothingHeld, NothingInFlight
  <1> QED
    BY <1>1, <1>3, <1>4, StillStep

LEMMA SchedulePrefillKV ==
    ASSUME KVInv, NEW s \in Seqs, NEW chunk \in 1 .. prompt_len[s], SchedulePrefill(s, chunk)
    PROVE  KVInv'
  <1>1. Inv /\ Inv' /\ TypeOK /\ Contents(s)
    BY SchedulePrefillInv DEF KVInv, Inv
  <1>2. /\ UNCHANGED <<metaVars, kv>> /\ UNCHANGED <<bmVars, reqVars>>
        /\ work[s] = "idle" /\ work' = [work EXCEPT ![s] = "scheduled"]
        /\ num_tokens' = [num_tokens EXCEPT ![s] = chunk] /\ query' = query
    BY DEF SchedulePrefill, Schedule, bmVars
  <1>3. \A r \in Seqs \ {s} : Idle(r)
    BY <1>1, <1>2 DEF Idle, TypeOK, bmVars, reqVars
  <1>4. /\ work'[s] = "scheduled" /\ num_tokens'[s] = chunk /\ chunk > 0
        /\ block_table' = block_table /\ token_ids' = token_ids
    BY <1>1, <1>2 DEF TypeOK, bmVars
  <1>5. ValidEnd(s)' = ValidEnd(s)
    BY <1>2, <1>4 DEF ValidEnd, Start, IsPrefilling, uncomputed_tokens, bmVars, reqVars
  <1>6. Contents(s)'
    BY <1>1, <1>2, <1>4, <1>5, SameContents
  <1>7. InFlight(s)'
    BY <1>4 DEF InFlight
  <1> QED
    BY <1>1, <1>2, <1>3, <1>4, <1>6, <1>7, StillStep

\* The end of a step moves a prefill on by what it computed, and leaves what is valid.
LEMMA PostprocessEnd ==
    ASSUME KVInv, NEW s \in Seqs, NEW finish \in BOOLEAN, Postprocess(s, finish)
    PROVE  ValidEnd(s)' = ValidEnd(s)
  <1> DEFINE computed == IF IsPrefilling(s) THEN num_computed[s] + num_tokens[s]
                                            ELSE num_computed[s]
  <1>1. TypeOK /\ Accounting(s) /\ InFlight(s)
    BY DEF KVInv, Inv
  <1>2. /\ work[s] = "done" /\ num_computed' = [num_computed EXCEPT ![s] = computed]
        /\ UNCHANGED <<metaVars, token_ids, prompt_len, kv>>
        /\ work' = [work EXCEPT ![s] = "idle"]
    BY DEF Postprocess, ReleaseSlot
  <1>3. /\ num_computed'[s] = computed /\ work'[s] = "idle"
        /\ token_ids' = token_ids /\ prompt_len' = prompt_len
    BY <1>1, <1>2 DEF TypeOK
  <1>4. /\ prompt_len[s] \in Nat /\ num_computed[s] \in Nat /\ num_tokens[s] \in Nat
        /\ Len(token_ids[s]) \in Nat
    BY <1>1, Counts
  <1>5. CASE IsPrefilling(s)
    <2>1. ValidEnd(s) = num_computed[s] + num_tokens[s] /\ computed = num_computed[s] + num_tokens[s]
      BY <1>2, <1>5 DEF ValidEnd
    <2>2. status[s] = "ACTIVE"
      BY <1>1, <1>2 DEF Accounting
    <2>3. /\ num_tokens[s] \in 1 .. uncomputed_tokens(s)
          /\ num_generated(s) = 0 <=> num_tokens[s] < uncomputed_tokens(s)
          /\ num_generated(s) <= 1
      BY <1>1, <1>2, <1>5, <2>2 DEF Accounting, InFlight
    <2>4. ValidEnd(s)' = IF prompt_len[s] - computed > 0 THEN computed ELSE Len(token_ids[s]) - 1
      BY <1>3 DEF ValidEnd, Start, IsPrefilling, uncomputed_tokens
    <2>5. ~ (prompt_len[s] - computed > 0) => computed = Len(token_ids[s]) - 1
      <3>1. num_generated(s) \in Nat /\ uncomputed_tokens(s) \in Int
        BY <1>1, Counts
      <3>2. computed = num_computed[s] + num_tokens[s]
        BY <2>1
      <3>3. uncomputed_tokens(s) = prompt_len[s] - num_computed[s]
        BY DEF uncomputed_tokens
      <3>4. num_generated(s) = Len(token_ids[s]) - prompt_len[s]
        BY DEF num_generated
      <3> HIDE DEF computed
      <3>5. ~ (prompt_len[s] - computed > 0) => ~ (num_tokens[s] < uncomputed_tokens(s))
        BY <1>4, <3>2, <3>3
      <3>6. ~ (num_tokens[s] < uncomputed_tokens(s)) =>
              num_generated(s) = 1 /\ num_tokens[s] = uncomputed_tokens(s)
        BY <1>4, <2>3, <3>1
      <3>7. PICK p \in Nat, c \in Nat, n \in Nat, l \in Nat :
              prompt_len[s] = p /\ num_computed[s] = c /\ num_tokens[s] = n /\ Len(token_ids[s]) = l
        BY <1>4
      <3>8. computed = c + n /\ uncomputed_tokens(s) = p - c /\ num_generated(s) = l - p
        BY <3>2, <3>3, <3>4, <3>7
      <3>9. ~ (p - computed > 0) => l - p = 1 /\ n = p - c
        BY <3>5, <3>6, <3>7, <3>8
      <3>10. ~ (p - computed > 0) => computed = l - 1
        BY <3>8, <3>9
      <3> QED
        BY <3>7, <3>10
    <2> QED
      BY <2>1, <2>4, <2>5
  <1>6. CASE ~ IsPrefilling(s)
    BY <1>2, <1>3, <1>6 DEF ValidEnd, Start, IsPrefilling, uncomputed_tokens
  <1> QED
    BY <1>5, <1>6

LEMMA PostprocessKV ==
    ASSUME KVInv, NEW s \in Seqs, NEW finish \in BOOLEAN, Postprocess(s, finish)
    PROVE  KVInv'
  <1> DEFINE computed == IF IsPrefilling(s) THEN num_computed[s] + num_tokens[s]
                                            ELSE num_computed[s]
  <1>1. Inv /\ Inv' /\ TypeOK /\ Accounting(s) /\ Contents(s) /\ InFlight(s)
    BY PostprocessInv DEF KVInv, Inv
  <1>2. /\ work[s] = "done" /\ num_computed' = [num_computed EXCEPT ![s] = computed]
        /\ UNCHANGED <<metaVars, token_ids, prompt_len, kv>>
        /\ work' = [work EXCEPT ![s] = "idle"]
        /\ num_tokens' = [num_tokens EXCEPT ![s] = 0]
        /\ query' = [query EXCEPT ![s] = <<>>]
    BY DEF Postprocess, ReleaseSlot
  <1>3. IF finish THEN /\ block_table' = [block_table EXCEPT ![s] = <<>>]
                       /\ status' = [status EXCEPT ![s] = "FINISHED"]
                  ELSE block_table' = block_table /\ status' = status
    BY DEF Postprocess, deallocate
  <1>4. \A r \in Seqs \ {s} : Idle(r)
    BY <1>1, <1>2, <1>3 DEF Idle, TypeOK, BlockManagerTypeOK
  <1>5. InFlight(s)'
    BY <1>1, <1>2, NothingInFlight DEF TypeOK
  <1>6. Contents(s)' /\ Range(block_table'[s]) \subseteq Range(block_table[s])
    <2>1. CASE finish
      <3>1. block_table'[s] = <<>>
        BY <1>1, <1>3, <2>1 DEF TypeOK, BlockManagerTypeOK
      <3> QED
        BY <3>1, NothingHeld DEF Range
    <2>2. CASE ~ finish
      <3>1. block_table' = block_table
        BY <1>3, <2>2
      <3>2. ValidEnd(s)' = ValidEnd(s)
        BY PostprocessEnd
      <3> QED
        BY <1>1, <1>2, <3>1, <3>2, SameContents
    <2> QED
      BY <2>1, <2>2
  <1> QED
    BY <1>1, <1>2, <1>4, <1>5, <1>6, StillStep

LEMMA AbortKV ==
    ASSUME KVInv, NEW s \in Seqs, Abort(s)
    PROVE  KVInv'
  <1>1. Inv /\ Inv' /\ TypeOK
    BY AbortInv DEF KVInv, Inv
  <1>2. /\ work[s] = "idle" /\ UNCHANGED <<metaVars, token_ids, prompt_len, num_computed, runVars>>
        /\ block_table' = [block_table EXCEPT ![s] = <<>>]
        /\ status' = [status EXCEPT ![s] = "FINISHED"]
    BY DEF Abort, deallocate
  <1>3. \A r \in Seqs \ {s} : Idle(r)
    BY <1>1, <1>2 DEF Idle, TypeOK, BlockManagerTypeOK, runVars
  <1>4. block_table'[s] = <<>> /\ work'[s] = "idle" /\ UNCHANGED <<metaVars, kv>>
    BY <1>1, <1>2 DEF TypeOK, BlockManagerTypeOK, runVars
  <1>5. Contents(s)' /\ InFlight(s)' /\ Range(block_table'[s]) \subseteq Range(block_table[s])
    BY <1>4, NothingHeld, NothingInFlight DEF Range
  <1> QED
    BY <1>1, <1>3, <1>4, <1>5, StillStep

LEMMA ForgetKV ==
    ASSUME KVInv, NEW s \in Seqs, Forget(s)
    PROVE  KVInv'
  <1>1. Inv /\ Inv' /\ TypeOK /\ Accounting(s)
    BY ForgetInv DEF KVInv, Inv
  <1>2. block_table[s] = <<>> /\ work[s] = "idle"
    BY <1>1 DEF Accounting, Forget
  <1>3. /\ UNCHANGED <<metaVars, kv>> /\ block_table' = block_table /\ work' = work
        /\ \A r \in Seqs \ {s} : Idle(r)
    BY <1>1 DEF Forget, Idle, TypeOK, BlockManagerTypeOK, runVars
  <1>4. Contents(s)' /\ InFlight(s)'
    BY <1>2, <1>3, NothingHeld, NothingInFlight
  <1> QED
    BY <1>1, <1>3, <1>4, StillStep

-----------------------------------------------------------------------------
(* What a forward writes.                                                  *)

\* The values go to positions in the table, behind the valid ones.
WritesBehind(s, start, n) ==
    /\ start \in Nat /\ n \in Nat
    /\ start + n <= Len(block_table[s]) * BlockSize
    /\ start = ValidEnd(s)

\* Different positions of a request have different slots.
LEMMA SlotsDiffer ==
    ASSUME BlockManagerTypeOK, NEW s \in Seqs, IsInjective(block_table[s]),
           NEW pos \in Nat, pos < Len(block_table[s]) * BlockSize,
           NEW q \in Nat, q < Len(block_table[s]) * BlockSize,
           physical_block_id(s, pos) = physical_block_id(s, q), Offset(pos) = Offset(q)
    PROVE  pos = q
  <1>1. PICK i \in DOMAIN block_table[s] :
            /\ physical_block_id(s, pos) = block_table[s][i] /\ pos = Base(i) + Offset(pos)
    BY SlotOf
  <1>2. PICK j \in DOMAIN block_table[s] :
            /\ physical_block_id(s, q) = block_table[s][j] /\ q = Base(j) + Offset(q)
    BY SlotOf
  <1>3. i = j
    BY <1>1, <1>2 DEF IsInjective
  <1> QED
    BY <1>1, <1>2, <1>3

\* A slot no value goes to keeps its K/V.
LEMMA NotWritten ==
    ASSUME NEW s, NEW start, NEW values, NEW p \in Pages, NEW o \in 0 .. BlockSize - 1,
           \A i \in DOMAIN values :
                ~ (physical_block_id(s, start + i - 1) = p /\ Offset(start + i - 1) = o)
    PROVE  Written(s, start, values)[p][o] = kv[p][o]
  BY DEF Written

\* A page no value goes to keeps all of it.
LEMMA PageNotWritten ==
    ASSUME TypeOK, NEW s, NEW start, NEW values, NEW p \in Pages,
           \A i \in DOMAIN values : physical_block_id(s, start + i - 1) # p
    PROVE  Written(s, start, values)[p] = kv[p]
  <1>1. \A o \in 0 .. BlockSize - 1 : Written(s, start, values)[p][o] = kv[p][o]
    BY NotWritten
  <1>2. kv[p] = [o \in 0 .. BlockSize - 1 |-> kv[p][o]]
    BY DEF TypeOK
  <1>3. Written(s, start, values)[p] = [o \in 0 .. BlockSize - 1 |-> Written(s, start, values)[p][o]]
    BY DEF Written
  <1> QED
    BY <1>1, <1>2, <1>3

\* A position gets its own value.
LEMMA ValueWritten ==
    ASSUME BlockManagerTypeOK, NEW s \in Seqs, IsInjective(block_table[s]),
           NEW start \in Nat, NEW n \in Nat, start + n <= Len(block_table[s]) * BlockSize,
           Len(block_table[s]) * BlockSize \in Nat,
           NEW values, DOMAIN values = 1 .. n, NEW k \in 1 .. n
    PROVE  Written(s, start, values)[physical_block_id(s, start + k - 1)][Offset(start + k - 1)]
                = values[k]
  <1> DEFINE p == physical_block_id(s, start + k - 1)
             o == Offset(start + k - 1)
             Hits == {i \in DOMAIN values : /\ physical_block_id(s, start + i - 1) = p
                                            /\ Offset(start + i - 1) = o}
  <1>1. \A i \in 1 .. n : start + i - 1 \in Nat /\ start + i - 1 < Len(block_table[s]) * BlockSize
    OBVIOUS
  <1>2. p \in Pages /\ o \in 0 .. BlockSize - 1
    BY <1>1, SlotOf
  <1>3. Hits = {k}
    <2>1. k \in Hits
      OBVIOUS
    <2>2. ASSUME NEW i \in Hits
          PROVE  i = k
      <3>1. i \in 1 .. n /\ physical_block_id(s, start + i - 1) = p /\ Offset(start + i - 1) = o
        OBVIOUS
      <3>2. start + i - 1 = start + k - 1
        BY <1>1, <3>1, SlotsDiffer
      <3> QED
        BY <3>1, <3>2
    <2> QED
      BY <2>1, <2>2
  <1>4. Max(Hits) = k
    <2>1. Max({k, k}) = k
      BY MaxOfTwo
    <2> QED
      BY <1>3, <2>1
  <1>5. Written(s, start, values)[p][o] = IF Hits = {} THEN kv[p][o] ELSE values[Max(Hits)]
    BY <1>2 DEF Written
  <1> QED
    BY <1>3, <1>4, <1>5

\* A forward of request s leaves the valid slots of its own pages, all pages of
\* the others, and all indexed pages.
LEMMA WritesOnlyBehind ==
    ASSUME KVInv, NEW s \in Seqs, block_table[s] # <<>>,
           NEW start, NEW n, WritesBehind(s, start, n),
           NEW values, DOMAIN values = 1 .. n
    PROVE  /\ \A p \in Pages : computed_tokens[p] = BlockSize
                => Written(s, start, values)[p] = kv[p]
           /\ \A r \in Seqs \ {s} : \A p \in Range(block_table[r]) :
                    Written(s, start, values)[p] = kv[p]
           /\ \A i \in DOMAIN block_table[s] : \A o \in 0 .. Filled(ValidEnd(s), i) - 1 :
                    Written(s, start, values)[block_table[s][i]][o] = kv[block_table[s][i]][o]
  <1>1. /\ TypeOK /\ BlockManagerTypeOK /\ IsInjective(block_table[s])
        /\ Contents(s) /\ SharedFull
    BY DEF KVInv, Inv, TypeOK, PoolConsistent
  <1>2. start \in Nat /\ n \in Nat /\ start + n <= Len(block_table[s]) * BlockSize
    BY DEF WritesBehind
  <1>3. Len(block_table[s]) * BlockSize \in Nat
    BY <1>1, Counts
  <1>4. ASSUME NEW k \in DOMAIN values
        PROVE  \E i \in DOMAIN block_table[s] :
                    /\ i \in Nat \ {0}
                    /\ physical_block_id(s, start + k - 1) = block_table[s][i]
                    /\ block_table[s][i] \in Range(block_table[s])
                    /\ Offset(start + k - 1) \in 0 .. BlockSize - 1
                    /\ start + k - 1 = Base(i) + Offset(start + k - 1)
                    /\ start + k - 1 >= start
                    /\ computed_tokens[block_table[s][i]] # BlockSize
                    /\ Filled(start, i) <= Offset(start + k - 1)
    <2>1. start + k - 1 \in Nat /\ start + k - 1 < Len(block_table[s]) * BlockSize
          /\ start + k - 1 >= start
      BY <1>2, <1>3
    <2>2. PICK i \in DOMAIN block_table[s] :
            /\ i \in Nat \ {0}
            /\ physical_block_id(s, start + k - 1) = block_table[s][i]
            /\ block_table[s][i] \in Range(block_table[s])
            /\ Offset(start + k - 1) \in 0 .. BlockSize - 1
            /\ start + k - 1 = Base(i) + Offset(start + k - 1)
      BY <1>1, <2>1, SlotOf
    <2>3. Filled(start, i) <= Offset(start + k - 1) /\ Filled(start, i) # BlockSize
      <3>1. start <= Base(i) + Offset(start + k - 1)
        BY <2>1, <2>2
      <3> QED
        BY <1>2, <2>2, <3>1, NotFull
    <2>4. computed_tokens[block_table[s][i]] = Filled(start, i)
      BY <1>1 DEF Contents, PageHolds, WritesBehind
    <2> QED
      BY <2>1, <2>2, <2>3, <2>4
  <1>5. ASSUME NEW p \in Pages, computed_tokens[p] = BlockSize
        PROVE  Written(s, start, values)[p] = kv[p]
    <2>1. \A k \in DOMAIN values : physical_block_id(s, start + k - 1) # p
      BY <1>4, <1>5
    <2> QED
      BY <1>1, <2>1, PageNotWritten
  <1>6. ASSUME NEW r \in Seqs \ {s}, NEW p \in Range(block_table[r])
        PROVE  Written(s, start, values)[p] = kv[p]
    <2>1. p \in Pages
      BY <1>1, Tables
    <2>2. \A k \in DOMAIN values : physical_block_id(s, start + k - 1) # p
      BY <1>1, <1>4, OwnPage
    <2> QED
      BY <1>1, <2>1, <2>2, PageNotWritten
  <1>7. ASSUME NEW i \in DOMAIN block_table[s], NEW o \in 0 .. Filled(ValidEnd(s), i) - 1
        PROVE  Written(s, start, values)[block_table[s][i]][o] = kv[block_table[s][i]][o]
    <2>1. i \in Nat \ {0} /\ block_table[s][i] \in Pages
      BY <1>1, Tables
    <2>2. ValidEnd(s) = start
      BY DEF WritesBehind
    <2>3. Filled(start, i) \in 0 .. BlockSize
      BY <1>2, <2>1, FilledProperties
    <2>4. o \in 0 .. BlockSize - 1 /\ o < Filled(start, i)
      BY <2>2, <2>3, BlockSizeAssumption
    <2>5. ASSUME NEW k \in DOMAIN values,
                 physical_block_id(s, start + k - 1) = block_table[s][i],
                 Offset(start + k - 1) = o
          PROVE  FALSE
      <3>1. PICK j \in DOMAIN block_table[s] :
                /\ physical_block_id(s, start + k - 1) = block_table[s][j]
                /\ Filled(start, j) <= Offset(start + k - 1)
        BY <1>4
      <3>2. j = i
        BY <1>1, <2>5, <3>1 DEF IsInjective
      <3> QED
        BY <2>3, <2>4, <2>5, <3>1, <3>2
    <2>6. \A k \in DOMAIN values :
            ~ (physical_block_id(s, start + k - 1) = block_table[s][i] /\ Offset(start + k - 1) = o)
      BY <2>5
    <2>7. \A p \in Pages, q \in 0 .. BlockSize - 1 :
            (\A k \in DOMAIN values :
                ~ (physical_block_id(s, start + k - 1) = p /\ Offset(start + k - 1) = q))
            => Written(s, start, values)[p][q] = kv[p][q]
      BY DEF Written
    <2> QED
      BY <2>1, <2>4, <2>6, <2>7
  <1> QED
    BY <1>5, <1>6, <1>7

\* The slots of a scheduled request's tokens are reserved, and it resumes where its
\* K/V ends.
LEMMA ScheduledReserved ==
    ASSUME KVInv, NEW s \in Seqs, work[s] = "scheduled"
    PROVE  /\ status[s] = "ACTIVE" /\ block_table[s] # <<>>
           /\ num_tokens[s] \in Nat /\ num_tokens[s] > 0
           /\ Start(s) = ValidEnd(s) /\ Start(s) \in Nat /\ Start(s) < Len(token_ids[s])
           /\ Start(s) + num_tokens[s] <= Len(block_table[s]) * BlockSize
           /\ IsPrefilling(s) <=> num_generated(s) = 0
  <1>1. Accounting(s) /\ TypeOK /\ InFlight(s)
    BY DEF KVInv, Inv
  <1>2. status[s] = "ACTIVE" /\ block_table[s] # <<>> /\ num_tokens[s] > 0
    BY <1>1 DEF Accounting, InFlight
  <1>3. /\ prompt_len[s] \in Nat /\ num_computed[s] \in Nat /\ num_tokens[s] \in Nat
        /\ Len(token_ids[s]) \in Nat /\ prompt_len[s] <= Len(token_ids[s])
        /\ Len(block_table[s]) * BlockSize \in Nat
    BY <1>1, Counts
  <1>4. Start(s) = ValidEnd(s)
    BY DEF ValidEnd
  <1>5. /\ IsPrefilling(s) <=> num_generated(s) = 0
        /\ num_generated(s) = Len(token_ids[s]) - prompt_len[s]
        /\ prompt_len[s] > 0
        /\ prompt_len[s] + 1 <= Len(block_table[s]) * BlockSize
    BY <1>1, <1>2 DEF Accounting, num_generated
  <1>6. CASE IsPrefilling(s)
    <2>1. /\ num_tokens[s] \in 1 .. uncomputed_tokens(s)
          /\ uncomputed_tokens(s) = prompt_len[s] - num_computed[s]
          /\ Start(s) = num_computed[s]
      BY <1>1, <1>2, <1>6 DEF Accounting, uncomputed_tokens, Start
    <2>2. /\ Start(s) + num_tokens[s] <= prompt_len[s] /\ Start(s) < prompt_len[s]
          /\ Start(s) \in Nat
      BY <1>3, <2>1
    <2> QED
      BY <1>2, <1>3, <1>4, <1>5, <2>2
  <1>7. CASE ~ IsPrefilling(s)
    <2>1. /\ Len(token_ids[s]) + num_tokens[s] <= Len(block_table[s]) * BlockSize
          /\ Start(s) = Len(token_ids[s]) - 1
      BY <1>1, <1>2, <1>7 DEF Accounting, Start
    <2>2. Len(token_ids[s]) > 0
      BY <1>3, <1>5
    <2>3. Start(s) \in Nat /\ Start(s) < Len(token_ids[s])
      BY <1>3, <2>1, <2>2
    <2>4. Start(s) + num_tokens[s] <= Len(block_table[s]) * BlockSize
      <3>1. PICK capacity \in Nat : Len(block_table[s]) * BlockSize = capacity
        BY <1>3
      <3> QED
        BY <1>3, <2>1, <3>1
    <2> QED
      BY <1>2, <1>3, <1>4, <1>5, <1>7, <2>3, <2>4
  <1> QED
    BY <1>6, <1>7

\* A step of request s that only writes K/V behind what is valid, and evicts.
LEMMA WriteStep ==
    ASSUME KVInv, Inv', NEW s \in Seqs,
           UNCHANGED <<block_tokens, block_hash, computed_tokens>>,
           \A r \in Seqs \ {s} : Idle(r) /\ \A p \in Range(block_table[r]) : kv'[p] = kv[p],
           \A p \in Pages : computed_tokens[p] = BlockSize => kv'[p] = kv[p],
           \A h \in DOMAIN hash_to_block_id' :
                h \in DOMAIN hash_to_block_id /\ hash_to_block_id'[h] = hash_to_block_id[h],
           Range(block_table'[s]) \subseteq Range(block_table[s]),
           Contents(s)', InFlight(s)'
    PROVE  KVInv'
  <1>1. IndexSound /\ SharedFull /\ ValidBehindTokens /\ TypeOK /\ BlockManagerTypeOK
    BY DEF KVInv, Inv, TypeOK
  <1>2. IndexSound'
    <2>1. ASSUME NEW h \in DOMAIN hash_to_block_id'
          PROVE  Untouched(hash_to_block_id[h])
      <3>1. hash_to_block_id[h] \in Pages /\ computed_tokens[hash_to_block_id[h]] = BlockSize
        BY <1>1 DEF IndexSound, BlockManagerTypeOK
      <3> QED
        BY <3>1 DEF Untouched
    <2> QED
      BY <1>1, <2>1, IndexFrame
  <1>3. ValidBehindTokens'
    BY <1>1 DEF ValidBehindTokens
  <1>4. SharedFull'
    <2>1. \A r \in Seqs : Range(block_table'[r]) \subseteq Range(block_table[r])
      BY DEF Idle
    <2> QED
      BY <1>1, <2>1, SharedFrame
  <1>5. \A r \in Seqs \ {s} : Idle(r) /\ \A p \in Range(block_table[r]) : Untouched(p)
    BY DEF Untouched
  <1> QED
    BY <1>2, <1>3, <1>4, <1>5, StepOf

LEMMA FailKV ==
    ASSUME KVInv, NEW s \in Seqs, NEW torn \in BOOLEAN, Fail(s, torn)
    PROVE  KVInv'
  <1> DEFINE values == [i \in 1 .. num_tokens[s] |-> Garbage]
  <1>1. Inv /\ Inv' /\ TypeOK /\ BlockManagerTypeOK
    BY FailInv DEF KVInv, Inv, TypeOK
  <1>2. /\ torn => work[s] = "scheduled"
        /\ kv' = IF torn THEN Written(s, Start(s), values) ELSE kv
        /\ hash_to_block_id' = IndexWithout(Range(block_table[s]))
        /\ status' = [status EXCEPT ![s] = "FINISHED"]
        /\ block_table' = [block_table EXCEPT ![s] = <<>>]
        /\ work' = [work EXCEPT ![s] = "idle"]
        /\ num_tokens' = [num_tokens EXCEPT ![s] = 0]
        /\ query' = [query EXCEPT ![s] = <<>>]
        /\ UNCHANGED <<block_hash, block_tokens, computed_tokens, token_ids, prompt_len, num_computed>>
    BY DEF Fail, deallocate, ReleaseSlot
  <1> HIDE DEF values
  <1>3. \A r \in Seqs \ {s} : Idle(r)
    BY <1>1, <1>2 DEF Idle, TypeOK, BlockManagerTypeOK
  <1>4. block_table'[s] = <<>> /\ work'[s] = "idle"
    BY <1>1, <1>2 DEF TypeOK, BlockManagerTypeOK
  <1>5. Contents(s)' /\ InFlight(s)' /\ Range(block_table'[s]) \subseteq Range(block_table[s])
    BY <1>4, NothingHeld, NothingInFlight DEF Range
  <1>6. \A h \in DOMAIN hash_to_block_id' :
            h \in DOMAIN hash_to_block_id /\ hash_to_block_id'[h] = hash_to_block_id[h]
    BY <1>2, EvictionShrinks
  <1>7. /\ \A r \in Seqs \ {s} : \A p \in Range(block_table[r]) : kv'[p] = kv[p]
        /\ \A p \in Pages : computed_tokens[p] = BlockSize => kv'[p] = kv[p]
    <2>1. CASE torn
      <3>1. kv' = Written(s, Start(s), values) /\ work[s] = "scheduled"
        BY <1>2, <2>1
      <3>2. block_table[s] # <<>> /\ WritesBehind(s, Start(s), num_tokens[s])
        BY <3>1, ScheduledReserved DEF WritesBehind
      <3>3. DOMAIN values = 1 .. num_tokens[s]
        BY DEF values
      <3> QED
        BY <3>1, <3>2, <3>3, WritesOnlyBehind
    <2>2. CASE ~ torn
      BY <1>2, <2>2
    <2> QED
      BY <2>1, <2>2
  <1> QED
    BY <1>1, <1>2, <1>3, <1>5, <1>6, <1>7, WriteStep

\* A request reads its own text from the slots of its pages, as far as it is computed.
LEMMA ReadsBack ==
    ASSUME TypeOK, NEW s \in Seqs, Contents(s), ValidEnd(s) \in Nat,
           NEW pos \in Nat, pos < ValidEnd(s), pos < Len(block_table[s]) * BlockSize
    PROVE  kv[physical_block_id(s, pos)][Offset(pos)] = SubSeq(token_ids[s], 1, pos + 1)
  <1>1. BlockManagerTypeOK
    BY DEF TypeOK
  <1>2. PICK i \in DOMAIN block_table[s] :
            /\ i \in Nat \ {0}
            /\ physical_block_id(s, pos) = block_table[s][i]
            /\ Offset(pos) \in 0 .. BlockSize - 1
            /\ pos = Base(i) + Offset(pos)
    BY <1>1, SlotOf
  <1>3. Offset(pos) < Filled(ValidEnd(s), i) /\ Filled(ValidEnd(s), i) \in Nat
    <2>1. /\ Filled(ValidEnd(s), i) \in 0 .. BlockSize
          /\ \A o \in 0 .. BlockSize - 1 : o < Filled(ValidEnd(s), i) <=> Base(i) + o < ValidEnd(s)
      BY <1>2, FilledProperties
    <2> QED
      BY <1>2, <2>1
  <1>4. Offset(pos) \in 0 .. Filled(ValidEnd(s), i) - 1
    BY <1>2, <1>3
  <1>5. block_table[s] # <<>>
    BY <1>2
  <1>6. kv[block_table[s][i]][Offset(pos)] = KVAt(token_ids[s], i, Offset(pos))
    BY <1>4, <1>5 DEF Contents, PageHolds
  <1>7. KVAt(token_ids[s], i, Offset(pos)) = SubSeq(token_ids[s], 1, pos + 1)
    BY <1>2 DEF KVAt
  <1> QED
    BY <1>2, <1>6, <1>7

\* A query starts with the tokens that the text has at its positions.
LEMMA QueryText ==
    ASSUME KVInv, NEW s \in Seqs, NEW drafts \in Seq(Tokens), work[s] = "scheduled",
           IF IsPrefilling(s) THEN drafts = <<>> ELSE Len(drafts) < num_tokens[s],
           NEW i \in 1 .. Len(Query(s, drafts)), Start(s) + i <= Len(token_ids[s])
    PROVE  Query(s, drafts)[i] = token_ids[s][Start(s) + i]
  <1>1. /\ token_ids[s] \in Seq(Tokens) /\ Inv /\ Len(token_ids[s]) \in Nat
        /\ prompt_len[s] \in Nat /\ prompt_len[s] <= Len(token_ids[s])
    BY Tables, Counts DEF KVInv, Inv
  <1>2. /\ Start(s) \in Nat /\ num_tokens[s] \in Nat /\ num_tokens[s] > 0
        /\ IF IsPrefilling(s) THEN Len(Query(s, drafts)) = num_tokens[s]
                              ELSE Len(Query(s, drafts)) \in 1 .. num_tokens[s]
    BY <1>1, ScheduledReserved, QueryType
  <1>3. CASE IsPrefilling(s)
    <2>1. PICK from \in Nat : Start(s) + 1 = from
      BY <1>2
    <2>2. PICK to \in Int : Min({Start(s) + num_tokens[s], prompt_len[s]}) = to
                            /\ to <= prompt_len[s]
      <3>1. \A end \in Int : /\ Min({end, prompt_len[s]}) \in Int
                             /\ Min({end, prompt_len[s]}) <= prompt_len[s]
        BY <1>1, MinOfTwo
      <3>2. PICK end \in Int : Start(s) + num_tokens[s] = end
        BY <1>2
      <3> QED
        BY <3>1, <3>2
    <2>3. Query(s, drafts) = SubSeq(token_ids[s], from, to)
      BY <1>3, <2>1, <2>2 DEF Query
    <2>4. \A j \in from .. to : token_ids[s][j] \in Tokens
      BY <1>1, <1>2, <2>1, <2>2
    <2>5. /\ Len(SubSeq(token_ids[s], from, to)) = IF from <= to THEN to - from + 1 ELSE 0
          /\ \A j \in 1 .. to - from + 1 :
                SubSeq(token_ids[s], from, to)[j] = token_ids[s][from + j - 1]
      BY <2>2, <2>4, SubSeqProperties
    <2>6. i \in 1 .. to - from + 1 /\ from + i - 1 = Start(s) + i
      <3>1. Len(Query(s, drafts)) = IF from <= to THEN to - from + 1 ELSE 0
        BY <2>3, <2>5
      <3> QED
        BY <1>2, <2>1, <2>2, <3>1
    <2> QED
      BY <2>3, <2>5, <2>6
  <1>4. CASE ~ IsPrefilling(s)
    <2>1. Start(s) = Len(token_ids[s]) - 1
      BY <1>4 DEF Start
    <2>2. i = 1
      BY <1>1, <1>2, <1>4, <2>1
    <2>3. Query(s, drafts) = <<token_ids[s][Start(s) + 1]>> \o drafts
      BY <1>4 DEF Query
    <2>4. token_ids[s][Start(s) + 1] \in Tokens
      BY <1>1, <1>2, <2>2
    <2> QED
      BY <2>2, <2>3, <2>4
  <1> QED
    BY <1>3, <1>4

LEMMA ForwardKV ==
    ASSUME KVInv, NEW s \in Seqs, NEW drafts \in Drafts, Forward(s, drafts)
    PROVE  KVInv'
  <1> DEFINE tokens == Query(s, drafts)
             start == Start(s)
             n == Len(tokens)
             values == [i \in 1 .. n |->
                IF ReadsOwnText(s, start)
                THEN SubSeq(token_ids[s], 1, start) \o SubSeq(tokens, 1, i)
                ELSE Garbage]
  <1>1. Inv /\ Inv' /\ TypeOK /\ BlockManagerTypeOK /\ Contents(s) /\ Accounting(s)
        /\ IsInjective(block_table[s])
    BY ForwardInv DEF KVInv, Inv, TypeOK, PoolConsistent
  <1>2. /\ work[s] = "scheduled"
        /\ IF IsPrefilling(s) THEN drafts = <<>> ELSE Len(drafts) < num_tokens[s]
        /\ query' = [query EXCEPT ![s] = tokens]
        /\ work' = [work EXCEPT ![s] = "forwarded"]
        /\ UNCHANGED <<bmVars, reqVars, num_tokens>>
    BY DEF Forward, Query
  <1>3. kv' = Written(s, start, values)
    BY DEF Forward, Query
  <1>4. drafts \in Seq(Tokens)
    BY MaxDraftAssumption DEF Drafts
  <1>5. /\ tokens \in Seq(Tokens) /\ n \in Nat /\ n <= num_tokens[s]
        /\ \A i \in 1 .. n : start + i <= Len(token_ids[s]) => tokens[i] = token_ids[s][start + i]
    <2>1. num_tokens[s] \in Nat
      BY <1>1, Counts
    <2>2. tokens \in Seq(Tokens) /\ n \in Nat /\ n <= num_tokens[s]
      BY <1>1, <1>2, <1>4, <2>1, QueryType
    <2>3. \A i \in 1 .. n : start + i <= Len(token_ids[s]) => tokens[i] = token_ids[s][start + i]
      BY <1>2, <1>4, QueryText
    <2> QED
      BY <2>2, <2>3
  <1>6. /\ start = ValidEnd(s) /\ start \in Nat /\ block_table[s] # <<>>
        /\ start + n <= Len(block_table[s]) * BlockSize
        /\ Len(block_table[s]) * BlockSize \in Nat
    <2>1. /\ start = ValidEnd(s) /\ start \in Nat /\ block_table[s] # <<>>
          /\ num_tokens[s] \in Nat
          /\ start + num_tokens[s] <= Len(block_table[s]) * BlockSize
          /\ Len(block_table[s]) * BlockSize \in Nat
      BY <1>1, <1>2, ScheduledReserved, Counts
    <2> HIDE DEF start, n
    <2> QED
      BY <1>5, <2>1
  <1>7. ReadsOwnText(s, start)
    <2>1. \A pos \in 0 .. start - 1 :
            pos \in Nat /\ pos < start /\ pos < Len(block_table[s]) * BlockSize
      <3> HIDE DEF start, n
      <3> QED
        BY <1>5, <1>6
    <2> QED
      BY <1>1, <1>6, <2>1, ReadsBack DEF ReadsOwnText
  <1>8. /\ DOMAIN values = 1 .. n
        /\ \A i \in 1 .. n : values[i] = SubSeq(token_ids[s], 1, start) \o SubSeq(tokens, 1, i)
    BY <1>7
  <1>9. WritesBehind(s, start, n)
    BY <1>5, <1>6 DEF WritesBehind
  <1> HIDE DEF values, start, n, tokens
  <1>10. /\ \A p \in Pages : computed_tokens[p] = BlockSize => kv'[p] = kv[p]
         /\ \A r \in Seqs \ {s} : \A p \in Range(block_table[r]) : kv'[p] = kv[p]
         /\ \A i \in DOMAIN block_table[s] : \A o \in 0 .. Filled(ValidEnd(s), i) - 1 :
                kv'[block_table[s][i]][o] = kv[block_table[s][i]][o]
    BY <1>3, <1>6, <1>8, <1>9, WritesOnlyBehind
  <1>11. \A r \in Seqs \ {s} : Idle(r)
    BY <1>1, <1>2 DEF Idle, TypeOK, bmVars, reqVars
  <1>12. /\ work'[s] = "forwarded" /\ query'[s] = tokens
         /\ block_table' = block_table /\ token_ids' = token_ids /\ metaVars' = metaVars
         /\ prompt_len' = prompt_len /\ num_computed' = num_computed
    BY <1>1, <1>2 DEF TypeOK, bmVars, reqVars
  <1>13. Start(s)' = start /\ ValidEnd(s)' = ValidEnd(s)
    BY <1>2, <1>12 DEF ValidEnd, Start, IsPrefilling, uncomputed_tokens, start
  <1>14. Contents(s)'
    <2>1. ASSUME NEW i \in DOMAIN block_table[s]
          PROVE  PageHolds(block_table[s][i], token_ids[s], i, ValidEnd(s))'
      <3> DEFINE p == block_table[s][i]
                 t == token_ids[s]
                 e == ValidEnd(s)
      <3>1. PageHolds(p, t, i, e)
        BY <1>1, <1>6 DEF Contents
      <3>2. p' = p /\ t' = t /\ e' = e
        BY <1>12, <1>13
      <3>3. \A o \in 0 .. Filled(e, i) - 1 : kv'[p][o] = kv[p][o]
        BY <1>10
      <3> HIDE DEF p, t, e
      <3>4. PageHolds(p, t, i, e)'
        BY <1>12, <3>1, <3>2, <3>3 DEF PageHolds, metaVars
      <3> QED
        BY <3>4 DEF p, t, e
    <2>2. Len(token_ids[s]) <= Len(block_table[s]) * BlockSize
      BY <1>1, <1>6 DEF Contents
    <2> QED
      BY <1>12, <2>1, <2>2 DEF Contents
  <1>15. InFlight(s)'
    <2>1. ASSUME NEW pos \in start .. start + n - 1
          PROVE  (kv[physical_block_id(s, pos)][Offset(pos)])' = (Fed(s, pos))'
      <3>1. PICK k \in 1 .. n : start + k - 1 = pos /\ pos - start + 1 = k
        <4>1. start \in Nat /\ n \in Nat
          BY <1>5, <1>6
        <4>2. pos \in Nat /\ start <= pos /\ pos <= start + n - 1
          BY <4>1
        <4>3. pos - start + 1 \in 1 .. n
          BY <4>1, <4>2
        <4>4. start + (pos - start + 1) - 1 = pos
          BY <4>1, <4>2
        <4> QED
          BY <4>3, <4>4
      <3>2. Written(s, start, values)[physical_block_id(s, start + k - 1)][Offset(start + k - 1)]
                = values[k]
        BY <1>1, <1>5, <1>6, <1>8, ValueWritten
      <3>3. kv'[physical_block_id(s, pos)][Offset(pos)] = values[k]
        BY <1>3, <3>1, <3>2
      <3>4. physical_block_id(s, pos)' = physical_block_id(s, pos) /\ Offset(pos)' = Offset(pos)
        BY <1>12 DEF physical_block_id, Offset
      <3>5. (Fed(s, pos))' = SubSeq(token_ids[s], 1, start) \o SubSeq(tokens, 1, k)
        BY <1>12, <1>13, <3>1 DEF Fed
      <3> QED
        BY <1>8, <3>3, <3>4, <3>5
    <2>2. \A i \in DOMAIN tokens : start + i <= Len(token_ids[s]) => tokens[i] = token_ids[s][start + i]
      <3>1. DOMAIN tokens = 1 .. n
        BY <1>5 DEF n
      <3> QED
        BY <1>5, <3>1
    <2>3. Len(query'[s]) = n
      BY <1>12 DEF n
    <2> QED
      BY <1>12, <1>13, <2>1, <2>2, <2>3 DEF InFlight
  <1> QED
    BY <1>1, <1>10, <1>11, <1>12, <1>14, <1>15, WriteStep DEF metaVars

-----------------------------------------------------------------------------
(* The steps that take pages.                                              *)

\* A step of request s that takes the free pages of F, and the full pages of C
\* from the index.
LEMMA TakeStep ==
    ASSUME KVInv, Inv', NEW s \in Seqs,
           NEW F \in SUBSET free_block_ids, NEW C \in SUBSET Pages, C \intersect F = {},
           \A p \in C : computed_tokens[p] = BlockSize,
           Range(block_table'[s]) \subseteq Range(block_table[s]) \union C \union F,
           \A r \in Seqs \ {s} : Idle(r),
           \A p \in Pages \ F : Untouched(p),
           \A p \in F : Bounded(p)',
           hash_to_block_id' = IndexWithout(F),
           Contents(s)', InFlight(s)'
    PROVE  KVInv'
  <1>1. /\ IndexSound /\ SharedFull /\ ValidBehindTokens /\ TypeOK /\ BlockManagerTypeOK
        /\ PoolConsistent
    BY DEF KVInv, Inv, TypeOK
  <1>2. \A r \in Seqs : \A p \in Range(block_table[r]) : p \in Pages \ F
    <2>1. ASSUME NEW r \in Seqs, NEW p \in Range(block_table[r])
          PROVE  p \in Pages \ F
      <3>1. p \in Pages
        BY <1>1, Tables
      <3>2. r \in Holders(p)
        BY DEF Holders
      <3> QED
        BY <1>1, <3>1, <3>2, HolderCounts
    <2> QED
      BY <2>1
  <1>3. IndexSound'
    <2>1. ASSUME NEW h \in DOMAIN hash_to_block_id'
          PROVE  /\ h \in DOMAIN hash_to_block_id
                 /\ hash_to_block_id'[h] = hash_to_block_id[h]
                 /\ Untouched(hash_to_block_id[h])
      <3>1. /\ h \in DOMAIN hash_to_block_id
            /\ hash_to_block_id'[h] = hash_to_block_id[h]
            /\ hash_to_block_id[h] \notin F
        BY <1>1, Evicted
      <3>2. hash_to_block_id[h] \in Pages
        BY <1>1, <3>1 DEF BlockManagerTypeOK
      <3> QED
        BY <3>1, <3>2
    <2> QED
      BY <1>1, <2>1, IndexFrame
  <1>4. ValidBehindTokens'
    <2>1. \A p \in Pages : Bounded(p)
      BY <1>1, BoundedPages
    <2>2. ASSUME NEW p \in Pages
          PROVE  Bounded(p)'
      BY <2>1, BoundedKept
    <2> QED
      BY <2>2 DEF ValidBehindTokens, Bounded
  <1>5. SharedFull'
    <2>1. ASSUME NEW r \in Seqs, NEW q \in Seqs, q # r, q # s,
                 NEW p \in Range(block_table'[r]), p \in Range(block_table'[q])
          PROVE  computed_tokens'[p] = BlockSize
      <3>1. p \in Range(block_table[q])
        BY <2>1 DEF Idle
      <3>2. p \in Pages \ F
        BY <1>2, <3>1
      <3>3. p \in Range(block_table[r]) \/ p \in C
        BY <3>2 DEF Idle
      <3>4. computed_tokens[p] = BlockSize
        BY <1>1, <2>1, <3>1, <3>3 DEF SharedFull
      <3> QED
        BY <3>2, <3>4 DEF Untouched
    <2> QED
      BY <2>1 DEF SharedFull
  <1> QED
    BY <1>2, <1>3, <1>4, <1>5, StepOf

\* A block table with the fresh pages behind the old ones.
IsGrown(table, old, fresh) ==
    /\ old \o fresh = table /\ Len(old) <= Len(table)
    /\ Range(table) = Range(old) \union Range(fresh)
    /\ \A i \in DOMAIN table :
            i \in Nat \ {0} /\ IF i <= Len(old) THEN table[i] = old[i] /\ i \in DOMAIN old
                                                ELSE table[i] \in Range(fresh)

LEMMA TableGrows ==
    ASSUME NEW old \in Seq(Pages), NEW fresh \in Seq(Pages)
    PROVE  \E table \in Seq(Pages) : IsGrown(table, old, fresh)
  <1>1. PICK table \in Seq(Pages) : old \o fresh = table
    <2>1. old \o fresh \in Seq(Pages)
      BY ConcatProperties
    <2> QED
      BY <2>1
  <1>2. Range(table) = Range(old) \union Range(fresh)
    <2>1. Range(old \o fresh) = Range(old) \union Range(fresh)
      BY RangeConcatenation
    <2> QED
      BY <1>1, <2>1
  <1>3. PICK k \in Nat, m \in Nat : Len(old) = k /\ Len(fresh) = m
    OBVIOUS
  <1>4. /\ Len(table) = Len(old) + Len(fresh)
        /\ \A j \in 1 .. Len(old) + Len(fresh) :
                table[j] = IF j <= Len(old) THEN old[j] ELSE fresh[j - Len(old)]
    BY <1>1, ConcatProperties
  <1>5. Len(old) <= Len(table)
    BY <1>3, <1>4
  <1>6. ASSUME NEW i \in DOMAIN table
        PROVE  i \in Nat \ {0} /\ IF i <= k THEN table[i] = old[i] /\ i \in DOMAIN old
                                            ELSE table[i] \in Range(fresh)
    <2>1. i \in 1 .. k + m /\ table[i] = IF i <= k THEN old[i] ELSE fresh[i - k]
      <3>1. i \in 1 .. Len(table) /\ Len(table) = k + m
        BY <1>3, <1>4
      <3> QED
        BY <1>3, <1>4, <3>1
    <2>2. ~ (i <= k) => fresh[i - k] \in Range(fresh)
      <3>1. ~ (i <= k) => i - k \in 1 .. m
        BY <2>1
      <3>2. \A j \in 1 .. m : fresh[j] \in Range(fresh)
        <4>1. DOMAIN fresh = 1 .. m
          BY <1>3
        <4> QED
          BY <4>1 DEF Range
      <3> QED
        BY <3>1, <3>2
    <2>3. i <= k => i \in DOMAIN old
      BY <1>3, <2>1
    <2> QED
      BY <2>1, <2>2, <2>3
  <1> QED
    BY <1>1, <1>2, <1>3, <1>5, <1>6 DEF IsGrown

\* The prefixes of a full block's hash are those of the text.
LEMMA HashPrefix ==
    ASSUME NEW text \in Seq(Tokens), NEW i \in Nat \ {0}, i * BlockSize <= Len(text),
           NEW h, PrefixHash(text, i) = h, NEW o \in 0 .. BlockSize - 1
    PROVE  SubSeq(h, 1, Len(h) - BlockSize + o + 1) = KVAt(text, i, o)
  <1>1. /\ Base(i) \in Nat /\ i * BlockSize = Base(i) + BlockSize
        /\ i * BlockSize \in Nat /\ BlockSize \in Nat /\ BlockSize > 0
    BY Blocks
  <1>2. PICK n \in 0 .. Len(text) : i * BlockSize = n
    BY <1>1
  <1>3. SubSeq(text, 1, n) = h
    BY <1>2 DEF PrefixHash
  <1>4. Len(h) = n
    BY <1>3, PrefixProperties
  <1>5. PICK m \in 0 .. n : Base(i) + o + 1 = m /\ Len(h) - BlockSize + o + 1 = m
    <2>1. Base(i) + o + 1 \in 0 .. n
      BY <1>1, <1>2
    <2>2. Len(h) - BlockSize + o + 1 = Base(i) + o + 1
      <3>1. /\ n = Base(i) + BlockSize /\ Base(i) \in Nat /\ BlockSize \in Nat
            /\ Len(h) = n
        BY <1>1, <1>2, <1>4
      <3>2. o \in Int
        BY <1>1
      <3> QED
        BY <3>1, <3>2
    <2> QED
      BY <2>1, <2>2
  <1>6. SubSeq(SubSeq(text, 1, n), 1, m) = SubSeq(text, 1, m)
    BY SubPrefix
  <1> QED
    BY <1>3, <1>5, <1>6 DEF KVAt

\* The page found for a block of a prompt holds it.
LEMMA ReusableHolds ==
    ASSUME KVInv, NEW s \in Seqs, Prompt(s) = token_ids[s],
           NEW i \in 1 .. ReusableBlocks(s)
    PROVE  /\ PageHolds(reusable_prefix_block_ids(s)[i], token_ids[s], i, cached_prefix_tokens(s))
           /\ computed_tokens[reusable_prefix_block_ids(s)[i]] = BlockSize
  <1>1. BlockManagerTypeOK /\ IndexSound /\ token_ids[s] \in Seq(Tokens)
    BY Tables DEF KVInv, Inv, TypeOK
  <1>2. PICK text \in Seq(Tokens) : token_ids[s] = text /\ Prompt(s) = text
    BY <1>1
  <1>3. PICK k \in Nat : ReusableBlocks(s) = k /\ i \in 1 .. k
    BY <1>1, ReusableProperties, BlockCounts
  <1>4. IsReusable(s, i)
    <2>1. EnablePrefixCaching
      BY <1>3 DEF ReusableBlocks
    <2> QED
      BY <1>1, <2>1, ReusableProperties
  <1>5. PICK h \in Seq(Tokens) : PrefixHash(text, i) = h
    BY <1>1, <1>2, <1>4 DEF IsReusable, BlockManagerTypeOK
  <1>6. PICK p \in Pages : /\ hash_to_block_id[h] = p /\ h \in DOMAIN hash_to_block_id
                           /\ reusable_prefix_block_ids(s)[i] = p
    BY <1>1, <1>2, <1>4, <1>5 DEF IsReusable, reusable_prefix_block_ids, BlockManagerTypeOK
  <1>7. /\ block_hash[p] = h /\ block_tokens[p] = BlockSlice(text, i)
        /\ computed_tokens[p] = BlockSize
    BY <1>2, <1>4, <1>5, <1>6 DEF IsReusable
  <1>8. \A o \in 0 .. BlockSize - 1 : kv[p][o] = SubSeq(h, 1, Len(h) - BlockSize + o + 1)
    BY <1>1, <1>6 DEF IndexSound
  <1>9. /\ i \in Nat \ {0} /\ Base(i) \in Nat /\ i * BlockSize = Base(i) + BlockSize
        /\ i * BlockSize \in Nat /\ BlockSize \in Nat /\ BlockSize > 0
    <2>1. i \in Nat \ {0}
      BY <1>3
    <2> QED
      BY <2>1, Blocks
  <1>10. PICK c \in Nat : /\ cached_prefix_tokens(s) = c
                          /\ i * BlockSize <= c /\ c <= Len(text)
    <2>1. k * BlockSize \in Nat /\ i * BlockSize <= k * BlockSize
      BY <1>3, <1>9, SMTT(30)
    <2>2. k * BlockSize <= prompt_len[s]
      <3>1. MaxReusable(s) * BlockSize <= prompt_len[s] /\ k <= MaxReusable(s) /\ MaxReusable(s) \in Nat
        BY <1>1, <1>3, ReusableProperties, BlockCounts
      <3>2. prompt_len[s] \in Nat
        BY <1>1 DEF BlockManagerTypeOK
      <3>3. k * BlockSize <= MaxReusable(s) * BlockSize
        BY <1>9, <3>1, SMTT(30)
      <3>4. MaxReusable(s) * BlockSize \in Nat
        BY <1>9, <3>1, SMTT(30)
      <3> QED
        BY <2>1, <3>1, <3>2, <3>3, <3>4
    <2>3. Len(text) = prompt_len[s]
      BY <1>1, <1>2, PromptType
    <2> QED
      BY <1>3, <2>1, <2>2, <2>3 DEF cached_prefix_tokens
  <1>11. Len(text) \in Nat /\ i * BlockSize <= Len(text)
    BY <1>9, <1>10
  <1>12. Filled(Len(text), i) = BlockSize /\ Filled(c, i) = BlockSize
    BY <1>9, <1>10, <1>11, FilledProperties
  <1>13. \A o \in 0 .. BlockSize - 1 : kv[p][o] = KVAt(text, i, o)
    BY <1>5, <1>8, <1>9, <1>11, HashPrefix
  <1>14. PageHolds(p, text, i, c)
    BY <1>5, <1>7, <1>9, <1>12, <1>13 DEF PageHolds
  <1> QED
    BY <1>2, <1>6, <1>7, <1>10, <1>14

\* A fresh page of a prompt carries its block, and no K/V.
LEMMA FreshHolds ==
    ASSUME NEW table \in Seq(Pages), IsInjective(table), NEW i \in DOMAIN table,
           NEW text \in Seq(Tokens), NEW c \in Nat, c <= Base(i),
           NEW p, table[i] = p,
           block_tokens'[p] = BlockSlice(text, LogicalBlock(table, p)),
           block_hash'[p] = IF Len(BlockSlice(text, LogicalBlock(table, p))) = BlockSize
                            THEN PrefixHash(text, LogicalBlock(table, p)) ELSE NoHash,
           computed_tokens'[p] = 0
    PROVE  PageHolds(p, text, i, c)' /\ Bounded(p)'
  <1>1. i \in Nat \ {0}
    OBVIOUS
  <1>2. LogicalBlock(table, p) = i
    BY LogicalBlockOf
  <1>3. Len(BlockSlice(text, i)) = Filled(Len(text), i)
    BY <1>1, SliceProperties
  <1>4. Filled(c, i) = 0
    BY <1>1, FilledProperties
  <1>5. Filled(Len(text), i) \in 0 .. BlockSize
    BY <1>1, FilledProperties
  <1>6. PageHolds(p, text, i, c)'
    <2>1. block_tokens'[p] = BlockSlice(text, i)
      BY <1>2
    <2>2. Filled(Len(text), i) = BlockSize => block_hash'[p] = PrefixHash(text, i)
      BY <1>2, <1>3
    <2>3. computed_tokens'[p] = Filled(c, i)
      BY <1>4
    <2>4. \A o \in 0 .. Filled(c, i) - 1 : kv'[p][o] = KVAt(text, i, o)
      BY <1>4
    <2> QED
      BY <2>1, <2>2, <2>3, <2>4 DEF PageHolds
  <1>7. Bounded(p)'
    <2>1. block_tokens'[p] = BlockSlice(text, i) /\ computed_tokens'[p] = 0
      BY <1>2
    <2>2. 0 <= Len(BlockSlice(text, i)) /\ Len(BlockSlice(text, i)) <= BlockSize
      BY <1>3, <1>5, BlockSizeAssumption
    <2> QED
      BY <2>1, <2>2 DEF Bounded
  <1> QED
    BY <1>6, <1>7

\* The text of a request without pages is its prompt.
LEMMA WholePrompt ==
    ASSUME Inv, NEW s \in Seqs, status[s] = "ACTIVE", block_table[s] = <<>>,
           NEW text \in Seq(Tokens), token_ids[s] = text
    PROVE  /\ Prompt(s) = text /\ Len(text) = prompt_len[s]
           /\ prompt_len[s] > 0 /\ prompt_len[s] \in Nat
  <1>1. TypeOK /\ Accounting(s)
    BY DEF Inv
  <1>2. /\ prompt_len[s] > 0 /\ num_computed[s] = 0
        /\ IsPrefilling(s) <=> num_generated(s) = 0
    BY <1>1 DEF Accounting
  <1>3. prompt_len[s] \in Nat /\ Len(token_ids[s]) \in Nat
    BY <1>1, Counts
  <1>4. Len(text) = prompt_len[s]
    BY <1>2, <1>3 DEF IsPrefilling, uncomputed_tokens, num_generated
  <1>5. PICK n \in 0 .. Len(text) : prompt_len[s] = n /\ Len(text) = n
    BY <1>3, <1>4
  <1>6. SubSeq(text, 1, n) = text
    <2>1. /\ SubSeq(text, 1, n) \in Seq(Tokens) /\ Len(SubSeq(text, 1, n)) = n
          /\ \A j \in 1 .. n : SubSeq(text, 1, n)[j] = text[j]
      BY PrefixProperties
    <2> QED
      BY <1>5, <2>1, SameText
  <1> QED
    BY <1>2, <1>3, <1>4, <1>5, <1>6 DEF Prompt

LEMMA AdmitKV ==
    ASSUME KVInv, NEW s \in Seqs, NEW chunk \in 0 .. prompt_len[s], Admit(s, chunk)
    PROVE  KVInv'
  <1>1. /\ status[s] = "ACTIVE" /\ work[s] = "idle" /\ status' = status
        /\ allocate(s, 1) /\ block_table[s] = <<>>
        /\ chunk \in 0 .. prompt_len[s] - cached_prefix_tokens(s)
        /\ num_computed' = [num_computed EXCEPT ![s] = cached_prefix_tokens(s)]
        /\ query' = query /\ kv' = kv
        /\ token_ids' = token_ids /\ prompt_len' = prompt_len
    BY DEF Admit, allocate, Schedule, runVars
  <1>2. \/ chunk = 0 /\ work' = work /\ num_tokens' = num_tokens
        \/ /\ chunk > 0 /\ work' = [work EXCEPT ![s] = "scheduled"]
           /\ num_tokens' = [num_tokens EXCEPT ![s] = chunk]
    BY <1>1 DEF Admit, Schedule, runVars
  <1>3. /\ Inv /\ Inv' /\ TypeOK /\ BlockManagerTypeOK /\ Accounting(s) /\ TypeOK'
        /\ IsInjective(block_table'[s])
    BY AdmitInv DEF KVInv, Inv, TypeOK, PoolConsistent
  <1>4. PICK text \in Seq(Tokens) : token_ids[s] = text
    BY <1>3, Tables
  <1>5. Prompt(s) = text /\ Len(text) = prompt_len[s] /\ prompt_len[s] > 0 /\ prompt_len[s] \in Nat
    BY <1>1, <1>3, <1>4, WholePrompt
  <1>6. PICK found \in Seq(Pages), k \in Nat, c \in Nat :
            /\ reusable_prefix_block_ids(s) = found
            /\ ReusableBlocks(s) = k /\ Len(found) = k /\ IsInjective(found)
            /\ cached_prefix_tokens(s) = c /\ k * BlockSize = c /\ c < prompt_len[s]
    <2>1. /\ reusable_prefix_block_ids(s) \in Seq(Pages) /\ ReusableBlocks(s) \in Nat
          /\ Len(reusable_prefix_block_ids(s)) = ReusableBlocks(s)
          /\ IsInjective(reusable_prefix_block_ids(s))
      BY <1>3, ReusableProperties, BlockCounts
    <2>2. cached_prefix_tokens(s) \in 0 .. prompt_len[s] - 1
      BY <1>3, <1>5, CachedPrefixShorter
    <2>3. cached_prefix_tokens(s) \in Nat /\ cached_prefix_tokens(s) < prompt_len[s]
      BY <1>5, <2>2
    <2>4. cached_prefix_tokens(s) = ReusableBlocks(s) * BlockSize
      BY DEF cached_prefix_tokens
    <2> QED
      BY <2>1, <2>3, <2>4
  <1>7. PICK fresh \in FreshChoices(required_blocks(prompt_len[s] + 1) - Len(found),
                                    free_block_ids \ Range(found)) :
            LET table == found \o fresh
                F == Range(fresh)
                Slice(p) == BlockSlice(text, LogicalBlock(table, p))
            IN  /\ block_table' = [block_table EXCEPT ![s] = table]
                /\ block_tokens' = [p \in Pages |->
                        IF p \in F THEN Slice(p) ELSE block_tokens[p]]
                /\ block_hash' = [p \in Pages |->
                        IF p \notin F THEN block_hash[p]
                        ELSE IF Len(Slice(p)) = BlockSize
                             THEN PrefixHash(text, LogicalBlock(table, p))
                             ELSE NoHash]
                /\ computed_tokens' = [p \in Pages |->
                        IF p \in F THEN 0 ELSE computed_tokens[p]]
                /\ hash_to_block_id' = IndexWithout(F)
    BY <1>1, <1>5, <1>6 DEF allocate
  <1>8. /\ fresh \in Seq(Pages) /\ Range(fresh) \subseteq free_block_ids
        /\ Range(fresh) \intersect Range(found) = {}
    <2>1. required_blocks(prompt_len[s] + 1) - Len(found) \in Int
      <3>1. prompt_len[s] + 1 \in Nat
        BY <1>5
      <3>2. required_blocks(prompt_len[s] + 1) \in Nat
        BY <3>1, RoundsUp
      <3> QED
        BY <1>6, <3>2
    <2>2. free_block_ids \ Range(found) \in SUBSET Pages
      BY <1>3 DEF BlockManagerTypeOK
    <2>3. \A n \in Int, S \in SUBSET Pages : fresh \in FreshChoices(n, S) =>
                fresh \in Seq(Pages) /\ Range(fresh) \subseteq S
      BY FreshProperties
    <2> QED
      BY <2>1, <2>2, <2>3
  <1>9. PICK table \in Seq(Pages), F \in SUBSET free_block_ids :
            /\ found \o fresh = table /\ Range(fresh) = F
            /\ F \subseteq Pages /\ F \intersect Range(found) = {}
            /\ Range(table) = Range(found) \union F
            /\ \A i \in DOMAIN table :
                    i \in Nat \ {0} /\ IF i <= k THEN table[i] = found[i] ELSE table[i] \in F
    <2>1. PICK table \in Seq(Pages) : IsGrown(table, found, fresh)
      BY <1>8, TableGrows
    <2>2. Range(fresh) \subseteq Pages
      BY <1>3, <1>8 DEF BlockManagerTypeOK
    <2> QED
      BY <1>6, <1>8, <2>1, <2>2 DEF IsGrown
  <1>10. /\ block_table' = [block_table EXCEPT ![s] = table]
         /\ hash_to_block_id' = IndexWithout(F)
         /\ \A p \in F :
                /\ block_tokens'[p] = BlockSlice(text, LogicalBlock(table, p))
                /\ block_hash'[p] = IF Len(BlockSlice(text, LogicalBlock(table, p))) = BlockSize
                                    THEN PrefixHash(text, LogicalBlock(table, p)) ELSE NoHash
                /\ computed_tokens'[p] = 0
         /\ \A p \in Pages \ F : Untouched(p)
    BY <1>1, <1>7, <1>9 DEF Untouched
  <1>11. block_table'[s] = table /\ token_ids'[s] = text /\ IsInjective(table)
    BY <1>1, <1>3, <1>4, <1>10 DEF BlockManagerTypeOK
  <1>12. \A r \in Seqs \ {s} : Idle(r)
    BY <1>1, <1>2, <1>3, <1>10, SMTT(30) DEF Idle, TypeOK, BlockManagerTypeOK
  <1>13. work'[s] = (IF chunk > 0 THEN "scheduled" ELSE "idle") /\ (chunk > 0 => num_tokens'[s] = chunk)
    BY <1>1, <1>2, <1>3 DEF TypeOK
  <1>14. ValidEnd(s)' = c
    <2>1. num_computed'[s] = c
      BY <1>1, <1>3, <1>6 DEF TypeOK
    <2>2. prompt_len[s] - c > 0
      BY <1>5, <1>6
    <2>3. IsPrefilling(s)'
      BY <1>1, <2>1, <2>2 DEF IsPrefilling, uncomputed_tokens
    <2> QED
      BY <1>13, <2>1, <2>3 DEF ValidEnd, Start
  <1>15. \A i \in 1 .. k : PageHolds(found[i], text, i, c) /\ computed_tokens[found[i]] = BlockSize
    <2>1. \A i \in 1 .. ReusableBlocks(s) :
            /\ PageHolds(reusable_prefix_block_ids(s)[i], token_ids[s], i, cached_prefix_tokens(s))
            /\ computed_tokens[reusable_prefix_block_ids(s)[i]] = BlockSize
      BY <1>4, <1>5, ReusableHolds
    <2> QED
      BY <1>4, <1>6, <2>1
  <1>16. \A p \in Range(found) : computed_tokens[p] = BlockSize /\ p \in Pages
    BY <1>6, <1>15 DEF Range
  <1>17. ASSUME NEW i \in DOMAIN table
         PROVE  PageHolds(table[i], text, i, c)'
    <2>1. i \in Nat \ {0} /\ IF i <= k THEN table[i] = found[i] ELSE table[i] \in F
      BY <1>9
    <2>2. CASE i <= k
      <3>1. table[i] = found[i] /\ found[i] \in Range(found) /\ i \in 1 .. k
        BY <1>6, <2>1, <2>2 DEF Range
      <3>2. PICK p \in Pages : table[i] = p /\ p \notin F
        BY <1>9, <1>16, <3>1
      <3>3. PageHolds(p, text, i, c) /\ Untouched(p)
        BY <1>10, <1>15, <3>1, <3>2
      <3>4. PageHolds(p, text, i, c)'
        BY <3>3, PageKept
      <3> QED
        BY <3>2, <3>4
    <2>3. CASE ~ (i <= k)
      <3>1. PICK p \in F : table[i] = p
        BY <2>1, <2>3
      <3>2. c <= Base(i)
        <4>1. k + 1 \in Nat \ {0} /\ k + 1 <= i /\ (k + 1) - 1 = k
          BY <1>6, <2>1, <2>3
        <4>2. Base(k + 1) <= Base(i)
          BY <2>1, <4>1, Blocks
        <4>3. Base(k + 1) = c
          BY <1>6, <4>1 DEF Base
        <4> QED
          BY <4>2, <4>3
      <3>3. PageHolds(p, text, i, c)'
        BY <1>10, <1>11, <3>1, <3>2, FreshHolds
      <3> QED
        BY <3>1, <3>3
    <2> QED
      BY <2>2, <2>3
  <1>18. Contents(s)'
    <2>1. Len(table) * BlockSize >= prompt_len[s] + 1
      BY <1>1, <1>3, <1>11, AllocateTypes
    <2>2. Len(text) <= Len(table) * BlockSize
      <3>1. Len(table) * BlockSize \in Nat
        BY BlockSizeAssumption, SMTT(30)
      <3> QED
        BY <1>5, <2>1, <3>1
    <2> QED
      BY <1>11, <1>14, <1>17, <2>2 DEF Contents
  <1>19. InFlight(s)'
    BY <1>13 DEF InFlight
  <1>20. \A p \in F : Bounded(p)'
    <2>1. ASSUME NEW p \in F
          PROVE  Bounded(p)'
      <3>1. PICK i \in DOMAIN table : table[i] = p
        BY <1>9 DEF Range
      <3>2. 0 <= Base(i) /\ 0 \in Nat
        BY <1>9, <3>1, Blocks
      <3> QED
        BY <1>10, <1>11, <3>1, <3>2, FreshHolds
    <2> QED
      BY <2>1
  <1>21. /\ Range(found) \in SUBSET Pages /\ Range(found) \intersect F = {}
         /\ Range(block_table'[s]) \subseteq Range(block_table[s]) \union Range(found) \union F
    BY <1>9, <1>11, <1>16
  <1> QED
    BY <1>3, <1>10, <1>12, <1>16, <1>18, <1>19, <1>20, <1>21, TakeStep

\* A page behind the end of a text carries nothing.
LEMMA EmptyHolds ==
    ASSUME NEW i \in Nat \ {0}, NEW text \in Seq(Tokens), Len(text) <= Base(i),
           NEW c \in Nat, c <= Len(text), NEW p,
           block_tokens'[p] = <<>>, computed_tokens'[p] = 0
    PROVE  PageHolds(p, text, i, c)' /\ Bounded(p)'
  <1>1. Base(i) \in Nat /\ BlockSize \in Nat /\ BlockSize > 0 /\ Len(text) \in Nat
    BY Blocks
  <1>2. Filled(Len(text), i) = 0 /\ Filled(c, i) = 0
    <2>1. c <= Base(i)
      BY <1>1
    <2> QED
      BY <1>1, <2>1, FilledProperties
  <1>3. BlockSlice(text, i) = <<>>
    <2>1. BlockSlice(text, i) \in Seq(Tokens) /\ Len(BlockSlice(text, i)) = 0
      BY <1>2, SliceProperties
    <2> QED
      BY <2>1
  <1>4. PageHolds(p, text, i, c)'
    <2>1. Filled(Len(text), i) # BlockSize
      BY <1>1, <1>2
    <2>2. \A o \in 0 .. Filled(c, i) - 1 : kv'[p][o] = KVAt(text, i, o)
      BY <1>2
    <2> QED
      BY <1>2, <1>3, <2>1, <2>2 DEF PageHolds
  <1>5. Bounded(p)'
    BY <1>1 DEF Bounded
  <1> QED
    BY <1>4, <1>5

LEMMA ScheduleDecodeKV ==
    ASSUME KVInv, NEW s \in Seqs, NEW lookahead \in 1 .. 1 + MaxDraft, ScheduleDecode(s, lookahead)
    PROVE  KVInv'
  <1>1. /\ status[s] = "ACTIVE" /\ work[s] = "idle" /\ num_generated(s) > 0
        /\ may_append(s, lookahead)
        /\ work' = [work EXCEPT ![s] = "scheduled"]
        /\ num_tokens' = [num_tokens EXCEPT ![s] = lookahead]
        /\ UNCHANGED <<status, num_computed, query, kv, token_ids, prompt_len>>
    BY DEF ScheduleDecode, Schedule, reqVars, may_append
  <1>2. /\ Inv /\ Inv' /\ TypeOK /\ BlockManagerTypeOK /\ Accounting(s) /\ Contents(s)
    BY ScheduleDecodeInv DEF KVInv, Inv, TypeOK
  <1>3. PICK fresh \in FreshChoices(MissingPages(s, lookahead), free_block_ids) :
            /\ block_table' = [block_table EXCEPT ![s] = @ \o fresh]
            /\ block_tokens' = [p \in Pages |-> IF p \in Range(fresh) THEN <<>> ELSE block_tokens[p]]
            /\ block_hash' = [p \in Pages |-> IF p \in Range(fresh) THEN NoHash ELSE block_hash[p]]
            /\ computed_tokens' = [p \in Pages |-> IF p \in Range(fresh) THEN 0 ELSE computed_tokens[p]]
            /\ hash_to_block_id' = IndexWithout(Range(fresh))
    BY <1>1 DEF may_append
  <1>4. PICK old \in Seq(Pages), text \in Seq(Tokens), k \in Nat, len \in Nat :
            /\ block_table[s] = old /\ token_ids[s] = text /\ Len(old) = k /\ Len(text) = len
    <2>1. block_table[s] \in Seq(Pages) /\ token_ids[s] \in Seq(Tokens)
      BY <1>2, Tables
    <2>2. PICK old \in Seq(Pages), text \in Seq(Tokens) : block_table[s] = old /\ token_ids[s] = text
      BY <2>1
    <2>3. Len(old) \in Nat /\ Len(text) \in Nat
      OBVIOUS
    <2> QED
      BY <2>2, <2>3
  <1>5. fresh \in Seq(Pages) /\ Range(fresh) \subseteq free_block_ids
    <2>1. MissingPages(s, lookahead) \in Int
      <3>1. Len(token_ids[s]) + lookahead \in Nat
        BY <1>4, MaxDraftAssumption
      <3>2. required_blocks(Len(token_ids[s]) + lookahead) \in Nat
        BY <3>1, RoundsUp
      <3> QED
        BY <1>4, <3>2 DEF MissingPages
    <2>2. free_block_ids \in SUBSET Pages
      BY <1>2 DEF BlockManagerTypeOK
    <2>3. \A n \in Int, S \in SUBSET Pages : fresh \in FreshChoices(n, S) =>
                fresh \in Seq(Pages) /\ Range(fresh) \subseteq S
      BY FreshProperties
    <2> QED
      BY <2>1, <2>2, <2>3
  <1>6. PICK table \in Seq(Pages), F \in SUBSET free_block_ids :
            /\ old \o fresh = table /\ Range(fresh) = F /\ F \subseteq Pages
            /\ Range(table) = Range(old) \union F
            /\ \A i \in DOMAIN table :
                    i \in Nat \ {0} /\ IF i <= k THEN table[i] = old[i] /\ i \in DOMAIN old
                                                 ELSE table[i] \in F
            /\ k <= Len(table)
    <2>1. PICK table \in Seq(Pages) : IsGrown(table, old, fresh)
      BY <1>5, TableGrows
    <2>2. Range(fresh) \subseteq Pages
      BY <1>2, <1>5 DEF BlockManagerTypeOK
    <2> QED
      BY <1>4, <1>5, <2>1, <2>2 DEF IsGrown
  <1>7. /\ block_table' = [block_table EXCEPT ![s] = table]
        /\ hash_to_block_id' = IndexWithout(F)
        /\ \A p \in F : block_tokens'[p] = <<>> /\ computed_tokens'[p] = 0
        /\ \A p \in Pages \ F : Untouched(p)
    <2>1. block_table' = [block_table EXCEPT ![s] = table]
      BY <1>3, <1>4, <1>6
    <2> QED
      BY <1>1, <1>3, <1>6, <2>1 DEF Untouched
  <1>8. /\ block_table'[s] = table /\ token_ids'[s] = text
        /\ work'[s] = "scheduled" /\ num_tokens'[s] > 0
    BY <1>1, <1>2, <1>4, <1>7, MaxDraftAssumption DEF TypeOK, BlockManagerTypeOK
  <1>9. \A r \in Seqs \ {s} : Idle(r)
    BY <1>1, <1>2, <1>7 DEF Idle, TypeOK, BlockManagerTypeOK
  <1>10. /\ ~ IsPrefilling(s) /\ block_table[s] # <<>> /\ prompt_len[s] \in Nat
         /\ prompt_len[s] > 0 /\ prompt_len[s] <= len
    <2>1. /\ prompt_len[s] \in Nat /\ prompt_len[s] <= len /\ num_generated(s) \in Nat
      BY <1>2, <1>4, Counts
    <2>2. /\ IsPrefilling(s) <=> num_generated(s) = 0
          /\ block_table[s] = <<>> => num_computed[s] = 0
          /\ prompt_len[s] > 0
      BY <1>1, <1>2 DEF Accounting
    <2>3. ~ IsPrefilling(s)
      BY <1>1, <2>1, <2>2
    <2>4. block_table[s] # <<>>
      BY <2>1, <2>2, <2>3 DEF IsPrefilling, uncomputed_tokens
    <2> QED
      BY <2>1, <2>2, <2>3, <2>4
  <1>11. PICK c \in Nat : ValidEnd(s) = c /\ ValidEnd(s)' = c /\ c <= len
    <2>1. ValidEnd(s) = len - 1
      BY <1>4, <1>10 DEF ValidEnd, Start
    <2>2. ValidEnd(s)' = len - 1
      BY <1>1, <1>4, <1>8, <1>10 DEF ValidEnd, Start, IsPrefilling, uncomputed_tokens
    <2>3. len - 1 \in Nat /\ len - 1 <= len
      BY <1>4, <1>10
    <2> QED
      BY <2>1, <2>2, <2>3
  <1>12. len <= k * BlockSize /\ \A i \in DOMAIN old : PageHolds(old[i], text, i, c)
    BY <1>2, <1>4, <1>10, <1>11 DEF Contents
  <1>13. ASSUME NEW i \in DOMAIN table
         PROVE  PageHolds(table[i], text, i, c)'
    <2>1. i \in Nat \ {0} /\ IF i <= k THEN table[i] = old[i] /\ i \in DOMAIN old ELSE table[i] \in F
      BY <1>6
    <2>2. CASE i <= k
      <3>1. PICK p \in Pages : table[i] = p /\ old[i] = p /\ p \notin F
        <4>1. old[i] \in Pages /\ old[i] \in Range(old)
          BY <2>1, <2>2 DEF Range
        <4>2. s \in Holders(old[i])
          BY <1>4, <4>1 DEF Holders
        <4>3. old[i] \notin free_block_ids
          BY <1>2, <4>1, <4>2, HolderCounts DEF Inv
        <4> QED
          BY <2>1, <2>2, <4>1, <4>3
      <3>2. PageHolds(p, text, i, c) /\ Untouched(p)
        BY <1>7, <1>12, <2>1, <2>2, <3>1
      <3>3. PageHolds(p, text, i, c)'
        BY <3>2, PageKept
      <3> QED
        BY <3>1, <3>3
    <2>3. CASE ~ (i <= k)
      <3>1. PICK p \in F : table[i] = p
        BY <2>1, <2>3
      <3>2. Len(text) <= Base(i)
        <4>1. k + 1 \in Nat \ {0} /\ k + 1 <= i /\ (k + 1) - 1 = k
          BY <1>4, <2>1, <2>3
        <4>2. Base(k + 1) <= Base(i) /\ Base(i) \in Nat /\ Base(k + 1) \in Nat
          BY <2>1, <4>1, Blocks
        <4>3. Base(k + 1) = k * BlockSize
          BY <4>1 DEF Base
        <4>4. len <= Base(k + 1)
          BY <1>12, <4>3
        <4> QED
          BY <1>4, <4>2, <4>4
      <3>3. PageHolds(p, text, i, c)'
        BY <1>4, <1>7, <1>11, <2>1, <3>1, <3>2, EmptyHolds
      <3> QED
        BY <3>1, <3>3
    <2> QED
      BY <2>2, <2>3
  <1>14. Contents(s)'
    <2>1. len <= Len(table) * BlockSize
      <3>1. /\ k * BlockSize <= Len(table) * BlockSize
            /\ k * BlockSize \in Nat /\ Len(table) * BlockSize \in Nat
        BY <1>6, BlockSizeAssumption, SMTT(30)
      <3> QED
        BY <1>12, <3>1
    <2> QED
      BY <1>4, <1>8, <1>11, <1>13, <2>1 DEF Contents
  <1>15. InFlight(s)'
    BY <1>8 DEF InFlight
  <1>16. ASSUME NEW p \in F
         PROVE  Bounded(p)'
    <2>1. Len(<<>>) = 0
      OBVIOUS
    <2> QED
      BY <1>7, <2>1, BlockSizeAssumption DEF Bounded
  <1>17. /\ Range(block_table'[s]) \subseteq Range(block_table[s]) \union {} \union F
         /\ {} \in SUBSET Pages /\ {} \intersect F = {}
         /\ \A p \in {} : computed_tokens[p] = BlockSize
    BY <1>4, <1>6, <1>8
  <1> QED
    BY <1>2, <1>7, <1>9, <1>14, <1>15, <1>16, <1>17, TakeStep

-----------------------------------------------------------------------------
(* Marking: what a commit makes valid.                                     *)

\* The positions from start to end touch block i.
Touches(start, end, i) == Base(i) < end /\ start < Base(i) + BlockSize

LEMMA TouchedBlock ==
    ASSUME BlockManagerTypeOK, NEW s \in Seqs, IsInjective(block_table[s]),
           NEW i \in DOMAIN block_table[s],
           NEW start \in Nat, NEW end \in Nat, start < end,
           end <= Len(block_table[s]) * BlockSize,
           Len(block_table[s]) * BlockSize \in Nat
    PROVE  (\E pos \in start .. end - 1 : physical_block_id(s, pos) = block_table[s][i])
                <=> Touches(start, end, i)
  <1>1. i \in Nat \ {0}
    BY SMTT(30) DEF BlockManagerTypeOK
  <1>2. Base(i) \in Nat /\ BlockSize \in Nat /\ BlockSize > 0
    BY <1>1, Blocks
  <1>3. ASSUME NEW pos \in start .. end - 1, physical_block_id(s, pos) = block_table[s][i]
        PROVE  Touches(start, end, i)
    <2>1. pos \in Nat /\ pos < Len(block_table[s]) * BlockSize
      OBVIOUS
    <2>2. PICK j \in DOMAIN block_table[s] :
            /\ physical_block_id(s, pos) = block_table[s][j]
            /\ Offset(pos) \in 0 .. BlockSize - 1
            /\ pos = Base(j) + Offset(pos)
      BY <2>1, SlotOf
    <2>3. j = i
      BY <1>3, <2>2 DEF IsInjective
    <2> QED
      BY <1>2, <2>2, <2>3 DEF Touches
  <1>4. ASSUME Touches(start, end, i)
        PROVE  \E pos \in start .. end - 1 : physical_block_id(s, pos) = block_table[s][i]
    <2>1. PICK o \in 0 .. BlockSize - 1 : Base(i) + o \in start .. end - 1
      <3>1. CASE start <= Base(i)
        <4>1. 0 \in 0 .. BlockSize - 1 /\ Base(i) + 0 \in start .. end - 1
          BY <1>2, <1>4, <3>1 DEF Touches
        <4> QED
          BY <4>1
      <3>2. CASE start > Base(i)
        <4>1. start - Base(i) \in 0 .. BlockSize - 1
          BY <1>2, <1>4, <3>2 DEF Touches
        <4>2. Base(i) + (start - Base(i)) = start
          BY <1>2
        <4>3. start \in start .. end - 1
          BY <1>2, <1>4, <3>2 DEF Touches
        <4> QED
          BY <4>1, <4>2, <4>3
      <3> QED
        BY <1>2, <3>1, <3>2
    <2>2. (Base(i) + o) \div BlockSize + 1 = i
      BY <1>1, PositionOf
    <2>3. physical_block_id(s, Base(i) + o) = block_table[s][i]
      BY <2>2 DEF physical_block_id
    <2> QED
      BY <2>1, <2>3
  <1> QED
    BY <1>3, <1>4

\* What mark_computed makes of a page, and what it leaves.
LEMMA MarkedLength ==
    ASSUME NEW i \in Nat \ {0}, NEW start \in Nat, NEW end \in Nat, start <= end
    PROVE  IF Touches(start, end, i)
           THEN Max({Filled(start, i), Min({BlockSize, end - Base(i)})}) = Filled(end, i)
           ELSE Filled(start, i) = Filled(end, i)
  <1>1. /\ Base(i) \in Nat /\ BlockSize \in Nat /\ BlockSize > 0
    BY Blocks
  <1>2. /\ Filled(start, i) \in 0 .. BlockSize /\ Filled(end, i) \in 0 .. BlockSize
        /\ Filled(start, i) <= Filled(end, i)
    BY FilledProperties
  <1>3. CASE Touches(start, end, i)
    <2>1. end - Base(i) \in Int
      BY <1>1
    <2>2. Min({BlockSize, end - Base(i)}) = IF BlockSize <= end - Base(i) THEN BlockSize ELSE end - Base(i)
      BY <1>1, <2>1, MinOfTwo
    <2>3. Filled(end, i) = IF BlockSize <= end - Base(i) THEN BlockSize ELSE end - Base(i)
      BY <1>1, <1>3 DEF Touches, Filled
    <2>4. Max({Filled(start, i), Filled(end, i)}) = Filled(end, i)
      BY <1>1, <1>2, MaxOfTwo
    <2> QED
      BY <1>3, <2>2, <2>3, <2>4
  <1>4. CASE ~ Touches(start, end, i)
    BY <1>1, <1>4 DEF Touches, Filled
  <1> QED
    BY <1>3, <1>4

\* A call of mark_computed for n positions that start where the K/V of the pages ends.
Marks(s, start, n, end, hashes) ==
    /\ start + n = end
    /\ end <= Len(block_table[s]) * BlockSize
    /\ mark_computed(s, start, n, hashes)
    /\ \A i \in DOMAIN block_table[s] : computed_tokens[block_table[s][i]] = Filled(start, i)

\* The pages of request s are computed up to `end`, and only full ones are published.
Marked(s, end, hashes) ==
    /\ \A i \in DOMAIN block_table[s] : computed_tokens'[block_table[s][i]] = Filled(end, i)
    /\ \A p \in Pages \ Range(block_table[s]) : computed_tokens'[p] = computed_tokens[p]
    /\ \A h \in DOMAIN hash_to_block_id' :
            \/ h \in DOMAIN hash_to_block_id /\ hash_to_block_id'[h] = hash_to_block_id[h]
            \/ \E i \in DOMAIN block_table[s] :
                    /\ hash_to_block_id'[h] = block_table[s][i]
                    /\ Filled(end, i) = BlockSize
                    /\ hashes[block_table[s][i]] = h

\* mark_computed makes the text valid up to `end`.
LEMMA MarkHolds ==
    ASSUME TypeOK, NEW s \in Seqs, IsInjective(block_table[s]),
           NEW start \in Nat, NEW n \in Nat \ {0}, NEW end \in Nat,
           NEW hashes \in [Pages -> Seq(Tokens)], Marks(s, start, n, end, hashes)
    PROVE  Marked(s, end, hashes)
  <1> SUFFICES
        ASSUME start + n = end, end <= Len(block_table[s]) * BlockSize,
               mark_computed(s, start, n, hashes),
               \A i \in DOMAIN block_table[s] :
                    computed_tokens[block_table[s][i]] = Filled(start, i)
        PROVE  Marked(s, end, hashes)
    BY DEF Marks
  <1> DEFINE table == block_table[s]
             Touched == {physical_block_id(s, pos) : pos \in start .. start + n - 1}
             computed == [p \in Pages |->
                IF p \in Touched
                THEN Max({computed_tokens[p], ValidLength(s, p, start + n)})
                ELSE computed_tokens[p]]
             published == {p \in Touched : /\ EnablePrefixCaching
                                           /\ computed[p] = BlockSize
                                           /\ computed_tokens[p] < BlockSize
                                           /\ hashes[p] # NoHash}
             Publisher(h) == CHOOSE p \in published : hashes[p] = h
             index == hash_to_block_id
  <1>1. BlockManagerTypeOK
    BY DEF TypeOK
  <1>2. /\ computed_tokens' = computed
        /\ hash_to_block_id' =
            [h \in DOMAIN index \union {hashes[p] : p \in published} |->
                IF h \in DOMAIN index THEN index[h] ELSE Publisher(h)]
    BY DEF mark_computed
  <1>3. /\ Len(table) * BlockSize \in Nat /\ start <= end /\ start < end
        /\ end - 1 = start + n - 1
    <2>1. Len(table) * BlockSize \in Nat
      BY Counts
    <2>2. start <= end /\ start < end /\ end - 1 = start + n - 1
      OBVIOUS
    <2> QED
      BY <2>1, <2>2
  <1>4. \A i \in DOMAIN table : table[i] \in Touched <=> Touches(start, end, i)
    <2> DEFINE Reaches(i) == \E pos \in start .. end - 1 : physical_block_id(s, pos) = table[i]
    <2>1. \A i \in DOMAIN table : Reaches(i) <=> Touches(start, end, i)
      <3>1. end <= Len(table) * BlockSize
        OBVIOUS
      <3> QED
        BY <1>1, <1>3, <3>1, TouchedBlock
    <2>2. Touched = {physical_block_id(s, pos) : pos \in start .. end - 1}
      BY <1>3
    <2>3. \A i \in DOMAIN table : table[i] \in Touched <=> Reaches(i)
      BY <2>2
    <2> HIDE DEF Reaches, Touched
    <2> QED
      BY <2>1, <2>3
  <1>5. Touched \subseteq Range(table)
    <2>1. ASSUME NEW pos \in start .. end - 1
          PROVE  physical_block_id(s, pos) \in Range(table)
      <3>1. pos \in Nat /\ pos < Len(table) * BlockSize
        BY <1>3
      <3> QED
        BY <1>1, <3>1, PositionMapped
    <2> QED
      BY <1>3, <2>1
  <1> HIDE DEF Touched
  <1>6. ASSUME NEW i \in DOMAIN table
        PROVE  computed_tokens'[table[i]] = Filled(end, i)
    <2>1. i \in Nat \ {0} /\ table[i] \in Pages
      BY Tables
    <2>2. ValidLength(s, table[i], end) = Min({BlockSize, end - Base(i)})
      BY LogicalBlockOf DEF ValidLength, Base
    <2>3. computed[table[i]] =
            IF Touches(start, end, i)
            THEN Max({Filled(start, i), Min({BlockSize, end - Base(i)})})
            ELSE Filled(start, i)
      BY <1>4, <2>1, <2>2
    <2>4. computed[table[i]] = Filled(end, i)
      BY <1>3, <2>1, <2>3, MarkedLength
    <2> QED
      BY <1>2, <2>4
  <1>7. \A p \in Pages \ Range(table) : computed_tokens'[p] = computed_tokens[p]
    BY <1>2, <1>5
  <1>8. ASSUME NEW h \in DOMAIN hash_to_block_id', ~ (h \in DOMAIN index)
        PROVE  \E i \in DOMAIN table : /\ hash_to_block_id'[h] = table[i]
                                       /\ Filled(end, i) = BlockSize
                                       /\ hashes[table[i]] = h
    <2>1. \E p \in published : hashes[p] = h
      BY <1>2, <1>8
    <2>2. hash_to_block_id'[h] = Publisher(h)
      BY <1>2, <1>8
    <2>3. PICK p \in published : hash_to_block_id'[h] = p /\ hashes[p] = h
      <3>1. Publisher(h) \in published /\ hashes[Publisher(h)] = h
        <4> HIDE DEF published
        <4> QED
          BY <2>1
      <3> HIDE DEF Publisher, published
      <3> QED
        BY <2>2, <3>1
    <2>4. p \in Range(table) /\ computed_tokens'[p] = BlockSize
      BY <1>2, <1>5
    <2>5. PICK i \in DOMAIN table : table[i] = p
      BY <2>4 DEF Range
    <2> QED
      BY <1>6, <2>3, <2>4, <2>5
  <1>9. ASSUME NEW h \in DOMAIN hash_to_block_id', h \in DOMAIN index
        PROVE  hash_to_block_id'[h] = index[h]
    BY <1>2, <1>9
  <1> QED
    BY <1>6, <1>7, <1>8, <1>9 DEF Marked

-----------------------------------------------------------------------------
(* Recording: what a commit adds to the text.                              *)

\* The block that the next token of a text goes to.
LEMMA NextBlock ==
    ASSUME NEW old \in Nat
    PROVE  /\ old \div BlockSize + 1 \in Nat \ {0}
           /\ Base(old \div BlockSize + 1) <= old
           /\ old < (old \div BlockSize + 1) * BlockSize
  <1> DEFINE first == old \div BlockSize + 1
  <1>1. /\ first \in Nat \ {0} /\ Offset(old) \in 0 .. BlockSize - 1
        /\ old = Base(first) + Offset(old)
    BY PositionBounds
  <1>2. Base(first) \in Nat /\ first * BlockSize = Base(first) + BlockSize /\ BlockSize \in Nat
    BY <1>1, Blocks
  <1> HIDE DEF first
  <1>3. Base(first) <= old /\ old < first * BlockSize
    <2>1. PICK e \in Nat : first * BlockSize = e /\ e = Base(first) + BlockSize
      BY <1>2
    <2> QED
      BY <1>1, <1>2, <2>1
  <1> QED
    BY <1>1, <1>3 DEF first

\* Block i gets some of the tokens that follow a text.
Gets(text, tokens, i) == Base(i) < Len(text) + Len(tokens) /\ Len(text) < i * BlockSize

\* The bounds by which append_and_record cuts the tokens of block i from a burst.
CutsAt(text, tokens, i, skip, to) ==
    /\ Adds(text, tokens, i, skip, to)
    /\ Min({i * BlockSize - Len(text), Len(tokens)}) = to
    /\ Max({(i - 1) * BlockSize - Len(text), 0}) = skip
    /\ Filled(Len(text) + Len(tokens), i) = BlockSize => Len(text) + to = i * BlockSize

LEMMA AddedTo ==
    ASSUME NEW text \in Seq(Tokens), NEW tokens \in Seq(Tokens), NEW i \in Nat \ {0},
           Gets(text, tokens, i)
    PROVE  \E skip \in Int, to \in 0 .. Len(tokens) : CutsAt(text, tokens, i, skip, to)
  <1>1. PICK old \in Nat, new \in Nat, b \in Nat, e \in Nat :
            /\ Len(text) = old /\ Len(tokens) = new
            /\ Base(i) = b /\ i * BlockSize = e /\ b + BlockSize = e
    BY Blocks
  <1>2. /\ b < old + new /\ old < e /\ (i - 1) * BlockSize = b
        /\ BlockSize \in Nat /\ BlockSize > 0
    BY <1>1, BlockSizeAssumption DEF Base, Gets
  <1>3. PICK to \in Int : /\ Min({e - old, new}) = to
                          /\ e - old <= new => e - old = to
                          /\ ~ (e - old <= new) => new = to
    <2>1. \A d \in Int : Min({d, new}) = IF d <= new THEN d ELSE new
      BY MinOfTwo
    <2>2. PICK d \in Int : e - old = d
      OBVIOUS
    <2>3. /\ Min({e - old, new}) \in Int
          /\ e - old <= new => e - old = Min({e - old, new})
          /\ ~ (e - old <= new) => new = Min({e - old, new})
      BY <2>1, <2>2
    <2> QED
      BY <2>3
  <1>4. PICK skip \in Int : /\ Max({b - old, 0}) = skip
                            /\ b <= old => skip = 0
                            /\ ~ (b <= old) => b - old = skip
    <2>1. \A d, z \in Int : Max({d, z}) = IF d <= z THEN z ELSE d
      BY MaxOfTwo
    <2>2. PICK d \in Int, z \in Int : b - old = d /\ 0 = z
      OBVIOUS
    <2>3. Max({b - old, 0}) = IF d <= z THEN z ELSE d
      BY <2>1, <2>2
    <2>4. /\ Max({b - old, 0}) \in Int
          /\ b <= old => Max({b - old, 0}) = 0
          /\ ~ (b <= old) => b - old = Max({b - old, 0})
      BY <2>2, <2>3
    <2> QED
      BY <2>4
  <1>5. Adds(text, tokens, i, skip, to)
    BY <1>1, <1>2, <1>3, <1>4 DEF Adds
  <1>6. to \in 0 .. new
    BY <1>2, <1>3
  <1>7. Filled(old + new, i) = BlockSize => old + to = e
    <2>1. Filled(old + new, i) = BlockSize => i * BlockSize <= old + new
      <3>1. PICK n \in Nat : old + new = n
        OBVIOUS
      <3>2. Filled(n, i) = BlockSize => i * BlockSize <= n
        BY FilledProperties
      <3> QED
        BY <3>1, <3>2
    <2>2. e <= old + new => e - old = to
      BY <1>3
    <2> QED
      BY <1>1, <2>1, <2>2
  <1> QED
    BY <1>1, <1>2, <1>3, <1>4, <1>5, <1>6, <1>7 DEF CutsAt

\* The start of a burst that fills block i.
LEMMA StartOf ==
    ASSUME NEW text \in Seq(Tokens), NEW tokens \in Seq(Tokens), NEW i \in Nat \ {0},
           NEW to \in 0 .. Len(tokens)
    PROVE  /\ SubSeq(tokens, 1, to) \in Seq(Tokens)
           /\ Len(SubSeq(tokens, 1, to)) = to
           /\ IsStart(SubSeq(tokens, 1, to), tokens)
           /\ Len(text) + to = i * BlockSize => EndsBlock(text, SubSeq(tokens, 1, to), i)
  <1>1. PICK upto \in Seq(Tokens) : /\ SubSeq(tokens, 1, to) = upto /\ Len(upto) = to
                                    /\ \A j \in 1 .. to : upto[j] = tokens[j]
    BY PrefixProperties
  <1>2. Len(upto) <= Len(tokens)
    BY <1>1
  <1>3. \A j \in 1 .. Len(upto) : upto[j] = tokens[j]
    BY <1>1
  <1>4. IsStart(upto, tokens)
    BY <1>2, <1>3 DEF IsStart
  <1>5. Len(text) + to = i * BlockSize => EndsBlock(text, upto, i)
    BY <1>1 DEF EndsBlock
  <1> QED
    BY <1>1, <1>4, <1>5

\* The blocks from that of the first new position to that of the last are those the
\* burst touches.
LEMMA BurstBlocks ==
    ASSUME NEW old \in Nat, NEW end \in Nat, old < end, NEW i \in Nat \ {0}
    PROVE  i \in old \div BlockSize + 1 .. (end - 1) \div BlockSize + 1 <=> Touches(old, end, i)
  <1>1. PICK final \in Nat : end - 1 = final /\ final < end /\ end <= final + 1 /\ old <= final
    <2>1. end - 1 \in Nat /\ end - 1 < end /\ end <= (end - 1) + 1 /\ old <= end - 1
      OBVIOUS
    <2> QED
      BY <2>1
  <1>2. PICK first \in Nat \ {0} : /\ old \div BlockSize + 1 = first
                                   /\ Base(first) <= old /\ old < first * BlockSize
    BY NextBlock
  <1>3. PICK last \in Nat \ {0} : /\ final \div BlockSize + 1 = last
                                  /\ Base(last) <= final /\ final < last * BlockSize
    BY NextBlock
  <1>4. PICK b \in Nat, e \in Nat : /\ Base(i) = b /\ i * BlockSize = e /\ b + BlockSize = e
                                    /\ BlockSize \in Nat /\ BlockSize > 0
    BY Blocks
  <1>5. PICK fb \in Nat, fe \in Nat : /\ Base(first) = fb /\ first * BlockSize = fe
                                      /\ fb <= old /\ old < fe
                                      /\ first < i => fe <= b
                                      /\ i < first => e <= fb
                                      /\ first = i => fe = e
    <2>1. Base(first) \in Nat /\ first * BlockSize \in Nat
      BY Blocks
    <2>2. first < i => first * BlockSize <= Base(i)
      BY Blocks
    <2>3. i < first => i * BlockSize <= Base(first)
      BY Blocks
    <2> QED
      BY <1>2, <1>4, <2>1, <2>2, <2>3
  <1>6. PICK lb \in Nat, le \in Nat : /\ lb <= final /\ final < le
                                      /\ last < i => le <= b
                                      /\ i <= last => b <= lb
    <2>1. Base(last) \in Nat /\ last * BlockSize \in Nat
      BY Blocks
    <2>2. last < i => last * BlockSize <= Base(i)
      BY Blocks
    <2>3. i <= last => Base(i) <= Base(last)
      BY Blocks
    <2> QED
      BY <1>3, <1>4, <2>1, <2>2, <2>3
  <1>7. Touches(old, end, i) <=> b < end /\ old < e
    BY <1>4 DEF Touches
  <1>8. i \in first .. last <=> b < end /\ old < e
    BY <1>1, <1>4, <1>5, <1>6
  <1> QED
    BY <1>1, <1>2, <1>3, <1>7, <1>8

\* append_and_record extends the pages of the request to the longer text, and leaves
\* the full pages and those of the others.
LEMMA RecordHolds ==
    ASSUME TypeOK, NEW s \in Seqs, IsInjective(block_table[s]),
           NEW text \in Seq(Tokens), token_ids[s] = text,
           NEW tokens \in Seq(Tokens), Len(tokens) > 0,
           Len(text) + Len(tokens) <= Len(block_table[s]) * BlockSize,
           append_and_record(s, tokens),
           \A i \in DOMAIN block_table[s] :
                /\ block_tokens[block_table[s][i]] = BlockSlice(text, i)
                /\ Filled(Len(text), i) = BlockSize
                        => block_hash[block_table[s][i]] = PrefixHash(text, i)
    PROVE  /\ \A i \in DOMAIN block_table[s] :
                /\ block_tokens'[block_table[s][i]] = BlockSlice(text \o tokens, i)
                /\ Filled(Len(text) + Len(tokens), i) = BlockSize
                        => block_hash'[block_table[s][i]] = PrefixHash(text \o tokens, i)
                /\ Filled(Len(text), i) = BlockSize =>
                        /\ block_tokens'[block_table[s][i]] = block_tokens[block_table[s][i]]
                        /\ block_hash'[block_table[s][i]] = block_hash[block_table[s][i]]
           /\ \A p \in Pages \ Range(block_table[s]) :
                block_tokens'[p] = block_tokens[p] /\ block_hash'[p] = block_hash[p]
  <1> DEFINE table == block_table[s]
             first == Len(text) \div BlockSize + 1
             last == (Len(text) + Len(tokens) - 1) \div BlockSize + 1
             Touched == {table[i] : i \in first .. last}
             parent == IF first = 1 THEN NoHash ELSE block_hash[table[first - 1]]
             Upto(i) == SubSeq(tokens, 1, Min({i * BlockSize - Len(text), Len(tokens)}))
             In(i) == SubSeq(tokens, Max({(i - 1) * BlockSize - Len(text), 0}) + 1, Len(Upto(i)))
             Text(p) == block_tokens[p] \o In(LogicalBlock(table, p))
  <1>1. /\ block_tokens' = [p \in Pages |-> IF p \in Touched THEN Text(p) ELSE block_tokens[p]]
        /\ block_hash' = [p \in Pages |->
                IF p \in Touched /\ Len(Text(p)) = BlockSize
                THEN compute_block_hash(parent, block_tokens[table[first]]
                                                    \o Upto(LogicalBlock(table, p)))
                ELSE block_hash[p]]
    BY DEF append_and_record
  <1>2. PICK old \in Nat, end \in Nat : /\ Len(text) = old /\ Len(text) + Len(tokens) = end
                                        /\ old < end /\ old <= end
    <2>1. Len(text) \in Nat /\ Len(text) + Len(tokens) \in Nat /\ Len(text) < Len(text) + Len(tokens)
      OBVIOUS
    <2> QED
      BY <2>1
  <1>3. last \in 1 .. Len(table) /\ last = (end - 1) \div BlockSize + 1
    <2>1. PICK final \in Nat : end - 1 = final /\ final < end
      BY <1>2
    <2>2. Len(table) * BlockSize \in Nat
      BY Counts
    <2>3. final < Len(table) * BlockSize
      BY <1>2, <2>1, <2>2
    <2>4. final \div BlockSize + 1 \in 1 .. Len(table)
      BY <2>3, PositionMapped DEF TypeOK
    <2>5. Len(text) + Len(tokens) - 1 = final
      BY <1>2, <2>1
    <2> QED
      BY <2>1, <2>4, <2>5
  <1>4. /\ first \in Nat \ {0} /\ Base(first) <= Len(text) /\ Len(text) < first * BlockSize
        /\ DOMAIN table = 1 .. Len(table)
        /\ first = old \div BlockSize + 1
    BY <1>2, NextBlock, Tables
  <1>5. \A i \in 1 .. Len(table) : table[i] \in Touched <=> Touches(old, end, i)
    <2>1. ASSUME NEW i \in 1 .. Len(table)
          PROVE  table[i] \in Touched <=> i \in first .. last
      <3>1. \A j \in first .. last : j \in DOMAIN table
        <4> HIDE DEF first, last
        <4> QED
          BY <1>3, <1>4
      <3>2. \A j \in first .. last : table[j] = table[i] => j = i
        BY <1>4, <3>1 DEF IsInjective
      <3> HIDE DEF first, last
      <3> QED
        BY <3>2
    <2>2. ASSUME NEW i \in 1 .. Len(table)
          PROVE  i \in first .. last <=> Touches(old, end, i)
      <3>1. i \in Nat \ {0}
        OBVIOUS
      <3>2. i \in old \div BlockSize + 1 .. (end - 1) \div BlockSize + 1 <=> Touches(old, end, i)
        BY <1>2, <3>1, BurstBlocks
      <3> QED
        BY <1>3, <1>4, <3>2
    <2> QED
      BY <2>1, <2>2
  <1>6. Touched \subseteq Range(table)
    <2>1. \A j \in first .. last : j \in DOMAIN table
      <3> HIDE DEF first, last
      <3> QED
        BY <1>3, <1>4
    <2> QED
      BY <2>1 DEF Range
  <1>7. first \in DOMAIN table
    <2>1. Len(table) * BlockSize \in Nat
      BY Counts
    <2>2. old < Len(table) * BlockSize
      BY <1>2, <2>1
    <2>3. old \div BlockSize + 1 \in 1 .. Len(table)
      BY <2>2, PositionMapped DEF TypeOK
    <2> QED
      BY <1>4, <2>3
  <1>8. parent = IF first = 1 THEN NoHash ELSE PrefixHash(text, first - 1)
    <2>1. CASE first # 1
      <3>1. first - 1 \in Nat \ {0} /\ first - 1 \in DOMAIN table
        <4> HIDE DEF first
        <4> QED
          BY <1>4, <1>7, <2>1
      <3>2. Filled(Len(text), first - 1) = BlockSize
        <4>1. (first - 1) * BlockSize = Base(first)
          BY DEF Base
        <4>2. \A n \in Nat, j \in Nat \ {0} : j * BlockSize <= n => Filled(n, j) = BlockSize
          BY FilledProperties
        <4> HIDE DEF first
        <4> QED
          BY <1>2, <1>4, <3>1, <4>1, <4>2
      <3>3. block_hash[table[first - 1]] = PrefixHash(text, first - 1)
        BY <3>1, <3>2
      <3> QED
        BY <2>1, <3>3
    <2> QED
      BY <2>1
  <1>9. block_tokens[table[first]] = BlockSlice(text, first)
    BY <1>7
  <1> HIDE DEF first, last, Touched, parent, Upto, In, Text
  <1>10. PICK whole \in Seq(Tokens) : text \o tokens = whole /\ Len(whole) = end
    BY <1>2, ConcatProperties, Zenon
  <1>11. ASSUME NEW i \in DOMAIN table, Touches(old, end, i)
         PROVE  /\ block_tokens'[table[i]] = BlockSlice(whole, i)
                /\ Filled(end, i) = BlockSize => block_hash'[table[i]] = PrefixHash(whole, i)
                /\ Filled(old, i) # BlockSize
    <2>1. i \in Nat \ {0} /\ table[i] \in Pages /\ table[i] \in Touched /\ i \in 1 .. Len(table)
      BY <1>4, <1>5, <1>11, Tables
    <2>2. LogicalBlock(table, table[i]) = i
      BY LogicalBlockOf
    <2>3. PICK skip \in Int, to \in 0 .. Len(tokens) : CutsAt(text, tokens, i, skip, to)
      <3>1. i * BlockSize = Base(i) + BlockSize
        BY <2>1, Blocks
      <3>2. Gets(text, tokens, i)
        BY <1>2, <1>11, <3>1 DEF Touches, Gets
      <3> QED
        BY <2>1, <3>2, AddedTo
    <2>4. PICK upto \in Seq(Tokens) :
            /\ SubSeq(tokens, 1, to) = upto /\ Len(upto) = to /\ IsStart(upto, tokens)
            /\ Len(text) + to = i * BlockSize => EndsBlock(text, upto, i)
      BY <2>1, StartOf
    <2>5. Upto(i) = upto /\ In(i) = SubSeq(tokens, skip + 1, to)
      BY <2>3, <2>4 DEF Upto, In, CutsAt
    <2>6. Text(table[i]) = BlockSlice(text, i) \o SubSeq(tokens, skip + 1, to)
      BY <1>2, <2>2, <2>5 DEF Text
    <2>7. BlockSlice(text, i) \o SubSeq(tokens, skip + 1, to) = BlockSlice(whole, i)
      <3>1. to \in Int /\ Adds(text, tokens, i, skip, to)
        BY <2>3 DEF CutsAt
      <3>2. \A t, u \in Seq(Tokens), j \in Nat \ {0}, a, b \in Int :
                Adds(t, u, j, a, b) => Completes(t, u, j, a, b)
        BY RecordSlice DEF Completes
      <3>3. Completes(text, tokens, i, skip, to)
        BY <2>1, <3>1, <3>2
      <3> QED
        BY <1>10, <3>3 DEF Completes
    <2>8. block_tokens'[table[i]] = BlockSlice(whole, i)
      BY <1>1, <2>1, <2>6, <2>7
    <2>9. ASSUME Filled(end, i) = BlockSize
          PROVE  block_hash'[table[i]] = PrefixHash(whole, i)
      <3>1. Len(Text(table[i])) = BlockSize
        <4>1. Len(BlockSlice(whole, i)) = Filled(Len(whole), i)
          BY <2>1, SliceProperties
        <4> QED
          BY <1>10, <2>6, <2>7, <2>9, <4>1
      <3>2. block_hash'[table[i]] = compute_block_hash(parent, block_tokens[table[first]] \o upto)
        BY <1>1, <2>1, <2>2, <2>5, <3>1
      <3>3. compute_block_hash(IF first = 1 THEN NoHash ELSE PrefixHash(text, first - 1),
                               BlockSlice(text, first) \o upto) = text \o upto
        BY <1>4, RecordHash
      <3>4. EndsBlock(text, upto, i)
        BY <1>2, <2>3, <2>4, <2>9 DEF CutsAt
      <3>5. text \o upto = PrefixHash(text \o tokens, i)
        <4>1. \A t, u, v \in Seq(Tokens), j \in Nat \ {0} :
                IsStart(v, u) /\ EndsBlock(t, v, j) => HashesTo(t, v, u, j)
          <5> SUFFICES ASSUME NEW t \in Seq(Tokens), NEW u \in Seq(Tokens), NEW v \in Seq(Tokens),
                              NEW j \in Nat \ {0}, IsStart(v, u), EndsBlock(t, v, j)
                       PROVE  HashesTo(t, v, u, j)
            OBVIOUS
          <5>1. t \o v = PrefixHash(t \o u, j)
            BY StartOfWhole
          <5> QED
            BY <5>1 DEF HashesTo
        <4>2. IsStart(upto, tokens) /\ i \in Nat \ {0} /\ upto \in Seq(Tokens)
          BY <2>1, <2>4
        <4>3. HashesTo(text, upto, tokens, i)
          BY <3>4, <4>1, <4>2
        <4> QED
          BY <4>3 DEF HashesTo
      <3> QED
        BY <1>8, <1>9, <1>10, <3>2, <3>3, <3>5
    <2>10. Filled(old, i) # BlockSize
      <3>1. PICK b \in Nat, e \in Nat : Base(i) = b /\ i * BlockSize = e /\ b + BlockSize = e
        BY <2>1, Blocks
      <3>2. old < e
        BY <1>11, <3>1 DEF Touches
      <3>3. Filled(old, i) = BlockSize <=> i * BlockSize <= old
        BY <2>1, FilledProperties
      <3> QED
        BY <3>1, <3>2, <3>3
    <2> QED
      BY <2>8, <2>9, <2>10
  <1>12. ASSUME NEW i \in DOMAIN table, ~ Touches(old, end, i)
         PROVE  /\ block_tokens'[table[i]] = BlockSlice(whole, i)
                /\ Filled(end, i) = BlockSize => block_hash'[table[i]] = PrefixHash(whole, i)
                /\ block_tokens'[table[i]] = block_tokens[table[i]]
                /\ block_hash'[table[i]] = block_hash[table[i]]
    <2>1. i \in Nat \ {0} /\ table[i] \in Pages /\ table[i] \notin Touched
      BY <1>4, <1>5, <1>12, Tables
    <2>2. /\ block_tokens'[table[i]] = block_tokens[table[i]]
          /\ block_hash'[table[i]] = block_hash[table[i]]
      BY <1>1, <2>1
    <2>3. Filled(old, i) = Filled(end, i)
      BY <1>2, <1>12, <2>1, MarkedLength
    <2>4. BlockSlice(whole, i) = BlockSlice(text, i)
      <3>1. Filled(Len(text) + Len(tokens), i) = Filled(Len(text), i)
        BY <1>2, <2>3
      <3> QED
        BY <1>10, <2>1, <3>1, GrowSlice
    <2>5. ASSUME Filled(end, i) = BlockSize
          PROVE  block_hash[table[i]] = PrefixHash(whole, i)
      <3>1. block_hash[table[i]] = PrefixHash(text, i)
        BY <1>2, <2>3, <2>5
      <3>2. i * BlockSize \in 0 .. Len(text)
        <4>1. i * BlockSize <= old /\ i * BlockSize \in Nat
          BY <2>1, <2>3, <2>5, FilledProperties, Blocks
        <4> QED
          BY <1>2, <4>1
      <3>3. SubSeq(text \o tokens, 1, i * BlockSize) = SubSeq(text, 1, i * BlockSize)
        BY <3>2, GrowPrefix
      <3> QED
        BY <1>10, <3>1, <3>3 DEF PrefixHash
    <2> QED
      BY <2>2, <2>4, <2>5
  <1>13. \A p \in Pages \ Range(table) :
            block_tokens'[p] = block_tokens[p] /\ block_hash'[p] = block_hash[p]
    BY <1>1, <1>6
  <1> QED
    BY <1>2, <1>10, <1>11, <1>12, <1>13

-----------------------------------------------------------------------------
(* Committing.                                                             *)

\* q is what whole has behind its first `start` tokens, for k of them.
Continues(q, whole, start, k) == \A j \in 1 .. k : q[j] = whole[start + j]

\* k tokens of q continue the first `start` tokens of a text to the first `end` of whole.
Feeds(text, whole, q, start, k, end) ==
    /\ start \in 0 .. Len(text) /\ k \in 0 .. Len(q) /\ end \in 0 .. Len(whole)
    /\ start + k = end
    /\ SubSeq(whole, 1, start) = SubSeq(text, 1, start)
    /\ Continues(q, whole, start, k)

\* The tokens that were fed are those of the text before `end`.
FedText(text, whole, q, start, k, end) ==
    SubSeq(text, 1, start) \o SubSeq(q, 1, k) = SubSeq(whole, 1, end)

\* The K/V of a forward is that of the text its query is committed to.
LEMMA FedIsText ==
    ASSUME NEW text \in Seq(Tokens), NEW whole \in Seq(Tokens), NEW q \in Seq(Tokens),
           NEW start \in Nat, NEW k \in Nat, NEW end \in Nat,
           Feeds(text, whole, q, start, k, end)
    PROVE  FedText(text, whole, q, start, k, end)
  <1> SUFFICES
        ASSUME start \in 0 .. Len(text), k \in 0 .. Len(q), end \in 0 .. Len(whole),
               start + k = end,
               SubSeq(whole, 1, start) = SubSeq(text, 1, start), Continues(q, whole, start, k)
        PROVE  SubSeq(text, 1, start) \o SubSeq(q, 1, k) = SubSeq(whole, 1, end)
    BY DEF Feeds, FedText
  <1>1. PICK left \in Seq(Tokens) : /\ SubSeq(text, 1, start) = left /\ Len(left) = start
    BY PrefixProperties
  <1>2. start \in 0 .. Len(whole)
    OBVIOUS
  <1>3. \A j \in 1 .. start : left[j] = whole[j]
    <2>1. \A j \in 1 .. start : SubSeq(whole, 1, start)[j] = whole[j]
      BY <1>2, PrefixProperties
    <2> QED
      BY <1>1, <2>1
  <1>4. PICK right \in Seq(Tokens) : /\ SubSeq(q, 1, k) = right /\ Len(right) = k
                                     /\ \A j \in 1 .. k : right[j] = q[j]
    BY PrefixProperties
  <1>5. PICK both \in Seq(Tokens) :
            /\ left \o right = both /\ Len(both) = end
            /\ \A j \in 1 .. end : both[j] = IF j <= start THEN left[j] ELSE right[j - start]
    <2>1. PICK both \in Seq(Tokens) : left \o right = both
      BY ConcatProperties
    <2>2. /\ Len(both) = Len(left) + Len(right)
          /\ \A j \in 1 .. Len(left) + Len(right) :
                both[j] = IF j <= Len(left) THEN left[j] ELSE right[j - Len(left)]
      BY <2>1, ConcatProperties
    <2>3. Len(left) + Len(right) = end /\ Len(left) = start
      BY <1>1, <1>4
    <2> QED
      BY <2>1, <2>2, <2>3
  <1>6. PICK prefix \in Seq(Tokens) :
            /\ SubSeq(whole, 1, end) = prefix /\ Len(prefix) = end
            /\ \A j \in 1 .. end : prefix[j] = whole[j]
    BY PrefixProperties
  <1>7. ASSUME NEW j \in 1 .. end
        PROVE  both[j] = prefix[j]
    <2>1. CASE j <= start
      <3>1. j \in 1 .. start
        BY <2>1
      <3> QED
        BY <1>3, <1>5, <1>6, <2>1, <3>1
    <2>2. CASE ~ (j <= start)
      <3>1. PICK i \in 1 .. k : j - start = i /\ start + i = j
        <4>1. j - start \in 1 .. k /\ start + (j - start) = j
          BY <2>2
        <4> QED
          BY <4>1
      <3>2. right[i] = q[i] /\ q[i] = whole[j]
        BY <1>4, <3>1 DEF Continues
      <3> QED
        BY <1>5, <1>6, <2>2, <3>1, <3>2
    <2> QED
      BY <2>1, <2>2
  <1>8. both = prefix
    BY <1>5, <1>6, <1>7, SameText
  <1> QED
    BY <1>1, <1>4, <1>5, <1>6, <1>8

\* A step of request s that brings its pages to the longer text `text`, computed up
\* to `end`, and publishes full ones, leaves everybody's pages sound.
LEMMA CommitStep ==
    ASSUME KVInv, Inv', NEW s \in Seqs, NEW text \in Seq(Tokens), NEW end \in Nat,
           end <= Len(text), token_ids'[s] = text, ValidEnd(s)' = end,
           block_table' = block_table, kv' = kv,
           \A r \in Seqs \ {s} : Idle(r),
           \A i \in DOMAIN block_table[s] : PageHolds(block_table[s][i], text, i, end)',
           Len(text) <= Len(block_table[s]) * BlockSize,
           \A p \in Pages : p \notin Range(block_table[s]) \/ computed_tokens[p] = BlockSize
                                => Untouched(p),
           \A h \in DOMAIN hash_to_block_id' :
                \/ h \in DOMAIN hash_to_block_id /\ hash_to_block_id'[h] = hash_to_block_id[h]
                \/ \E i \in DOMAIN block_table[s] :
                        /\ hash_to_block_id'[h] = block_table[s][i]
                        /\ Filled(end, i) = BlockSize
                        /\ PrefixHash(text, i) = h,
           InFlight(s)'
    PROVE  KVInv'
  <1>1. /\ IndexSound /\ SharedFull /\ ValidBehindTokens /\ TypeOK /\ BlockManagerTypeOK
    BY DEF KVInv, Inv, TypeOK
  <1>2. \A r \in Seqs \ {s} : \A p \in Range(block_table[r]) : Untouched(p)
    <2>1. ASSUME NEW r \in Seqs \ {s}, NEW p \in Range(block_table[r])
          PROVE  p \in Pages /\ (p \notin Range(block_table[s]) \/ computed_tokens[p] = BlockSize)
      BY <1>1, Tables DEF SharedFull
    <2> QED
      BY <2>1
  <1>3. IndexSound'
    <2>1. ASSUME NEW h \in DOMAIN hash_to_block_id',
                 h \in DOMAIN hash_to_block_id, hash_to_block_id'[h] = hash_to_block_id[h]
          PROVE  /\ block_hash'[hash_to_block_id'[h]] = h
                 /\ computed_tokens'[hash_to_block_id'[h]] = BlockSize
                 /\ \A o \in 0 .. BlockSize - 1 :
                        kv'[hash_to_block_id'[h]][o] = SubSeq(h, 1, Len(h) - BlockSize + o + 1)
      <3>1. PICK p \in Pages : hash_to_block_id[h] = p /\ hash_to_block_id'[h] = p
        BY <1>1, <2>1 DEF BlockManagerTypeOK
      <3>2. IndexEntry(h, p)
        BY <1>1, <2>1, <3>1, IndexEntries
      <3>3. Untouched(p)
        BY <3>2 DEF IndexEntry
      <3> QED
        BY <3>1, <3>2, <3>3 DEF IndexEntry, Untouched
    <2>2. ASSUME NEW h \in DOMAIN hash_to_block_id', NEW i \in DOMAIN block_table[s],
                 hash_to_block_id'[h] = block_table[s][i],
                 Filled(end, i) = BlockSize, PrefixHash(text, i) = h
          PROVE  /\ block_hash'[hash_to_block_id'[h]] = h
                 /\ computed_tokens'[hash_to_block_id'[h]] = BlockSize
                 /\ \A o \in 0 .. BlockSize - 1 :
                        kv'[hash_to_block_id'[h]][o] = SubSeq(h, 1, Len(h) - BlockSize + o + 1)
      <3>1. PICK p \in Pages : block_table[s][i] = p /\ hash_to_block_id'[h] = p
        BY <1>1, <2>2, Tables
      <3>2. i \in Nat \ {0}
        BY <1>1, Tables
      <3>3. /\ i * BlockSize <= Len(text) /\ Filled(Len(text), i) = BlockSize
        <4>1. i * BlockSize <= end /\ i * BlockSize \in Nat
          BY <2>2, <3>2, FilledProperties, Blocks
        <4>2. i * BlockSize <= Len(text) /\ Len(text) \in Nat
          BY <4>1
        <4> QED
          BY <3>2, <4>2, FilledProperties
      <3>4. /\ block_hash'[p] = h /\ computed_tokens'[p] = BlockSize
            /\ \A o \in 0 .. BlockSize - 1 : kv'[p][o] = KVAt(text, i, o)
        <4>1. PageHolds(p, text, i, end)'
          BY <3>1
        <4> QED
          BY <2>2, <3>3, <4>1 DEF PageHolds
      <3>5. \A o \in 0 .. BlockSize - 1 : SubSeq(h, 1, Len(h) - BlockSize + o + 1) = KVAt(text, i, o)
        BY <2>2, <3>2, <3>3, HashPrefix
      <3> QED
        BY <3>1, <3>4, <3>5
    <2> QED
      BY <2>1, <2>2 DEF IndexSound
  <1>4. ValidBehindTokens'
    <2>1. ASSUME NEW p \in Pages
          PROVE  Bounded(p)'
      <3>1. CASE p \in Range(block_table[s])
        <4>1. PICK i \in DOMAIN block_table[s] : block_table[s][i] = p
          BY <3>1 DEF Range
        <4>2. i \in Nat \ {0} /\ Len(text) \in Nat
          BY <1>1, Tables
        <4>3. PageHolds(p, text, i, end)'
          BY <4>1
        <4>4. block_tokens'[p] = BlockSlice(text, i) /\ computed_tokens'[p] = Filled(end, i)
          BY <4>3 DEF PageHolds
        <4>5. Len(BlockSlice(text, i)) = Filled(Len(text), i)
          BY <4>2, SliceProperties
        <4>6. /\ Filled(Len(text), i) \in 0 .. BlockSize
              /\ Filled(end, i) <= Filled(Len(text), i)
          BY <4>2, FilledProperties
        <4> QED
          BY <4>4, <4>5, <4>6, BlockSizeAssumption DEF Bounded
      <3>2. CASE p \notin Range(block_table[s])
        BY <1>1, <3>2, BoundedKept, BoundedPages
      <3> QED
        BY <3>1, <3>2
    <2> QED
      BY <2>1 DEF ValidBehindTokens, Bounded
  <1>5. SharedFull'
    <2>1. \A p \in Pages : computed_tokens[p] = BlockSize => computed_tokens'[p] = BlockSize
      BY DEF Untouched
    <2> QED
      BY <1>1, <2>1, SharedFrame
  <1>6. Contents(s)'
    BY DEF Contents
  <1> QED
    BY <1>2, <1>3, <1>4, <1>5, <1>6, StepOf

\* A text starts with the first n tokens of another.
Shares(whole, text, n) == \A m \in 0 .. n : SubSeq(whole, 1, m) = SubSeq(text, 1, m)

\* The pages of request s carry the tokens and the hashes of text `whole`; no full page
\* and no other page has changed them.
Recorded(s, whole) ==
    /\ \A i \in DOMAIN block_table[s] :
            /\ block_tokens'[block_table[s][i]] = BlockSlice(whole, i)
            /\ Filled(Len(whole), i) = BlockSize
                    => block_hash'[block_table[s][i]] = PrefixHash(whole, i)
            /\ Filled(Len(token_ids[s]), i) = BlockSize =>
                    /\ block_tokens'[block_table[s][i]] = block_tokens[block_table[s][i]]
                    /\ block_hash'[block_table[s][i]] = block_hash[block_table[s][i]]
    /\ \A p \in Pages \ Range(block_table[s]) :
            block_tokens'[p] = block_tokens[p] /\ block_hash'[p] = block_hash[p]

\* A commit that brings the text of s to `whole`, of which n positions from `start` on,
\* all those of a forward or the first of them, are computed.
Commits(s, whole, start, n, end) ==
    /\ token_ids'[s] = whole
    /\ \A r \in Seqs \ {s} : token_ids'[r] = token_ids[r]
    /\ prompt_len' = prompt_len
    /\ Len(whole) <= Len(block_table[s]) * BlockSize
    /\ Start(s) = start /\ start <= Len(token_ids[s])
    /\ n <= Len(query[s])
    /\ start + n = end /\ end <= Len(whole)
    /\ Recorded(s, whole)
    /\ Shares(whole, token_ids[s], start)
    /\ Continues(query[s], whole, start, n)

\* The slots of the positions before `end` have the K/V of a text.
Computed(s, whole, end) ==
    \A pos \in Nat : pos < end =>
        kv[physical_block_id(s, pos)][Offset(pos)] = SubSeq(whole, 1, pos + 1)

\* A position that a forward has written, or that was valid before, has the K/V of the
\* text that the forward is committed to.
LEMMA ValueCommitted ==
    ASSUME KVInv, NEW s \in Seqs, work[s] = "forwarded",
           NEW whole \in Seq(Tokens), NEW start \in Nat, NEW n \in Nat \ {0}, NEW end \in Nat,
           Commits(s, whole, start, n, end)
    PROVE  Computed(s, whole, end)
  <1> SUFFICES
        ASSUME NEW pos \in Nat, pos < end, Start(s) = start, start <= Len(token_ids[s]), n <= Len(query[s]),
               start + n = end, end <= Len(whole),
               Shares(whole, token_ids[s], start), Continues(query[s], whole, start, n)
        PROVE  kv[physical_block_id(s, pos)][Offset(pos)] = SubSeq(whole, 1, pos + 1)
    BY DEF Commits, Computed
  <1>1. TypeOK /\ Inv /\ Contents(s) /\ InFlight(s) /\ ValidEnd(s) = start
    BY DEF KVInv, Inv, ValidEnd
  <1>2. PICK text \in Seq(Tokens), q \in Seq(Tokens) :
            /\ token_ids[s] = text /\ query[s] = q /\ start \in 0 .. Len(text) /\ n \in 0 .. Len(q)
    BY <1>1, Tables
  <1>3. PICK room \in Nat : Len(block_table[s]) * BlockSize = room /\ start + Len(q) <= room
    BY <1>1, <1>2, ForwardedReserved, Counts
  <1>4. CASE pos < start
    <2>1. pos < room
      BY <1>2, <1>3, <1>4
    <2>2. kv[physical_block_id(s, pos)][Offset(pos)] = SubSeq(text, 1, pos + 1)
      BY <1>1, <1>2, <1>3, <1>4, <2>1, ReadsBack
    <2>3. pos + 1 \in 0 .. start
      BY <1>4
    <2> QED
      BY <1>2, <2>2, <2>3 DEF Shares
  <1>5. CASE ~ (pos < start)
    <2>1. PICK k \in 0 .. Len(q), m \in 0 .. Len(whole) :
            /\ pos - start + 1 = k /\ pos + 1 = m /\ start + k = m /\ k \in 0 .. n
      <3>1. /\ pos - start + 1 \in 0 .. n /\ pos + 1 \in 0 .. Len(whole)
            /\ start + (pos - start + 1) = pos + 1
        BY <1>2, <1>5
      <3>2. pos - start + 1 \in 0 .. Len(q)
        BY <1>2, <3>1
      <3> QED
        BY <3>1, <3>2
    <2>2. kv[physical_block_id(s, pos)][Offset(pos)] = Fed(s, pos)
      <3>1. pos \in start .. start + Len(q) - 1
        BY <1>2, <1>5
      <3> QED
        BY <1>1, <1>2, <3>1 DEF InFlight
    <2>3. Fed(s, pos) = SubSeq(text, 1, start) \o SubSeq(q, 1, k)
      BY <1>2, <2>1 DEF Fed
    <2>4. SubSeq(whole, 1, start) = SubSeq(text, 1, start)
      <3>1. \A x \in 0 .. start : SubSeq(whole, 1, x) = SubSeq(token_ids[s], 1, x)
        BY DEF Shares
      <3>2. start \in 0 .. start
        OBVIOUS
      <3>3. SubSeq(whole, 1, start) = SubSeq(token_ids[s], 1, start)
        BY <3>1, <3>2, Zenon
      <3> QED
        BY <1>2, <3>3
    <2>5. Continues(q, whole, start, k)
      BY <1>2, <2>1 DEF Continues
    <2>6. SubSeq(text, 1, start) \o SubSeq(q, 1, k) = SubSeq(whole, 1, m)
      <3>1. Feeds(text, whole, q, start, k, m) /\ k \in Nat /\ m \in Nat
        BY <1>2, <2>1, <2>4, <2>5 DEF Feeds
      <3>2. FedText(text, whole, q, start, k, m)
        BY <3>1, FedIsText
      <3> QED
        BY <3>2 DEF FedText
    <2> QED
      BY <2>1, <2>2, <2>3, <2>6
  <1> QED
    BY <1>4, <1>5

\* The hashes that mark_computed publishes are those of the text.
HashesOf(s, whole, end, hashes) ==
    \A i \in DOMAIN block_table[s] :
        Filled(end, i) = BlockSize => hashes[block_table[s][i]] = PrefixHash(whole, i)

\* Recording text `whole` and marking n positions of it.
LEMMA CommitHolds ==
    ASSUME KVInv, Inv', NEW s \in Seqs, work[s] = "forwarded", Committed(s),
           NEW whole \in Seq(Tokens), NEW start \in Nat, NEW n \in Nat \ {0}, NEW end \in Nat,
           Commits(s, whole, start, n, end),
           NEW hashes \in [Pages -> Seq(Tokens)], mark_computed(s, start, n, hashes),
           HashesOf(s, whole, end, hashes),
           ValidEnd(s)' = end, num_generated(s)' <= 1 \/ ~ IsPrefilling(s)'
    PROVE  KVInv'
  <1> SUFFICES
        ASSUME token_ids'[s] = whole,
               \A r \in Seqs \ {s} : token_ids'[r] = token_ids[r], prompt_len' = prompt_len,
               Len(whole) <= Len(block_table[s]) * BlockSize,
               Start(s) = start, start <= Len(token_ids[s]), n <= Len(query[s]),
               start + n = end, end <= Len(whole),
               Recorded(s, whole), Shares(whole, token_ids[s], start),
               Continues(query[s], whole, start, n)
        PROVE  KVInv'
    BY DEF Commits
  <1> DEFINE table == block_table[s]
  <1>1. TypeOK /\ Inv /\ IsInjective(table) /\ Contents(s) /\ ValidEnd(s) = start
    BY DEF KVInv, Inv, PoolConsistent, ValidEnd
  <1>2. /\ work' = [work EXCEPT ![s] = "done"] /\ query' = [query EXCEPT ![s] = <<>>]
        /\ UNCHANGED <<poolVars, block_table, reqVars, num_tokens, kv>>
    BY DEF Committed
  <1>3. PICK room \in Nat : Len(table) * BlockSize = room /\ start + Len(query[s]) <= room
    BY <1>1, ForwardedReserved, Counts
  <1>4. end <= room /\ Len(query[s]) \in Nat /\ Len(token_ids[s]) \in Nat /\ start <= end
        /\ table # <<>>
    <2>1. Len(query[s]) \in Nat /\ Len(token_ids[s]) \in Nat
      BY <1>1, Counts
    <2>2. table # <<>>
      BY <1>1 DEF Inv, Accounting
    <2> HIDE DEF table
    <2>3. end <= room /\ start <= end
      BY <1>3, <2>1
    <2> QED
      BY <2>1, <2>2, <2>3
  <1>5. \A i \in DOMAIN table : computed_tokens[table[i]] = Filled(start, i)
    BY <1>1, <1>4 DEF Contents, PageHolds
  <1>6. /\ \A i \in DOMAIN table : computed_tokens'[table[i]] = Filled(end, i)
        /\ \A p \in Pages \ Range(table) : computed_tokens'[p] = computed_tokens[p]
        /\ \A h \in DOMAIN hash_to_block_id' :
                \/ h \in DOMAIN hash_to_block_id /\ hash_to_block_id'[h] = hash_to_block_id[h]
                \/ \E i \in DOMAIN table :
                        /\ hash_to_block_id'[h] = table[i]
                        /\ Filled(end, i) = BlockSize
                        /\ hashes[table[i]] = h
    <2>1. Marks(s, start, n, end, hashes)
      BY <1>3, <1>4, <1>5 DEF Marks
    <2>2. Marked(s, end, hashes)
      BY <1>1, <2>1, MarkHolds
    <2> QED
      BY <2>2 DEF Marked
  <1>7. \A i \in DOMAIN table : PageHolds(table[i], whole, i, end)'
    <2> SUFFICES ASSUME NEW i \in DOMAIN table
                 PROVE  PageHolds(table[i], whole, i, end)'
      OBVIOUS
    <2>1. i \in Nat \ {0} /\ table[i] \in Pages
      BY <1>1, Tables
    <2>2. ASSUME NEW o \in 0 .. Filled(end, i) - 1
          PROVE  kv[table[i]][o] = KVAt(whole, i, o)
      <3>1. o \in 0 .. BlockSize - 1 /\ o < Filled(end, i)
        <4>1. Filled(end, i) \in 0 .. BlockSize /\ BlockSize \in Nat
          BY <2>1, FilledProperties, Blocks
        <4> QED
          BY <4>1
      <3>2. PICK pos \in Nat : Base(i) + o = pos
        BY <2>1, <3>1, PositionOf
      <3>3. pos < end
        BY <2>1, <3>1, <3>2, FilledProperties
      <3>4. pos \div BlockSize + 1 = i /\ Offset(pos) = o
        BY <2>1, <3>1, <3>2, PositionOf
      <3>5. physical_block_id(s, pos) = table[i]
        BY <3>4 DEF physical_block_id
      <3>6. kv[physical_block_id(s, pos)][Offset(pos)] = SubSeq(whole, 1, pos + 1)
        <4>1. Computed(s, whole, end)
          BY ValueCommitted
        <4> QED
          BY <3>3, <4>1 DEF Computed
      <3> QED
        BY <3>2, <3>4, <3>5, <3>6 DEF KVAt
    <2> DEFINE p == table[i]
    <2>3. p' = p
      BY <1>2
    <2>4. /\ block_tokens'[p] = BlockSlice(whole, i)
          /\ Filled(Len(whole), i) = BlockSize => block_hash'[p] = PrefixHash(whole, i)
          /\ computed_tokens'[p] = Filled(end, i)
          /\ \A o \in 0 .. Filled(end, i) - 1 : kv'[p][o] = KVAt(whole, i, o)
      BY <1>2, <1>6, <2>2 DEF Recorded
    <2> HIDE DEF p
    <2>5. PageHolds(p, whole, i, end)'
      BY <2>3, <2>4 DEF PageHolds
    <2> QED
      BY <2>5 DEF p
  <1>8. ASSUME NEW p \in Pages, p \notin Range(table) \/ computed_tokens[p] = BlockSize
        PROVE  Untouched(p)
    <2>1. CASE p \notin Range(table)
      BY <1>2, <1>6, <2>1 DEF Recorded, Untouched
    <2>2. CASE p \in Range(table) /\ computed_tokens[p] = BlockSize
      <3>1. PICK i \in DOMAIN table : table[i] = p
        BY <2>2 DEF Range
      <3>2. i \in Nat \ {0} /\ Filled(start, i) = BlockSize
        BY <1>1, <1>5, <2>2, <3>1, Tables
      <3>3. i * BlockSize <= start /\ i * BlockSize \in Nat
        BY <3>2, FilledProperties, Blocks
      <3>4. i * BlockSize <= end /\ i * BlockSize <= Len(token_ids[s])
        BY <1>4, <3>3
      <3>5. Filled(end, i) = BlockSize /\ Filled(Len(token_ids[s]), i) = BlockSize
        BY <1>4, <3>2, <3>4, FilledProperties
      <3> QED
        BY <1>2, <1>6, <2>2, <3>1, <3>5 DEF Recorded, Untouched
    <2> QED
      BY <1>8, <2>1, <2>2
  <1>9. \A r \in Seqs \ {s} : Idle(r)
    BY <1>1, <1>2 DEF Idle, TypeOK, reqVars
  <1>10. InFlight(s)'
    <2>1. work'[s] = "done"
      BY <1>1, <1>2 DEF TypeOK
    <2> QED
      BY <2>1 DEF InFlight
  <1>11. \A h \in DOMAIN hash_to_block_id' :
                \/ h \in DOMAIN hash_to_block_id /\ hash_to_block_id'[h] = hash_to_block_id[h]
                \/ \E i \in DOMAIN table :
                        /\ hash_to_block_id'[h] = table[i]
                        /\ Filled(end, i) = BlockSize
                        /\ PrefixHash(whole, i) = h
    BY <1>6 DEF HashesOf
  <1>12. block_table' = block_table /\ kv' = kv
    BY <1>2
  <1> QED
    BY <1>7, <1>8, <1>9, <1>10, <1>11, <1>12, CommitStep

\* There are reserved slots for k more tokens of the request.
HasRoom(s, k) == Len(token_ids[s]) + k <= Len(block_table[s]) * BlockSize

\* The request has the tokens behind its text, and its pages carry the longer text.
GrownBy(s, text, tokens) ==
    /\ Recorded(s, text \o tokens)
    /\ token_ids'[s] = text \o tokens
    /\ text \o tokens \in Seq(Tokens)
    /\ Len(text \o tokens) = Len(text) + Len(tokens)
    /\ \A r \in Seqs \ {s} : token_ids'[r] = token_ids[r]
    /\ prompt_len' = prompt_len
    /\ \A n \in 0 .. Len(text) : Shares(text \o tokens, text, n)
    /\ \A j \in 1 .. Len(text) : (text \o tokens)[j] = text[j]
    /\ \A j \in 1 .. Len(tokens) : (text \o tokens)[Len(text) + j] = tokens[j]

\* append_and_record makes the pages carry the longer text.
LEMMA BurstRecorded ==
    ASSUME KVInv, NEW s \in Seqs, work[s] = "forwarded",
           NEW tokens \in Seq(Tokens), Len(tokens) > 0, HasRoom(s, Len(tokens)),
           append_and_record(s, tokens)
    PROVE  GrownBy(s, token_ids[s], tokens)
  <1>1. TypeOK /\ Inv /\ IsInjective(block_table[s]) /\ Contents(s)
    BY DEF KVInv, Inv, PoolConsistent
  <1>2. PICK text \in Seq(Tokens) : token_ids[s] = text
    BY <1>1, Tables
  <1>3. block_table[s] # <<>>
    BY <1>1 DEF Inv, Accounting
  <1>4. /\ token_ids' = [token_ids EXCEPT ![s] = @ \o tokens] /\ prompt_len' = prompt_len
    BY DEF append_and_record
  <1>5. /\ token_ids'[s] = text \o tokens
        /\ \A r \in Seqs \ {s} : token_ids'[r] = token_ids[r]
    BY <1>1, <1>2, <1>4 DEF TypeOK, BlockManagerTypeOK
  <1>6. PICK whole \in Seq(Tokens) :
            /\ text \o tokens = whole /\ Len(whole) = Len(text) + Len(tokens)
            /\ \A j \in 1 .. Len(text) : whole[j] = text[j]
            /\ \A j \in 1 .. Len(tokens) : whole[Len(text) + j] = tokens[j]
    <2>1. text \o tokens \in Seq(Tokens)
      BY ConcatProperties
    <2>2. PICK whole \in Seq(Tokens) : text \o tokens = whole
      BY <2>1
    <2>3. /\ Len(whole) = Len(text) + Len(tokens)
          /\ \A j \in 1 .. Len(text) + Len(tokens) :
                whole[j] = IF j <= Len(text) THEN text[j] ELSE tokens[j - Len(text)]
      BY <2>2, ConcatProperties
    <2>4. \A j \in 1 .. Len(text) : whole[j] = text[j]
      BY <2>3
    <2>5. ASSUME NEW j \in 1 .. Len(tokens)
          PROVE  whole[Len(text) + j] = tokens[j]
      <3>1. PICK k \in 1 .. Len(text) + Len(tokens) :
                Len(text) + j = k /\ ~ (k <= Len(text)) /\ k - Len(text) = j
        <4>1. /\ Len(text) + j \in 1 .. Len(text) + Len(tokens)
              /\ ~ (Len(text) + j <= Len(text)) /\ (Len(text) + j) - Len(text) = j
          OBVIOUS
        <4> QED
          BY <4>1
      <3> QED
        BY <2>3, <3>1
    <2> QED
      BY <2>2, <2>3, <2>4, <2>5
  <1>7. \A n \in 0 .. Len(text) : Shares(whole, text, n)
    <2>1. ASSUME NEW n \in 0 .. Len(text), NEW m \in 0 .. n
          PROVE  SubSeq(whole, 1, m) = SubSeq(text, 1, m)
      <3>1. m \in 0 .. Len(text)
        OBVIOUS
      <3> QED
        BY <1>6, <3>1, GrowPrefix
    <2> QED
      BY <2>1 DEF Shares
  <1>8. Recorded(s, whole)
    <2>1. \A i \in DOMAIN block_table[s] :
            /\ block_tokens[block_table[s][i]] = BlockSlice(text, i)
            /\ Filled(Len(text), i) = BlockSize
                    => block_hash[block_table[s][i]] = PrefixHash(text, i)
      BY <1>1, <1>2, <1>3 DEF Contents, PageHolds
    <2>2. /\ \A i \in DOMAIN block_table[s] :
                /\ block_tokens'[block_table[s][i]] = BlockSlice(text \o tokens, i)
                /\ Filled(Len(text) + Len(tokens), i) = BlockSize
                        => block_hash'[block_table[s][i]] = PrefixHash(text \o tokens, i)
                /\ Filled(Len(text), i) = BlockSize =>
                        /\ block_tokens'[block_table[s][i]] = block_tokens[block_table[s][i]]
                        /\ block_hash'[block_table[s][i]] = block_hash[block_table[s][i]]
          /\ \A p \in Pages \ Range(block_table[s]) :
                block_tokens'[p] = block_tokens[p] /\ block_hash'[p] = block_hash[p]
      <3>1. Len(text) + Len(tokens) <= Len(block_table[s]) * BlockSize
        BY <1>2 DEF HasRoom
      <3> QED
        BY <1>1, <1>2, <2>1, <3>1, RecordHolds
    <2> QED
      BY <1>2, <1>6, <2>2 DEF Recorded
  <1> QED
    BY <1>2, <1>4, <1>5, <1>6, <1>7, <1>8 DEF GrownBy

\* Ordinary execution makes the query's positions valid and may add one token.
LEMMA CommitKV ==
    ASSUME KVInv, NEW s \in Seqs, Commit(s)
    PROVE  KVInv'
  <1> DEFINE ends == Start(s) + Len(query[s]) >= prompt_len[s]
  <1>1. TypeOK /\ Inv /\ Inv' /\ Contents(s) /\ InFlight(s) /\ block_table[s] # <<>>
    BY CommitInv DEF KVInv, Inv, Accounting, Commit
  <1>2. /\ work[s] = "forwarded" /\ Committed(s)
        /\ IsPrefilling(s) \/ Len(query[s]) = 1
        /\ mark_computed(s, Start(s), Len(query[s]), block_hash)
        /\ IF ends THEN \E token \in Tokens : append_and_record(s, <<token>>)
                   ELSE UNCHANGED <<token_ids, prompt_len, block_tokens, block_hash>>
    BY DEF Commit
  <1>3. PICK start \in Nat, n \in Nat \ {0}, end \in Nat, len \in Nat, room \in Nat, prompt \in Nat :
            /\ Start(s) = start /\ Len(query[s]) = n /\ start + n = end
            /\ Len(token_ids[s]) = len /\ Len(block_table[s]) * BlockSize = room
            /\ prompt_len[s] = prompt
    <2>1. /\ Start(s) \in Nat /\ Len(query[s]) \in Nat \ {0}
          /\ Len(token_ids[s]) \in Nat /\ Len(block_table[s]) * BlockSize \in Nat
          /\ prompt_len[s] \in Nat
      <3>1. Start(s) \in Nat /\ Len(query[s]) \in Nat /\ Len(query[s]) > 0
        BY <1>1, <1>2, ForwardedReserved
      <3>2. /\ Len(token_ids[s]) \in Nat /\ Len(block_table[s]) * BlockSize \in Nat
            /\ prompt_len[s] \in Nat
        BY <1>1, Counts
      <3> QED
        BY <3>1, <3>2
    <2>2. Start(s) + Len(query[s]) \in Nat
      BY <2>1
    <2> QED
      BY <2>1, <2>2
  <1>4. /\ start <= len /\ end <= len /\ len + 1 <= room /\ prompt <= len
        /\ ends <=> end >= prompt
        /\ IsPrefilling(s) =>
                start = num_computed[s] /\ n = num_tokens[s] /\ len = prompt
        /\ ~ IsPrefilling(s) => end = len
    <2>1. /\ IsPrefilling(s) =>
                /\ start = num_computed[s] /\ n = num_tokens[s]
                /\ len = prompt /\ start + n <= prompt /\ len + 1 <= room
          /\ ~ IsPrefilling(s) => start = len - 1 /\ len + n <= room /\ n = 1
          /\ prompt <= len
      BY <1>1, <1>2, <1>3, ForwardedReserved, Counts
    <2>2. ends <=> end >= prompt
      BY <1>3
    <2> HIDE DEF ends
    <2> QED
      BY <1>3, <2>1, <2>2
  <1> HIDE DEF ends
  <1>5. PICK text \in Seq(Tokens) : token_ids[s] = text /\ Len(text) = len
    BY <1>1, <1>3, Tables
  <1>6. \E whole \in Seq(Tokens) :
            /\ token_ids'[s] = whole
            /\ ends => Len(whole) = len + 1
            /\ ~ ends => Len(whole) = len
            /\ \A r \in Seqs \ {s} : token_ids'[r] = token_ids[r]
            /\ prompt_len' = prompt_len
            /\ Recorded(s, whole) /\ Shares(whole, text, len) /\ Shares(whole, text, start)
            /\ \A j \in 1 .. len : whole[j] = text[j]
    <2>1. CASE ends
      <3>1. PICK token \in Tokens : append_and_record(s, <<token>>)
        BY <1>2, <2>1
      <3> DEFINE tokens == <<token>>
      <3>2. tokens \in Seq(Tokens) /\ Len(tokens) = 1 /\ Len(tokens) > 0
        OBVIOUS
      <3>3. HasRoom(s, Len(tokens))
        BY <1>3, <1>4, <3>2 DEF HasRoom
      <3>4. append_and_record(s, tokens)
        BY <3>1
      <3> HIDE DEF tokens
      <3>5. /\ Recorded(s, text \o tokens)
            /\ token_ids'[s] = text \o tokens
            /\ text \o tokens \in Seq(Tokens)
            /\ Len(text \o tokens) = len + 1
            /\ \A r \in Seqs \ {s} : token_ids'[r] = token_ids[r]
            /\ prompt_len' = prompt_len
            /\ \A m \in 0 .. len : Shares(text \o tokens, text, m)
            /\ \A j \in 1 .. len : (text \o tokens)[j] = text[j]
        <4>1. GrownBy(s, token_ids[s], tokens)
          BY <1>2, <3>2, <3>3, <3>4, BurstRecorded
        <4> QED
          BY <1>5, <3>2, <4>1 DEF GrownBy
      <3>6. start \in 0 .. len /\ len \in 0 .. len
        BY <1>4
      <3> QED
        BY <2>1, <3>5, <3>6
    <2>2. CASE ~ ends
      <3>1. /\ token_ids'[s] = text /\ UNCHANGED <<token_ids, prompt_len, block_tokens, block_hash>>
        BY <1>2, <1>5, <2>2
      <3>2. Shares(text, text, len) /\ Shares(text, text, start)
        BY DEF Shares
      <3>3. Recorded(s, text)
        BY <1>1, <1>5, <3>1 DEF Recorded, Contents, PageHolds
      <3> QED
        BY <1>5, <2>2, <3>1, <3>2, <3>3
    <2> QED
      BY <2>1, <2>2
  <1>7. PICK whole \in Seq(Tokens) :
            /\ token_ids'[s] = whole
            /\ ends => Len(whole) = len + 1
            /\ ~ ends => Len(whole) = len
            /\ \A r \in Seqs \ {s} : token_ids'[r] = token_ids[r]
            /\ prompt_len' = prompt_len
            /\ Recorded(s, whole) /\ Shares(whole, text, len) /\ Shares(whole, text, start)
            /\ \A j \in 1 .. len : whole[j] = text[j]
    BY <1>6
  <1>8. Len(whole) <= room /\ end <= Len(whole) /\ Len(whole) \in Nat /\ Len(whole) <= len + 1
    BY <1>4, <1>7
  <1>9. block_hash \in [Pages -> Seq(Tokens)] /\ mark_computed(s, start, n, block_hash)
    BY <1>1, <1>2, <1>3 DEF TypeOK, BlockManagerTypeOK
  <1>10. HashesOf(s, whole, end, block_hash)
    <2> SUFFICES ASSUME NEW i \in DOMAIN block_table[s], Filled(end, i) = BlockSize
                 PROVE  block_hash[block_table[s][i]] = PrefixHash(whole, i)
      BY DEF HashesOf
    <2>1. i \in Nat \ {0}
      BY <1>1, Tables
    <2>2. PICK e \in Nat : i * BlockSize = e /\ e <= end
      BY <2>1, FilledProperties, Blocks
    <2>3. e \in 0 .. len /\ Filled(len, i) = BlockSize
      <3>1. e <= len
        BY <1>4, <2>2
      <3> QED
        BY <2>1, <2>2, <3>1, FilledProperties
    <2>4. block_hash[block_table[s][i]] = PrefixHash(text, i)
      BY <1>1, <1>5, <2>3 DEF Contents, PageHolds
    <2>5. SubSeq(whole, 1, e) = SubSeq(text, 1, e)
      BY <1>7, <2>3 DEF Shares
    <2> QED
      BY <2>2, <2>4, <2>5 DEF PrefixHash
  <1>11. Continues(query[s], whole, start, n)
    <2>1. ASSUME NEW j \in 1 .. n
          PROVE  query[s][j] = whole[start + j]
      <3>1. start + j \in 1 .. len /\ j \in DOMAIN query[s]
        <4>1. start + j \in 1 .. len
          BY <1>3, <1>4
        <4>2. query[s] \in Seq(Tokens)
          BY <1>1, Tables
        <4> QED
          BY <1>3, <4>1, <4>2
      <3>2. start + j <= len
        BY <3>1
      <3>3. query[s][j] = text[start + j]
        BY <1>1, <1>2, <1>3, <1>5, <3>1, <3>2 DEF InFlight
      <3> QED
        BY <1>7, <3>1, <3>3
    <2> QED
      BY <2>1 DEF Continues
  <1>12. /\ work'[s] = "done" /\ num_computed'[s] = num_computed[s] /\ num_tokens'[s] = num_tokens[s]
         /\ IsPrefilling(s)' <=> IsPrefilling(s)
    BY <1>1, <1>2, <1>7 DEF Committed, TypeOK, reqVars, IsPrefilling, uncomputed_tokens
  <1>13. ValidEnd(s)' = end
    <2>1. CASE IsPrefilling(s)
      <3>1. (num_computed[s] + num_tokens[s])' = end
        BY <1>3, <1>4, <1>12, <2>1
      <3> QED
        BY <1>12, <2>1, <3>1 DEF ValidEnd
    <2>2. CASE ~ IsPrefilling(s)
      <3>1. ends /\ end = len
        BY <1>4, <2>2
      <3>2. Len(token_ids'[s]) - 1 = end
        BY <1>7, <3>1
      <3> QED
        BY <1>12, <2>2, <3>2 DEF ValidEnd, Start
    <2> QED
      BY <2>1, <2>2
  <1>14. num_generated(s)' <= 1 \/ ~ IsPrefilling(s)'
    <2>1. CASE IsPrefilling(s)
      <3>1. prompt_len'[s] = prompt /\ len = prompt
        BY <1>3, <1>4, <1>7, <2>1
      <3>2. Len(token_ids'[s]) - prompt_len'[s] <= 1
        BY <1>7, <1>8, <3>1
      <3> QED
        BY <3>2 DEF num_generated
    <2>2. CASE ~ IsPrefilling(s)
      BY <1>12, <2>2
    <2> QED
      BY <2>1, <2>2
  <1> QED
    <2>1. Commits(s, whole, start, n, end)
      BY <1>3, <1>4, <1>5, <1>7, <1>8, <1>11 DEF Commits
    <2> QED
      BY <1>1, <1>2, <1>9, <1>10, <1>13, <1>14, <2>1, CommitHolds

\* A speculative burst makes the last token and the accepted drafts valid; the K/V of the
\* rejected ones stays behind the end.
LEMMA CommitSpeculativeKV ==
    ASSUME KVInv, NEW s \in Seqs, CommitSpeculative(s)
    PROVE  KVInv'
  <1> DEFINE drafts == Tail(query[s])
  <1>1. TypeOK /\ Inv /\ Inv' /\ Contents(s) /\ InFlight(s)
    BY CommitSpeculativeInv DEF KVInv, Inv
  <1>2. /\ work[s] = "forwarded" /\ Committed(s) /\ ~ IsPrefilling(s) /\ Len(query[s]) > 1
    BY DEF CommitSpeculative
  <1>3. PICK accepted \in 0 .. Len(drafts), token \in Tokens :
            /\ append_and_record(s, SubSeq(drafts, 1, accepted) \o <<token>>)
            /\ mark_computed(s, Start(s), accepted + 1, block_hash')
    BY DEF CommitSpeculative
  <1>4. /\ drafts \in Seq(Tokens) /\ Len(drafts) = Len(query[s]) - 1
        /\ \A k \in 1 .. Len(drafts) : drafts[k] = query[s][k + 1]
    <2>1. query[s] \in Seq(Tokens)
      BY <1>1, Tables
    <2>2. query[s] # <<>>
      BY <1>2, <2>1
    <2> QED
      BY <2>1, <2>2, HeadTailProperties
  <1> HIDE DEF drafts
  <1>5. PICK start \in Nat, n \in Nat \ {0}, end \in Nat, len \in Nat, room \in Nat :
            /\ Start(s) = start /\ accepted + 1 = n /\ start + n = end
            /\ Len(token_ids[s]) = len /\ Len(block_table[s]) * BlockSize = room
            /\ start = len - 1 /\ n <= Len(query[s]) /\ len + n <= room /\ start < len
            /\ n - 1 = accepted /\ end = len + accepted /\ accepted \in Nat
    <2>1. PICK start \in Nat, len \in Nat, room \in Nat, m \in Nat :
            /\ Start(s) = start /\ Len(token_ids[s]) = len
            /\ Len(block_table[s]) * BlockSize = room /\ Len(query[s]) = m
            /\ start = len - 1 /\ len + m <= room
      <3>1. /\ Start(s) \in Nat /\ Start(s) = Len(token_ids[s]) - 1
            /\ Len(token_ids[s]) + Len(query[s]) <= Len(block_table[s]) * BlockSize
        BY <1>1, <1>2, ForwardedReserved
      <3>2. /\ Len(token_ids[s]) \in Nat /\ Len(block_table[s]) * BlockSize \in Nat
            /\ Len(query[s]) \in Nat
        BY <1>1, Counts
      <3> QED
        BY <3>1, <3>2
    <2>2. accepted \in Nat /\ accepted + 1 <= m
      BY <1>4, <2>1
    <2>3. PICK n \in Nat \ {0} : accepted + 1 = n /\ n <= m /\ n - 1 = accepted
      BY <2>2
    <2>4. PICK end \in Nat : start + n = end
      OBVIOUS
    <2>5. len + n <= room /\ end = len + accepted /\ start < len
      BY <2>1, <2>2, <2>3, <2>4
    <2> QED
      BY <2>1, <2>2, <2>3, <2>4, <2>5
  <1>6. PICK text \in Seq(Tokens) : token_ids[s] = text /\ Len(text) = len
    BY <1>1, <1>5, Tables
  <1>7. PICK some \in Seq(Tokens) :
            /\ SubSeq(drafts, 1, accepted) = some /\ Len(some) = accepted
            /\ \A k \in 1 .. accepted : some[k] = drafts[k]
    BY <1>3, <1>4, PrefixProperties
  <1>8. PICK tokens \in Seq(Tokens) :
            /\ SubSeq(drafts, 1, accepted) \o <<token>> = tokens
            /\ Len(tokens) = n /\ Len(tokens) > 0
            /\ \A k \in 1 .. accepted : tokens[k] = drafts[k]
    <2> DEFINE last == <<token>>
    <2>1. last \in Seq(Tokens) /\ Len(last) = 1
      OBVIOUS
    <2> HIDE DEF last
    <2>2. some \o last \in Seq(Tokens)
      BY <2>1, ConcatProperties
    <2>3. PICK tokens \in Seq(Tokens) : some \o last = tokens
      BY <2>2
    <2>4. /\ Len(tokens) = Len(some) + Len(last)
          /\ \A k \in 1 .. Len(some) + Len(last) :
                tokens[k] = IF k <= Len(some) THEN some[k] ELSE last[k - Len(some)]
      BY <2>1, <2>3, ConcatProperties
    <2>5. Len(tokens) = n /\ Len(tokens) > 0
      BY <1>5, <1>7, <2>1, <2>4
    <2>6. \A k \in 1 .. accepted : tokens[k] = drafts[k]
      BY <1>5, <1>7, <2>1, <2>4
    <2> QED
      BY <1>7, <2>3, <2>5, <2>6 DEF last
  <1>9. GrownBy(s, text, tokens)
    <2>1. HasRoom(s, Len(tokens)) /\ append_and_record(s, tokens)
      BY <1>3, <1>5, <1>8 DEF HasRoom
    <2> QED
      BY <1>2, <1>6, <1>8, <2>1, BurstRecorded
  <1>10. PICK whole \in Seq(Tokens) :
            /\ text \o tokens = whole /\ Len(whole) = len + n
            /\ token_ids'[s] = whole
            /\ \A r \in Seqs \ {s} : token_ids'[r] = token_ids[r]
            /\ prompt_len' = prompt_len
            /\ Recorded(s, whole) /\ Shares(whole, text, start)
            /\ \A j \in 1 .. len : whole[j] = text[j]
            /\ \A j \in 1 .. n : whole[len + j] = tokens[j]
    <2>1. start \in 0 .. Len(text)
      BY <1>5, <1>6
    <2>2. PICK whole \in Seq(Tokens) : text \o tokens = whole
      BY <1>9 DEF GrownBy
    <2>3. GrownBy(s, text, tokens) /\ Len(text) = len /\ Len(tokens) = n
      BY <1>6, <1>8, <1>9
    <2>4. /\ Len(whole) = len + n /\ token_ids'[s] = whole /\ prompt_len' = prompt_len
          /\ \A r \in Seqs \ {s} : token_ids'[r] = token_ids[r]
          /\ Recorded(s, whole)
      BY <2>2, <2>3 DEF GrownBy
    <2>5. Shares(whole, text, start)
      <3>1. \A x \in 0 .. Len(text) : Shares(whole, text, x)
        BY <2>2, <2>3 DEF GrownBy
      <3> QED
        BY <2>1, <3>1, Zenon
    <2>6. \A j \in 1 .. len : whole[j] = text[j]
      BY <2>2, <2>3 DEF GrownBy
    <2>7. \A j \in 1 .. n : whole[len + j] = tokens[j]
      BY <2>2, <2>3 DEF GrownBy
    <2> QED
      BY <2>2, <2>4, <2>5, <2>6, <2>7, Zenon
  <1>11. Len(whole) <= room /\ end <= Len(whole) /\ Len(whole) \in Nat /\ Len(whole) - 1 = end
    BY <1>5, <1>10
  <1>12. /\ block_hash' \in [Pages -> Seq(Tokens)]
         /\ mark_computed(s, start, n, block_hash')
    BY <1>1, <1>3, <1>5 DEF Inv, TypeOK, BlockManagerTypeOK
  <1>13. HashesOf(s, whole, end, block_hash')
    <2> SUFFICES ASSUME NEW i \in DOMAIN block_table[s], Filled(end, i) = BlockSize
                 PROVE  block_hash'[block_table[s][i]] = PrefixHash(whole, i)
      BY DEF HashesOf
    <2>1. i \in Nat \ {0}
      BY <1>1, Tables
    <2>2. PICK e \in Nat : i * BlockSize = e /\ e <= end
      BY <2>1, FilledProperties, Blocks
    <2>3. e <= Len(whole)
      BY <1>11, <2>2
    <2>4. Filled(Len(whole), i) = BlockSize
      BY <1>11, <2>1, <2>2, <2>3, FilledProperties
    <2> QED
      BY <1>10, <2>4 DEF Recorded
  <1>14. Continues(query[s], whole, start, n)
    <2>1. query[s] \in Seq(Tokens) /\ Len(query[s]) \in Nat
      BY <1>1, Tables
    <2>2. query[s][1] = whole[start + 1]
      <3>1. start + 1 = len /\ len \in 1 .. len /\ 1 \in DOMAIN query[s]
        BY <1>2, <1>5, <2>1
      <3>2. start + 1 <= len
        BY <3>1
      <3>3. query[s][1] = text[start + 1]
        BY <1>1, <1>2, <1>5, <1>6, <3>1, <3>2 DEF InFlight
      <3> QED
        BY <1>10, <3>1, <3>3
    <2>3. ASSUME NEW j \in 1 .. n, j # 1
          PROVE  query[s][j] = whole[start + j]
      <3>1. PICK k \in 1 .. accepted : /\ j - 1 = k /\ k + 1 = j /\ start + j = len + k
                                       /\ k \in 1 .. n /\ k \in 1 .. Len(drafts)
        <4>1. /\ j - 1 \in 1 .. accepted /\ (j - 1) + 1 = j
              /\ start + j = len + (j - 1) /\ j - 1 \in 1 .. n
          BY <1>5, <2>3
        <4>2. j - 1 \in 1 .. Len(drafts)
          BY <1>3, <1>4, <4>1
        <4> QED
          BY <4>1, <4>2
      <3>2. drafts[k] = query[s][j]
        BY <1>4, <3>1
      <3>3. whole[len + k] = tokens[k] /\ tokens[k] = drafts[k]
        BY <1>8, <1>10, <3>1
      <3> QED
        BY <3>1, <3>2, <3>3
    <2> QED
      BY <2>2, <2>3 DEF Continues
  <1>15. /\ work'[s] = "done" /\ ~ IsPrefilling(s)'
    BY <1>1, <1>2, <1>10 DEF Committed, TypeOK, reqVars, IsPrefilling, uncomputed_tokens
  <1>16. ValidEnd(s)' = end
    <2>1. Len(token_ids'[s]) - 1 = end
      BY <1>10, <1>11
    <2> QED
      BY <1>15, <2>1 DEF ValidEnd, Start
  <1>17. Commits(s, whole, start, n, end)
    <2>1. Len(whole) <= Len(block_table[s]) * BlockSize
      BY <1>5, <1>11
    <2>2. start <= Len(token_ids[s])
      BY <1>5
    <2>3. Start(s) = start /\ n <= Len(query[s]) /\ start + n = end /\ end <= Len(whole)
      BY <1>5, <1>11
    <2>4. /\ token_ids'[s] = whole /\ prompt_len' = prompt_len
          /\ \A r \in Seqs \ {s} : token_ids'[r] = token_ids[r]
          /\ Recorded(s, whole) /\ Shares(whole, token_ids[s], start)
      BY <1>6, <1>10
    <2> QED
      BY <1>14, <2>1, <2>2, <2>3, <2>4 DEF Commits
  <1> DEFINE hashes == block_hash'
  <1>18. /\ hashes \in [Pages -> Seq(Tokens)]
         /\ mark_computed(s, start, n, hashes) /\ HashesOf(s, whole, end, hashes)
    BY <1>12, <1>13
  <1> HIDE DEF hashes
  <1> QED
    BY <1>1, <1>2, <1>15, <1>16, <1>17, <1>18, CommitHolds

-----------------------------------------------------------------------------
(* The invariant.                                                          *)

\* A step that changes nothing.
LEMMA StutterKV ==
    ASSUME KVInv, UNCHANGED vars
    PROVE  KVInv'
  <1>1. /\ Inv' /\ \A p : Untouched(p)
        /\ \A r \in Seqs : Idle(r)
    <2>1. Inv'
      BY StepInv DEF KVInv
    <2> QED
      BY <2>1 DEF Untouched, Idle, vars, bmVars, metaVars, reqVars, runVars
  <1>2. IndexSound' /\ SharedFull' /\ ValidBehindTokens'
    BY DEF KVInv, IndexSound, SharedFull, ValidBehindTokens, vars, bmVars, metaVars, runVars
  <1>3. ASSUME NEW r \in Seqs
        PROVE  (Contents(r) /\ InFlight(r))'
    <2>1. Contents(r) /\ InFlight(r) /\ Inv
      BY DEF KVInv
    <2>2. Idle(r) /\ \A p \in Range(block_table[r]) : Untouched(p)
      BY <1>1
    <2>3. \A p \in Range(block_table[r]) : kv'[p] = kv[p]
      BY <2>2 DEF Untouched
    <2> QED
      BY <2>1, <2>2, <2>3, ContentsElsewhere, InFlightElsewhere
  <1> QED
    BY <1>1, <1>2, <1>3 DEF KVInv

\* Every step keeps the contents of the pages.
LEMMA StepKV ==
    ASSUME KVInv, [Next]_vars
    PROVE  KVInv'
  <1>1. CASE Next
    <2>1. PICK s \in Seqs :
              \/ AddRequest(s)
              \/ \E chunk \in 0 .. prompt_len[s] : Admit(s, chunk)
              \/ \E chunk \in 1 .. prompt_len[s] : SchedulePrefill(s, chunk)
              \/ \E lookahead \in 1 .. 1 + MaxDraft : ScheduleDecode(s, lookahead)
              \/ \E drafts \in Drafts : Forward(s, drafts)
              \/ Commit(s)
              \/ CommitSpeculative(s)
              \/ \E finish \in BOOLEAN : Postprocess(s, finish)
              \/ Abort(s)
              \/ \E torn \in BOOLEAN : Fail(s, torn)
              \/ Forget(s)
      BY <1>1 DEF Next
    <2>2. CASE AddRequest(s)
      BY <2>2, AddRequestKV
    <2>3. CASE \E chunk \in 0 .. prompt_len[s] : Admit(s, chunk)
      BY <2>3, AdmitKV
    <2>4. CASE \E chunk \in 1 .. prompt_len[s] : SchedulePrefill(s, chunk)
      BY <2>4, SchedulePrefillKV
    <2>5. CASE \E lookahead \in 1 .. 1 + MaxDraft : ScheduleDecode(s, lookahead)
      BY <2>5, ScheduleDecodeKV
    <2>6. CASE \E drafts \in Drafts : Forward(s, drafts)
      BY <2>6, ForwardKV
    <2>7. CASE Commit(s)
      BY <2>7, CommitKV
    <2>8. CASE CommitSpeculative(s)
      BY <2>8, CommitSpeculativeKV
    <2>9. CASE \E finish \in BOOLEAN : Postprocess(s, finish)
      BY <2>9, PostprocessKV
    <2>10. CASE Abort(s)
      BY <2>10, AbortKV
    <2>11. CASE \E torn \in BOOLEAN : Fail(s, torn)
      BY <2>11, FailKV
    <2>12. CASE Forget(s)
      BY <2>12, ForgetKV
    <2> QED
      BY <2>1, <2>2, <2>3, <2>4, <2>5, <2>6, <2>7, <2>8, <2>9, <2>10, <2>11, <2>12
  <1>2. CASE UNCHANGED vars
    BY <1>2, StutterKV
  <1> QED
    BY <1>1, <1>2

\* In every reachable state the pages hold what their requests and the index say.
THEOREM ContentsInvariance == Spec => []KVInv
  <1>1. Init => KVInv
    BY InitKV
  <1>2. KVInv /\ [Next]_vars => KVInv'
    BY StepKV
  <1> QED
    BY <1>1, <1>2, PTL DEF Spec

\* A hash in the prefix index always names a page that carries it, is computed
\* throughout and holds the K/V of the hashed prefix.
THEOREM IndexAlwaysSound == Spec => []IndexSound
  <1>1. KVInv => IndexSound
    BY DEF KVInv
  <1> QED
    BY <1>1, ContentsInvariance, PTL

\* A page's K/V never counts as valid beyond its tokens.
THEOREM ValidNeverAhead == Spec => []ValidBehindTokens
  <1>1. KVInv => ValidBehindTokens
    BY DEF KVInv
  <1> QED
    BY <1>1, ContentsInvariance, PTL

-----------------------------------------------------------------------------
(* The valid positions of a request.                                       *)

\* The slot of a mapped position, and what its page holds.
LEMMA ValidPosition ==
    ASSUME KVInv, NEW s \in Seqs, NEW pos \in Nat, IsMapped(s, pos)
    PROVE  \E i \in DOMAIN block_table[s] :
            /\ i \in Nat \ {0} /\ i = pos \div BlockSize + 1
            /\ physical_block_id(s, pos) = block_table[s][i]
            /\ Offset(pos) \in 0 .. BlockSize - 1
            /\ pos = Base(i) + Offset(pos)
            /\ PageHolds(block_table[s][i], token_ids[s], i, ValidEnd(s))
  <1>1. TypeOK /\ Contents(s)
    BY DEF KVInv, Inv
  <1> DEFINE i == pos \div BlockSize + 1
  <1>2. /\ i \in Nat \ {0} /\ Offset(pos) \in 0 .. BlockSize - 1
        /\ pos = Base(i) + Offset(pos)
    BY PositionBounds
  <1>3. physical_block_id(s, pos) = block_table[s][i]
    BY DEF physical_block_id
  <1>4. i <= Len(block_table[s])
    <2>1. PICK q \in Int : pos \div BlockSize = q /\ i = q + 1
      <3>1. i = pos \div BlockSize + 1
        OBVIOUS
      <3>2. pos \div BlockSize \in Int
        BY BlockSizeAssumption
      <3> QED
        BY <3>1, <3>2
    <2>2. q < Len(block_table[s])
      BY <2>1 DEF IsMapped
    <2>3. Len(block_table[s]) \in Nat
      BY <1>1, Counts
    <2> QED
      BY <2>1, <2>2, <2>3
  <1>5. i \in DOMAIN block_table[s]
    <2>1. DOMAIN block_table[s] = 1 .. Len(block_table[s]) /\ Len(block_table[s]) \in Nat
      BY <1>1, Tables, Counts
    <2> HIDE DEF i
    <2> QED
      BY <1>2, <1>4, <2>1
  <1>6. i = pos \div BlockSize + 1
    OBVIOUS
  <1> HIDE DEF i
  <1>7. block_table[s] # <<>>
    BY <1>5
  <1>8. PageHolds(block_table[s][i], token_ids[s], i, ValidEnd(s))
    BY <1>1, <1>5, <1>7 DEF Contents
  <1> QED
    BY <1>2, <1>3, <1>5, <1>6, <1>8

\* A valid position has the K/V of the request's own text.
LEMMA OwnKV ==
    ASSUME KVInv, NEW s \in Seqs, NEW pos \in ValidPositions(s)
    PROVE  kv[physical_block_id(s, pos)][Offset(pos)] = SubSeq(token_ids[s], 1, pos + 1)
  <1>1. TypeOK
    BY DEF KVInv, Inv
  <1>2. /\ pos \in Nat /\ IsMapped(s, pos)
        /\ Offset(pos) < computed_tokens[physical_block_id(s, pos)]
    BY DEF ValidPositions
  <1>3. PICK i \in DOMAIN block_table[s] :
            /\ i \in Nat \ {0} /\ physical_block_id(s, pos) = block_table[s][i]
            /\ Offset(pos) \in 0 .. BlockSize - 1
            /\ pos = Base(i) + Offset(pos)
            /\ PageHolds(block_table[s][i], token_ids[s], i, ValidEnd(s))
    BY <1>2, ValidPosition
  <1>4. Filled(ValidEnd(s), i) = computed_tokens[block_table[s][i]]
    BY <1>3 DEF PageHolds
  <1>5. computed_tokens[block_table[s][i]] \in 0 .. BlockSize
    BY <1>1, Tables DEF TypeOK, BlockManagerTypeOK
  <1>6. Offset(pos) \in 0 .. Filled(ValidEnd(s), i) - 1
    BY <1>2, <1>3, <1>4, <1>5, BlockSizeAssumption
  <1>7. kv[block_table[s][i]][Offset(pos)] = KVAt(token_ids[s], i, Offset(pos))
    BY <1>3, <1>6 DEF PageHolds
  <1>8. KVAt(token_ids[s], i, Offset(pos)) = SubSeq(token_ids[s], 1, pos + 1)
    BY <1>3 DEF KVAt
  <1> QED
    BY <1>3, <1>7, <1>8

\* Through sharing, eviction, reuse and failed forwards, no request ever sees another
\* text's K/V.
THEOREM NoRequestReadsForeignKV == Spec => []NoForeignKV
  <1>1. KVInv => NoForeignKV
    BY OwnKV DEF NoForeignKV
  <1> QED
    BY <1>1, ContentsInvariance, PTL

\* What is computed of a request lies before its last token.
LEMMA EndWithinText ==
    ASSUME KVInv, NEW s \in Seqs, block_table[s] # <<>>
    PROVE  /\ status[s] = "ACTIVE"
           /\ ValidEnd(s) \in Nat /\ ValidEnd(s) < Len(token_ids[s])
           /\ Len(token_ids[s]) \in Nat
           /\ Len(token_ids[s]) <= Len(block_table[s]) * BlockSize
  <1>1. TypeOK /\ Contents(s) /\ Accounting(s)
    BY DEF KVInv, Inv
  <1>2. status[s] = "ACTIVE" /\ Len(token_ids[s]) <= Len(block_table[s]) * BlockSize
    BY <1>1 DEF Contents, Accounting
  <1>3. PICK len \in Nat, prompt \in Nat, computed \in Nat, n \in Nat, rest \in Int, made \in Int :
            /\ Len(token_ids[s]) = len /\ prompt_len[s] = prompt
            /\ num_computed[s] = computed /\ num_tokens[s] = n /\ prompt <= len
            /\ uncomputed_tokens(s) = rest /\ rest = prompt - computed
            /\ num_generated(s) = made /\ made = len - prompt
            /\ prompt > 0 /\ computed <= prompt
    <2>1. /\ Len(token_ids[s]) \in Nat /\ prompt_len[s] \in Nat /\ num_computed[s] \in Nat
          /\ num_tokens[s] \in Nat /\ prompt_len[s] <= Len(token_ids[s])
          /\ uncomputed_tokens(s) \in Int /\ num_generated(s) \in Int
      BY <1>1, Counts
    <2>2. /\ uncomputed_tokens(s) = prompt_len[s] - num_computed[s]
          /\ num_generated(s) = Len(token_ids[s]) - prompt_len[s]
      BY DEF uncomputed_tokens, num_generated
    <2>3. prompt_len[s] > 0 /\ num_computed[s] <= prompt_len[s]
      BY <1>1, <1>2 DEF Accounting
    <2> QED
      BY <2>1, <2>2, <2>3
  <1>4. ValidEnd(s) \in Nat /\ ValidEnd(s) < len
    <2>1. CASE IsPrefilling(s) /\ work[s] # "done"
      <3>1. ValidEnd(s) = computed
        BY <1>3, <2>1 DEF ValidEnd, Start
      <3>2. rest > 0
        BY <1>3, <2>1 DEF IsPrefilling
      <3> QED
        BY <1>3, <3>1, <3>2
    <2>2. CASE IsPrefilling(s) /\ work[s] = "done"
      <3>1. ValidEnd(s) = computed + n
        BY <1>3, <2>2 DEF ValidEnd
      <3>2. n \in 1 .. rest
        BY <1>1, <1>2, <1>3, <2>2 DEF Accounting
      <3>3. made = 0 <=> n < rest
        BY <1>1, <1>2, <1>3, <2>2 DEF Accounting
      <3> QED
        BY <1>3, <3>1, <3>2, <3>3
    <2>3. CASE ~ IsPrefilling(s)
      <3>1. ValidEnd(s) = len - 1
        BY <1>3, <2>3 DEF ValidEnd, Start
      <3> QED
        BY <1>3, <3>1
    <2> QED
      BY <2>1, <2>2, <2>3
  <1> QED
    BY <1>2, <1>3, <1>4

\* The valid positions are those before the end of what is computed, without a gap.
LEMMA ValidAre ==
    ASSUME KVInv, NEW s \in Seqs
    PROVE  /\ block_table[s] # <<>> => ValidPositions(s) = 0 .. ValidEnd(s) - 1
           /\ block_table[s] = <<>> => ValidPositions(s) = {}
  <1>1. TypeOK
    BY DEF KVInv, Inv
  <1>2. ASSUME block_table[s] # <<>>
        PROVE  ValidPositions(s) = 0 .. ValidEnd(s) - 1
    <2>1. PICK end \in Nat, len \in Nat, room \in Nat :
            /\ ValidEnd(s) = end /\ Len(token_ids[s]) = len
            /\ Len(block_table[s]) * BlockSize = room /\ end < len /\ len <= room
      BY <1>1, <1>2, EndWithinText, Counts
    <2>2. ASSUME NEW pos \in 0 .. len - 1
          PROVE  /\ IsMapped(s, pos)
                 /\ Offset(pos) < computed_tokens[physical_block_id(s, pos)] <=> pos < end
      <3>1. pos \in Nat /\ pos < Len(block_table[s]) * BlockSize
        BY <2>1
      <3>2. IsMapped(s, pos)
        BY <1>1, <3>1, PositionMapped DEF TypeOK
      <3>3. PICK i \in DOMAIN block_table[s] :
              /\ i \in Nat \ {0} /\ physical_block_id(s, pos) = block_table[s][i]
              /\ Offset(pos) \in 0 .. BlockSize - 1
              /\ pos = Base(i) + Offset(pos)
              /\ PageHolds(block_table[s][i], token_ids[s], i, ValidEnd(s))
        BY <3>1, <3>2, ValidPosition
      <3>4. computed_tokens[block_table[s][i]] = Filled(end, i)
        BY <2>1, <3>3 DEF PageHolds
      <3>5. Offset(pos) < Filled(end, i) <=> Base(i) + Offset(pos) < end
        BY <3>3, FilledProperties
      <3> QED
        BY <3>2, <3>3, <3>4, <3>5
    <2>3. ValidPositions(s) = {pos \in 0 .. len - 1 : pos < end}
      BY <2>1, <2>2 DEF ValidPositions
    <2> QED
      BY <2>1, <2>3
  <1>3. ASSUME block_table[s] = <<>>
        PROVE  ValidPositions(s) = {}
    <2>1. ASSUME NEW pos \in ValidPositions(s)
          PROVE  FALSE
      <3>1. pos \in Nat /\ IsMapped(s, pos)
        BY DEF ValidPositions
      <3>2. pos \div BlockSize < 0
        BY <1>3, <3>1 DEF IsMapped
      <3>3. pos \div BlockSize + 1 \in Nat \ {0}
        BY <3>1, PositionBounds
      <3>4. pos \div BlockSize \in Int
        BY <3>1, BlockSizeAssumption
      <3> QED
        BY <3>2, <3>3, <3>4
    <2> QED
      BY <2>1
  <1> QED
    BY <1>2, <1>3

\* A forward runs on what comes right behind the computed positions.
LEMMA ContextValid == KVInv => ForwardReadsValid
  <1> SUFFICES ASSUME KVInv, NEW s \in Seqs, work[s] \in {"scheduled", "forwarded"}
               PROVE  ValidPositions(s) = 0 .. Start(s) - 1
    BY DEF ForwardReadsValid
  <1>1. block_table[s] # <<>>
    BY DEF KVInv, Inv, TypeOK, Accounting
  <1>2. ValidEnd(s) = Start(s)
    BY DEF ValidEnd
  <1> QED
    BY <1>1, <1>2, ValidAre

\* A forward finds all the text before its query valid, and nothing behind it.
THEOREM ForwardFindsItsContext == Spec => []ForwardReadsValid
  <1>1. KVInv => ForwardReadsValid
    BY ContextValid
  <1> QED
    BY <1>1, ContentsInvariance, PTL

-----------------------------------------------------------------------------
(* The internal errors.                                                    *)

\* A write that starts at `from` begins in the block of a later position where the
\* block's share of the first `from` positions ends, and that position is behind it.
LEMMA EntryIsFilled ==
    ASSUME NEW from \in Nat, NEW pos \in Nat, from <= pos,
           NEW i \in Nat \ {0}, NEW o \in 0 .. BlockSize - 1, pos = Base(i) + o, Offset(pos) = o
    PROVE  /\ EntryOffset(from, pos) = Filled(from, i)
           /\ Filled(from, i) <= o
           /\ Filled(from, i) # BlockSize
  <1>1. PICK b \in Nat : Base(i) = b /\ pos = b + o /\ BlockSize \in Nat /\ BlockSize > 0
    BY Blocks
  <1>2. pos - Offset(pos) = b
    BY <1>1
  <1>3. Filled(from, i) = IF from <= b THEN 0 ELSE from - b
    BY <1>1 DEF Filled
  <1>4. Max({from, b}) = IF from <= b THEN b ELSE from
    BY MaxOfTwo
  <1>5. EntryOffset(from, pos) = Filled(from, i)
    BY <1>2, <1>3, <1>4 DEF EntryOffset
  <1>6. Filled(from, i) <= o /\ Filled(from, i) # BlockSize
    <2>1. from <= Base(i) + o
      OBVIOUS
    <2> QED
      BY <2>1, NotFull
  <1> QED
    BY <1>5, <1>6

\* A position at or behind `from` that the block table of s reaches.
Reserved(s, from, pos) == from <= pos /\ pos < Len(block_table[s]) * BlockSize

\* It lies in block i, where a write from `from` on begins at the end of what is filled
\* by then, and which is filled up to the K/V and to the text of the request.
EntersAt(s, from, pos, i) ==
    /\ i \in Nat \ {0} /\ physical_block_id(s, pos) = block_table[s][i]
    /\ block_table[s][i] \in Pages
    /\ IsMapped(s, pos)
    /\ Offset(pos) \in 0 .. BlockSize - 1
    /\ pos = Base(i) + Offset(pos)
    /\ EntryOffset(from, pos) = Filled(from, i)
    /\ Filled(from, i) <= Offset(pos)
    /\ Filled(from, i) # BlockSize
    /\ computed_tokens[block_table[s][i]] = Filled(ValidEnd(s), i)
    /\ Len(block_tokens[block_table[s][i]]) = Filled(Len(token_ids[s]), i)
    /\ Filled(from, i) \in Nat /\ Filled(Len(token_ids[s]), i) \in Nat

LEMMA ReservedSlot ==
    ASSUME KVInv, NEW s \in Seqs, block_table[s] # <<>>,
           NEW from \in Nat, NEW pos \in Nat, Reserved(s, from, pos)
    PROVE  \E i \in DOMAIN block_table[s] : EntersAt(s, from, pos, i)
  <1> SUFFICES ASSUME from <= pos, pos < Len(block_table[s]) * BlockSize
               PROVE  \E i \in DOMAIN block_table[s] : EntersAt(s, from, pos, i)
    BY DEF Reserved
  <1>1. TypeOK
    BY DEF KVInv, Inv
  <1>2. IsMapped(s, pos)
    BY <1>1, PositionMapped DEF TypeOK
  <1>3. PICK i \in DOMAIN block_table[s] :
          /\ i \in Nat \ {0} /\ physical_block_id(s, pos) = block_table[s][i]
          /\ Offset(pos) \in 0 .. BlockSize - 1
          /\ pos = Base(i) + Offset(pos)
          /\ PageHolds(block_table[s][i], token_ids[s], i, ValidEnd(s))
    BY <1>2, ValidPosition
  <1>4. /\ EntryOffset(from, pos) = Filled(from, i)
        /\ Filled(from, i) <= Offset(pos) /\ Filled(from, i) # BlockSize
    BY <1>3, EntryIsFilled
  <1>5. /\ computed_tokens[block_table[s][i]] = Filled(ValidEnd(s), i)
        /\ Len(block_tokens[block_table[s][i]]) = Filled(Len(token_ids[s]), i)
    <2>1. token_ids[s] \in Seq(Tokens)
      BY <1>1, Tables
    <2> QED
      BY <1>3, <2>1, SliceProperties DEF PageHolds
  <1>6. block_table[s][i] \in Pages
    BY <1>1, Tables
  <1>7. Filled(from, i) \in Nat /\ Filled(Len(token_ids[s]), i) \in Nat
    <2>1. Len(token_ids[s]) \in Nat
      BY <1>1, Counts
    <2>2. \A n \in Nat : Filled(n, i) \in 0 .. BlockSize
      BY <1>3, FilledProperties
    <2>3. 0 .. BlockSize \subseteq Nat
      BY BlockSizeAssumption
    <2>4. Filled(from, i) \in 0 .. BlockSize /\ Filled(Len(token_ids[s]), i) \in 0 .. BlockSize
      BY <2>1, <2>2
    <2> QED
      BY <2>3, <2>4
  <1> QED
    BY <1>2, <1>3, <1>4, <1>5, <1>6, <1>7 DEF EntersAt

\* A page that is not computed throughout has one holder.
LEMMA SingleHolder ==
    ASSUME KVInv, NEW s \in Seqs, NEW p \in Range(block_table[s]), computed_tokens[p] # BlockSize
    PROVE  ref_count[p] = 1
  <1>1. TypeOK /\ PoolConsistent /\ SharedFull
    BY DEF KVInv, Inv
  <1>2. p \in Pages
    BY <1>1, Tables
  <1>3. Holders(p) = {s}
    BY <1>1, OwnPage DEF Holders
  <1> QED
    BY <1>1, <1>2, <1>3, FS_Singleton DEF PoolConsistent

\* The pages of a request can be released.
LEMMA CanRelease ==
    ASSUME Inv, NEW s \in Seqs
    PROVE  ~ DeallocateRaises(s)
  <1>1. TypeOK /\ PoolConsistent
    BY DEF Inv
  <1>2. ASSUME NEW p \in Range(block_table[s])
        PROVE  ref_count[p] > 0
    <2>1. p \in Pages
      BY <1>1, Tables
    <2>2. IsFiniteSet(Holders(p)) /\ s \in Holders(p)
      <3>1. Holders(p) \subseteq Seqs
        BY DEF Holders
      <3> QED
        BY <3>1, SeqsAssumption, FS_Subset DEF Holders
    <2>3. Cardinality(Holders(p)) \in Nat /\ Cardinality(Holders(p)) # 0
      BY <2>2, FS_CardinalityType, FS_EmptySet
    <2>4. ref_count[p] = Cardinality(Holders(p))
      BY <1>1, <2>1 DEF PoolConsistent
    <2> QED
      BY <2>3, <2>4
  <1>3. \A p \in Range(block_table[s]) : ref_count[p] \in Nat
    BY <1>1, Tables DEF TypeOK, BlockManagerTypeOK
  <1> QED
    BY <1>1, <1>2, <1>3 DEF DeallocateRaises, PoolConsistent

\* The slots of a scheduled forward are reserved.
LEMMA ScheduledMapped ==
    ASSUME KVInv, NEW s \in Seqs, work[s] = "scheduled",
           NEW last \in Int,
           last = IF IsPrefilling(s) THEN Start(s) + num_tokens[s] - 1
                                     ELSE Len(token_ids[s]) - 1 + num_tokens[s],
           NEW pos \in 0 .. last
    PROVE  IsMapped(s, pos)
  <1>1. TypeOK /\ Accounting(s)
    BY DEF KVInv, Inv
  <1>2. PICK start \in Nat, n \in Nat, len \in Nat, room \in Nat :
            /\ Start(s) = start /\ num_tokens[s] = n /\ Len(token_ids[s]) = len
            /\ Len(block_table[s]) * BlockSize = room
            /\ start + n <= room /\ status[s] = "ACTIVE"
    BY <1>1, ScheduledReserved, Counts
  <1>3. ~ IsPrefilling(s) => len + n <= room
    BY <1>1, <1>2 DEF Accounting
  <1>4. pos < room
    <2>1. CASE IsPrefilling(s)
      BY <1>2, <2>1
    <2>2. CASE ~ IsPrefilling(s)
      BY <1>2, <1>3, <2>2
    <2> QED
      BY <2>1, <2>2
  <1> QED
    BY <1>1, <1>2, <1>4, PositionMapped DEF TypeOK

\* mark_computed accepts the positions of a forward.
LEMMA CanMark ==
    ASSUME KVInv, NEW s \in Seqs, work[s] = "forwarded"
    PROVE  ~ MarkRaises(s, Start(s), Len(query[s]))
  <1>1. TypeOK /\ Inv /\ ValidEnd(s) = Start(s) /\ block_table[s] # <<>>
    BY DEF KVInv, Inv, ValidEnd, Accounting
  <1>2. PICK start \in Nat, n \in Nat, len \in Nat, room \in Nat :
            /\ Start(s) = start /\ Len(query[s]) = n /\ Len(token_ids[s]) = len
            /\ Len(block_table[s]) * BlockSize = room /\ start + n <= room
    <2>1. Start(s) \in Nat /\ Start(s) + Len(query[s]) <= Len(block_table[s]) * BlockSize
      BY <1>1, ForwardedReserved
    <2>2. /\ Len(query[s]) \in Nat /\ Len(token_ids[s]) \in Nat
          /\ Len(block_table[s]) * BlockSize \in Nat
      BY <1>1, Counts
    <2> QED
      BY <2>1, <2>2
  <1>3. ASSUME NEW pos \in start .. start + n - 1
        PROVE  /\ IsMapped(s, pos)
               /\ EntryOffset(start, pos) = computed_tokens[physical_block_id(s, pos)]
               /\ EntryOffset(start, pos) \in Nat
               /\ pos < len => Offset(pos) < Len(block_tokens[physical_block_id(s, pos)])
               /\ Offset(pos) \in Nat
               /\ Len(block_tokens[physical_block_id(s, pos)]) \in Nat
    <2>1. pos \in Nat /\ Reserved(s, start, pos)
      BY <1>2 DEF Reserved
    <2>2. PICK i \in DOMAIN block_table[s] : EntersAt(s, start, pos, i)
      BY <1>1, <2>1, ReservedSlot
    <2>3. /\ i \in Nat \ {0} /\ physical_block_id(s, pos) = block_table[s][i]
          /\ IsMapped(s, pos)
          /\ Offset(pos) \in 0 .. BlockSize - 1
          /\ pos = Base(i) + Offset(pos)
          /\ EntryOffset(start, pos) = Filled(start, i)
          /\ computed_tokens[block_table[s][i]] = Filled(start, i)
          /\ Len(block_tokens[block_table[s][i]]) = Filled(len, i)
          /\ Filled(start, i) \in Nat /\ Filled(len, i) \in Nat
      BY <1>1, <1>2, <2>2 DEF EntersAt
    <2>4. pos < len => Offset(pos) < Filled(len, i)
      <3>1. len \in Nat
        BY <1>1, Counts
      <3>2. PICK b \in Nat, o \in 0 .. BlockSize - 1 : Base(i) = b /\ Offset(pos) = o /\ pos = b + o
        BY <2>3, Blocks
      <3>3. o < Filled(len, i) <=> Base(i) + o < len
        BY <2>3, <3>1, <3>2, FilledProperties
      <3> QED
        BY <3>2, <3>3
    <2> QED
      BY <2>3, <2>4
  <1>4. \A pos \in start .. start + n - 1 :
            /\ IsMapped(s, pos)
            /\ ~ (EntryOffset(start, pos) > computed_tokens[physical_block_id(s, pos)])
            /\ ~ (pos < len /\ Offset(pos) >= Len(block_tokens[physical_block_id(s, pos)]))
    BY <1>3
  <1> QED
    BY <1>2, <1>4 DEF MarkRaises

\* record_tokens accepts the tokens of a commit: their slots are reserved, are the next
\* ones of their pages, and are in no other request's table.
LEMMA CanRecord ==
    ASSUME KVInv, NEW s \in Seqs, work[s] = "forwarded", NEW k \in Nat,
           k = IF IsPrefilling(s) THEN 1 ELSE Len(query[s])
    PROVE  ~ RecordRaises(s, k)
  <1>1. TypeOK /\ Inv /\ ValidEnd(s) = Start(s) /\ block_table[s] # <<>>
    BY DEF KVInv, Inv, ValidEnd, Accounting
  <1>2. PICK start \in Nat, old \in Nat, room \in Nat :
            /\ Start(s) = start /\ Len(token_ids[s]) = old
            /\ Len(block_table[s]) * BlockSize = room /\ old + k <= room /\ start <= old
    <2>1. /\ IsPrefilling(s) =>
                /\ Start(s) + Len(query[s]) <= prompt_len[s]
                /\ Len(token_ids[s]) + 1 <= Len(block_table[s]) * BlockSize
          /\ ~ IsPrefilling(s) =>
                /\ Start(s) = Len(token_ids[s]) - 1
                /\ Len(token_ids[s]) + Len(query[s]) <= Len(block_table[s]) * BlockSize
          /\ Start(s) \in Nat
      BY <1>1, ForwardedReserved
    <2>2. /\ Len(query[s]) \in Nat /\ Len(token_ids[s]) \in Nat /\ prompt_len[s] \in Nat
          /\ Len(block_table[s]) * BlockSize \in Nat /\ prompt_len[s] <= Len(token_ids[s])
      BY <1>1, Counts
    <2>3. Len(token_ids[s]) + k <= Len(block_table[s]) * BlockSize
      BY <2>1
    <2>4. Start(s) <= Len(token_ids[s])
      <3>1. PICK len \in Nat, start \in Nat, n \in Nat, prompt \in Nat :
                /\ Len(token_ids[s]) = len /\ Start(s) = start /\ Len(query[s]) = n
                /\ prompt_len[s] = prompt /\ prompt <= len
        BY <2>1, <2>2
      <3>2. CASE IsPrefilling(s)
        BY <2>1, <3>1, <3>2
      <3>3. CASE ~ IsPrefilling(s)
        BY <2>1, <3>1, <3>3
      <3> QED
        BY <3>2, <3>3
    <2> QED
      BY <2>1, <2>2, <2>3, <2>4
  <1>3. ASSUME NEW pos \in old .. old + k - 1
        PROVE  /\ IsMapped(s, pos)
               /\ EntryOffset(old, pos) = Len(block_tokens[physical_block_id(s, pos)])
               /\ ref_count[physical_block_id(s, pos)] = 1
    <2>1. pos \in Nat /\ Reserved(s, old, pos) /\ start <= pos
      BY <1>2 DEF Reserved
    <2>2. PICK i \in DOMAIN block_table[s] :
            /\ i \in Nat \ {0} /\ physical_block_id(s, pos) = block_table[s][i]
            /\ block_table[s][i] \in Pages
            /\ IsMapped(s, pos)
            /\ Offset(pos) \in 0 .. BlockSize - 1
            /\ pos = Base(i) + Offset(pos)
            /\ EntryOffset(old, pos) = Filled(old, i)
            /\ computed_tokens[block_table[s][i]] = Filled(start, i)
            /\ Len(block_tokens[block_table[s][i]]) = Filled(old, i)
      <3>1. PICK i \in DOMAIN block_table[s] : EntersAt(s, old, pos, i)
        BY <1>1, <2>1, ReservedSlot
      <3> QED
        BY <1>1, <1>2, <3>1 DEF EntersAt
    <2>3. Filled(start, i) # BlockSize
      <3>1. start <= Base(i) + Offset(pos)
        BY <2>1, <2>2
      <3> QED
        BY <2>2, <3>1, NotFull
    <2>4. block_table[s][i] \in Range(block_table[s])
      BY <1>1, Tables
    <2>5. ref_count[block_table[s][i]] = 1
      BY <2>2, <2>3, <2>4, SingleHolder
    <2> QED
      BY <2>2, <2>5
  <1> QED
    BY <1>2, <1>3 DEF RecordRaises

\* Every call of the allocator finds the pages as it needs them.
LEMMA AllocatorServes == KVInv => NeverRaises
  <1> SUFFICES ASSUME KVInv, NEW s \in Seqs
               PROVE  /\ ~ DeallocateRaises(s)
                      /\ work[s] = "scheduled" =>
                          LET last == IF IsPrefilling(s) THEN Start(s) + num_tokens[s] - 1
                                      ELSE Len(token_ids[s]) - 1 + num_tokens[s]
                          IN  /\ \A pos \in 0 .. last : IsMapped(s, pos)
                              /\ num_tokens[s] > 0
                      /\ work[s] = "forwarded" =>
                          LET n == Len(query[s])
                          IN  /\ ~ MarkRaises(s, Start(s), n)
                              /\ Start(s) + n >= prompt_len[s] =>
                                  ~ RecordRaises(s, IF IsPrefilling(s) THEN 1 ELSE n)
    BY DEF NeverRaises
  <1> DEFINE last == IF IsPrefilling(s) THEN Start(s) + num_tokens[s] - 1
                                        ELSE Len(token_ids[s]) - 1 + num_tokens[s]
             k == IF IsPrefilling(s) THEN 1 ELSE Len(query[s])
  <1>1. TypeOK
    BY DEF KVInv, Inv
  <1>2. ASSUME work[s] = "scheduled"
        PROVE  (\A pos \in 0 .. last : IsMapped(s, pos)) /\ num_tokens[s] > 0
    <2>1. num_tokens[s] > 0 /\ last \in Int
      BY <1>1, <1>2, ScheduledReserved, Counts
    <2>2. last = IF IsPrefilling(s) THEN Start(s) + num_tokens[s] - 1
                                    ELSE Len(token_ids[s]) - 1 + num_tokens[s]
      OBVIOUS
    <2> HIDE DEF last
    <2>3. \A pos \in 0 .. last : IsMapped(s, pos)
      BY <1>2, <2>1, <2>2, ScheduledMapped
    <2> QED
      BY <2>1, <2>3
  <1>3. ASSUME work[s] = "forwarded"
        PROVE  ~ MarkRaises(s, Start(s), Len(query[s])) /\ ~ RecordRaises(s, k)
    <2>1. k \in Nat /\ k = IF IsPrefilling(s) THEN 1 ELSE Len(query[s])
      BY <1>1, Counts
    <2> HIDE DEF k
    <2> QED
      BY <1>3, <2>1, CanMark, CanRecord
  <1> QED
    BY <1>2, <1>3, CanRelease DEF KVInv

\* None of the allocator's internal errors can be raised by the runtime.
THEOREM NoInternalError == Spec => []NeverRaises
  <1>1. KVInv => NeverRaises
    BY AllocatorServes
  <1> QED
    BY <1>1, ContentsInvariance, PTL

-----------------------------------------------------------------------------
(* Valid slots are not rewritten.                                          *)

\* A step leaves a valid slot of a page that is held throughout.
KeepsSlot(p, o) ==
    ref_count[p] > 0 /\ ref_count'[p] > 0 /\ o < computed_tokens[p]
        => kv'[p][o] = kv[p][o] /\ computed_tokens'[p] > o

\* A step that writes no K/V and takes no held page back to nothing.
LEMMA StillKeeps ==
    ASSUME KVInv, kv' = kv,
           \A p \in Pages : ref_count[p] > 0 =>
                /\ computed_tokens'[p] \in Int
                /\ computed_tokens'[p] >= computed_tokens[p]
    PROVE  \A p \in Pages : \A o \in 0 .. BlockSize - 1 : KeepsSlot(p, o)
  <1> SUFFICES ASSUME NEW p \in Pages, NEW o \in 0 .. BlockSize - 1, ref_count[p] > 0,
                      o < computed_tokens[p]
               PROVE  kv'[p][o] = kv[p][o] /\ computed_tokens'[p] > o
    BY DEF KeepsSlot
  <1>1. computed_tokens[p] \in Int
    BY DEF KVInv, Inv, TypeOK, BlockManagerTypeOK
  <1>2. computed_tokens'[p] \in Int /\ computed_tokens'[p] >= computed_tokens[p]
    OBVIOUS
  <1> QED
    BY <1>1, <1>2

\* A step that leaves what is computed of the pages.
LEMMA SameKeeps ==
    ASSUME KVInv, kv' = kv, computed_tokens' = computed_tokens
    PROVE  \A p \in Pages : \A o \in 0 .. BlockSize - 1 : KeepsSlot(p, o)
  <1>1. \A p \in Pages : computed_tokens[p] \in Int
    BY DEF KVInv, Inv, TypeOK, BlockManagerTypeOK
  <1>2. \A p \in Pages : computed_tokens'[p] \in Int /\ computed_tokens'[p] >= computed_tokens[p]
    BY <1>1
  <1> QED
    BY <1>2, StillKeeps

\* A forward, torn or not.
LEMMA WriteKeeps ==
    ASSUME KVInv, NEW s \in Seqs, block_table[s] # <<>>,
           NEW start, NEW n, WritesBehind(s, start, n),
           NEW values, DOMAIN values = 1 .. n,
           kv' = Written(s, start, values), computed_tokens' = computed_tokens
    PROVE  \A p \in Pages : \A o \in 0 .. BlockSize - 1 : KeepsSlot(p, o)
  <1> SUFFICES ASSUME NEW p \in Pages, NEW o \in 0 .. BlockSize - 1,
                      ref_count[p] > 0, o < computed_tokens[p]
               PROVE  kv'[p][o] = kv[p][o] /\ computed_tokens'[p] > o
    BY DEF KeepsSlot
  <1>1. TypeOK /\ PoolConsistent /\ Contents(s)
    BY DEF KVInv, Inv
  <1>2. PICK r \in Seqs : p \in Range(block_table[r])
    <2>1. Holders(p) # {}
      BY <1>1, HolderCounts
    <2> QED
      BY <2>1 DEF Holders
  <1>3. /\ \A q \in Seqs \ {s} : \A u \in Range(block_table[q]) : kv'[u] = kv[u]
        /\ \A i \in DOMAIN block_table[s] : \A a \in 0 .. Filled(ValidEnd(s), i) - 1 :
                kv'[block_table[s][i]][a] = kv[block_table[s][i]][a]
    BY WritesOnlyBehind
  <1>4. computed_tokens[p] \in 0 .. BlockSize
    BY <1>1 DEF TypeOK, BlockManagerTypeOK
  <1>5. computed_tokens'[p] > o
    BY <1>4
  <1>6. CASE r # s
    BY <1>2, <1>3, <1>5, <1>6
  <1>7. CASE r = s
    <2>1. PICK i \in DOMAIN block_table[s] : block_table[s][i] = p
      BY <1>2, <1>7 DEF Range
    <2>2. computed_tokens[p] = Filled(ValidEnd(s), i)
      BY <1>1, <2>1 DEF Contents, PageHolds
    <2>3. o \in 0 .. Filled(ValidEnd(s), i) - 1
      BY <1>4, <2>2
    <2> QED
      BY <1>3, <1>5, <2>1, <2>3
  <1> QED
    BY <1>6, <1>7

LEMMA ForwardKeeps ==
    ASSUME KVInv, NEW s \in Seqs, NEW drafts \in Drafts, Forward(s, drafts)
    PROVE  \A p \in Pages : \A o \in 0 .. BlockSize - 1 : KeepsSlot(p, o)
  <1> DEFINE tokens == Query(s, drafts)
             values == [i \in 1 .. Len(tokens) |->
                IF ReadsOwnText(s, Start(s))
                THEN SubSeq(token_ids[s], 1, Start(s)) \o SubSeq(tokens, 1, i)
                ELSE Garbage]
  <1>1. Inv /\ TypeOK
    BY DEF KVInv, Inv
  <1>2. /\ work[s] = "scheduled"
        /\ IF IsPrefilling(s) THEN drafts = <<>> ELSE Len(drafts) < num_tokens[s]
        /\ kv' = Written(s, Start(s), values)
        /\ computed_tokens' = computed_tokens
    BY DEF Forward, Query, bmVars, metaVars
  <1>3. drafts \in Seq(Tokens)
    BY MaxDraftAssumption DEF Drafts
  <1>4. Len(tokens) \in Nat /\ Len(tokens) <= num_tokens[s] /\ num_tokens[s] \in Nat
    <2>1. num_tokens[s] \in Nat
      BY <1>1, Counts
    <2> QED
      BY <1>1, <1>2, <1>3, <2>1, QueryType
  <1>5. DOMAIN values = 1 .. Len(tokens)
    OBVIOUS
  <1> HIDE DEF tokens, values
  <1>6. block_table[s] # <<>> /\ WritesBehind(s, Start(s), Len(tokens))
    <2>1. PICK start \in Nat, room \in Nat :
            /\ Start(s) = start /\ Len(block_table[s]) * BlockSize = room
            /\ start + num_tokens[s] <= room /\ start = ValidEnd(s) /\ block_table[s] # <<>>
      BY <1>1, <1>2, ScheduledReserved, Counts
    <2>2. start + Len(tokens) <= room
      BY <1>4, <2>1
    <2> QED
      BY <1>4, <2>1, <2>2 DEF WritesBehind
  <1> QED
    BY <1>2, <1>5, <1>6, WriteKeeps

LEMMA FailKeeps ==
    ASSUME KVInv, NEW s \in Seqs, NEW torn \in BOOLEAN, Fail(s, torn)
    PROVE  \A p \in Pages : \A o \in 0 .. BlockSize - 1 : KeepsSlot(p, o)
  <1> DEFINE values == [i \in 1 .. num_tokens[s] |-> Garbage]
  <1>1. /\ torn => work[s] = "scheduled"
        /\ kv' = IF torn THEN Written(s, Start(s), values) ELSE kv
        /\ computed_tokens' = computed_tokens
    BY DEF Fail
  <1>2. DOMAIN values = 1 .. num_tokens[s]
    OBVIOUS
  <1> HIDE DEF values
  <1>3. CASE torn
    <2>1. block_table[s] # <<>> /\ WritesBehind(s, Start(s), num_tokens[s])
      BY <1>1, <1>3, ScheduledReserved DEF WritesBehind
    <2>2. kv' = Written(s, Start(s), values)
      BY <1>1, <1>3
    <2> QED
      BY <1>1, <1>2, <2>1, <2>2, WriteKeeps
  <1>4. CASE ~ torn
    BY <1>1, <1>4, SameKeeps
  <1> QED
    BY <1>3, <1>4

\* Pages are taken from the free ones only.
LEMMA TakingKeeps ==
    ASSUME KVInv, NEW F \in SUBSET free_block_ids, kv' = kv,
           computed_tokens' = [p \in Pages |-> IF p \in F THEN 0 ELSE computed_tokens[p]]
    PROVE  \A p \in Pages : \A o \in 0 .. BlockSize - 1 : KeepsSlot(p, o)
  <1>1. TypeOK /\ PoolConsistent
    BY DEF KVInv, Inv
  <1>2. ASSUME NEW p \in Pages, ref_count[p] > 0
        PROVE  computed_tokens'[p] \in Int /\ computed_tokens'[p] >= computed_tokens[p]
    <2>1. p \notin F
      BY <1>1, <1>2, HolderCounts
    <2>2. computed_tokens[p] \in Int
      BY <1>1 DEF TypeOK, BlockManagerTypeOK
    <2> QED
      BY <2>1, <2>2
  <1> QED
    BY <1>2, StillKeeps

\* mark_computed on reserved positions.
MarksWithin(s, start, n, hashes) ==
    /\ start + n <= Len(block_table[s]) * BlockSize
    /\ mark_computed(s, start, n, hashes)

\* Marking takes nothing back.
LEMMA MarkGrows ==
    ASSUME TypeOK, NEW s \in Seqs, NEW start \in Nat, NEW n \in Nat,
           NEW hashes \in [Pages -> Seq(Tokens)], MarksWithin(s, start, n, hashes)
    PROVE  \A p \in Pages :
                /\ computed_tokens'[p] \in Int
                /\ computed_tokens'[p] >= computed_tokens[p]
  <1> SUFFICES ASSUME start + n <= Len(block_table[s]) * BlockSize,
                      mark_computed(s, start, n, hashes), NEW p \in Pages
               PROVE  computed_tokens'[p] \in Int /\ computed_tokens'[p] >= computed_tokens[p]
    BY DEF MarksWithin
  <1> DEFINE Touched == {physical_block_id(s, pos) : pos \in start .. start + n - 1}
             end == start + n
  <1>1. computed_tokens' = [q \in Pages |->
            IF q \in Touched THEN Max({computed_tokens[q], ValidLength(s, q, end)})
            ELSE computed_tokens[q]]
    BY DEF mark_computed
  <1>2. computed_tokens[p] \in Int
    BY DEF TypeOK, BlockManagerTypeOK
  <1>3. CASE p \notin Touched
    BY <1>1, <1>2, <1>3
  <1>4. CASE p \in Touched
    <2>1. p \in Range(block_table[s])
      <3>1. PICK pos \in start .. start + n - 1 : p = physical_block_id(s, pos)
        BY <1>4
      <3>2. pos \in Nat /\ Len(block_table[s]) * BlockSize \in Nat
        BY <3>1, Counts
      <3>3. pos < Len(block_table[s]) * BlockSize
        BY <3>2
      <3> QED
        BY <3>1, <3>2, <3>3, PositionMapped DEF TypeOK
    <2>2. LogicalBlock(block_table[s], p) \in Int
      <3>1. DOMAIN block_table[s] \subseteq Int
        BY Tables, Counts
      <3> QED
        BY <2>1, <3>1, LogicalBlockIndex
    <2>3. end - (LogicalBlock(block_table[s], p) - 1) * BlockSize \in Int
      BY <2>2, BlockSizeAssumption
    <2>4. ValidLength(s, p, end) \in Int
      <3> DEFINE e == end - (LogicalBlock(block_table[s], p) - 1) * BlockSize
      <3>1. ValidLength(s, p, end) = Min({BlockSize, e})
        BY DEF ValidLength
      <3>2. e \in Int /\ BlockSize \in Int
        BY <2>3, BlockSizeAssumption
      <3> HIDE DEF e, end
      <3> QED
        BY <3>1, <3>2, MinOfTwo
    <2>5. computed_tokens'[p] = Max({computed_tokens[p], ValidLength(s, p, end)})
      BY <1>1, <1>4
    <2> HIDE DEF end, Touched
    <2> QED
      BY <1>2, <2>4, <2>5, MaxOfTwo
  <1> QED
    BY <1>3, <1>4

LEMMA CommitKeeps ==
    ASSUME KVInv, NEW s \in Seqs, Commit(s)
    PROVE  \A p \in Pages : \A o \in 0 .. BlockSize - 1 : KeepsSlot(p, o)
  <1>1. Inv /\ TypeOK
    BY DEF KVInv, Inv
  <1>2. /\ work[s] = "forwarded" /\ mark_computed(s, Start(s), Len(query[s]), block_hash)
        /\ kv' = kv
    BY DEF Commit, Committed
  <1>3. /\ Start(s) \in Nat /\ Len(query[s]) \in Nat
        /\ Start(s) + Len(query[s]) <= Len(block_table[s]) * BlockSize
    BY <1>1, <1>2, ForwardedReserved
  <1>4. block_hash \in [Pages -> Seq(Tokens)]
    BY <1>1 DEF TypeOK, BlockManagerTypeOK
  <1>5. MarksWithin(s, Start(s), Len(query[s]), block_hash)
    BY <1>2, <1>3 DEF MarksWithin
  <1>6. \A p \in Pages : computed_tokens'[p] \in Int /\ computed_tokens'[p] >= computed_tokens[p]
    BY <1>1, <1>3, <1>4, <1>5, MarkGrows
  <1> QED
    BY <1>2, <1>6, StillKeeps

LEMMA CommitSpeculativeKeeps ==
    ASSUME KVInv, NEW s \in Seqs, CommitSpeculative(s)
    PROVE  \A p \in Pages : \A o \in 0 .. BlockSize - 1 : KeepsSlot(p, o)
  <1>1. Inv /\ TypeOK
    BY DEF KVInv, Inv
  <1>2. /\ work[s] = "forwarded" /\ kv' = kv /\ Len(query[s]) > 1
    BY DEF CommitSpeculative, Committed
  <1>3. PICK accepted \in 0 .. Len(Tail(query[s])) :
            mark_computed(s, Start(s), accepted + 1, block_hash')
    BY DEF CommitSpeculative
  <1>4. Len(Tail(query[s])) = Len(query[s]) - 1
    <2>1. query[s] \in Seq(Tokens)
      BY <1>1, Tables
    <2>2. query[s] # <<>>
      BY <1>2, <2>1
    <2> QED
      BY <2>1, <2>2, HeadTailProperties
  <1>5. PICK start \in Nat, n \in Nat, room \in Nat :
            /\ Start(s) = start /\ Len(query[s]) = n /\ Len(block_table[s]) * BlockSize = room
            /\ start + n <= room
    <2>1. /\ Start(s) \in Nat /\ Len(query[s]) \in Nat
          /\ Start(s) + Len(query[s]) <= Len(block_table[s]) * BlockSize
      BY <1>1, <1>2, ForwardedReserved
    <2>2. Len(block_table[s]) * BlockSize \in Nat
      BY <1>1, Counts
    <2> QED
      BY <2>1, <2>2
  <1>6. accepted + 1 \in Nat /\ accepted + 1 <= n
    BY <1>3, <1>4, <1>5
  <1>7. block_hash' \in [Pages -> Seq(Tokens)]
    BY <1>1, CommitSpeculativeInv DEF Inv, TypeOK, BlockManagerTypeOK
  <1>8. MarksWithin(s, start, accepted + 1, block_hash')
    BY <1>3, <1>5, <1>6 DEF MarksWithin
  <1>9. \A p \in Pages : computed_tokens'[p] \in Int /\ computed_tokens'[p] >= computed_tokens[p]
    <2> DEFINE marked == accepted + 1
               hashes == block_hash'
    <2>1. marked \in Nat /\ hashes \in [Pages -> Seq(Tokens)] /\ MarksWithin(s, start, marked, hashes)
      BY <1>6, <1>7, <1>8
    <2> HIDE DEF marked, hashes
    <2> QED
      BY <1>1, <1>5, <2>1, MarkGrows
  <1> QED
    BY <1>2, <1>9, StillKeeps

LEMMA AdmitKeeps ==
    ASSUME KVInv, NEW s \in Seqs, NEW chunk \in 0 .. prompt_len[s], Admit(s, chunk)
    PROVE  \A p \in Pages : \A o \in 0 .. BlockSize - 1 : KeepsSlot(p, o)
  <1>1. BlockManagerTypeOK
    BY DEF KVInv, Inv, TypeOK
  <1> DEFINE found == reusable_prefix_block_ids(s)
             missing == required_blocks(prompt_len[s] + 1) - Len(found)
  <1>2. PICK fresh \in FreshChoices(missing, free_block_ids \ Range(found)) :
            computed_tokens' = [p \in Pages |->
                IF p \in Range(fresh) THEN 0 ELSE computed_tokens[p]]
    BY DEF Admit, allocate
  <1>3. kv' = kv
    BY DEF Admit, Schedule, runVars
  <1>4. missing \in Int
    <2>1. Len(found) \in Int
      BY <1>1, ReusableProperties
    <2>2. prompt_len[s] + 1 \in Nat
      BY <1>1 DEF BlockManagerTypeOK
    <2>3. required_blocks(prompt_len[s] + 1) \in Nat
      BY <1>1, <2>2, BlockCounts
    <2> HIDE DEF found
    <2> QED
      BY <2>1, <2>3
  <1>5. free_block_ids \ Range(found) \in SUBSET Pages
    BY <1>1 DEF BlockManagerTypeOK
  <1> HIDE DEF missing, found
  <1>6. Range(fresh) \in SUBSET free_block_ids
    BY <1>2, <1>4, <1>5, FreshProperties
  <1> QED
    BY <1>2, <1>3, <1>6, TakingKeeps

LEMMA ScheduleDecodeKeeps ==
    ASSUME KVInv, NEW s \in Seqs, NEW lookahead \in 1 .. 1 + MaxDraft, ScheduleDecode(s, lookahead)
    PROVE  \A p \in Pages : \A o \in 0 .. BlockSize - 1 : KeepsSlot(p, o)
  <1>1. BlockManagerTypeOK
    BY DEF KVInv, Inv, TypeOK
  <1> DEFINE missing == MissingPages(s, lookahead)
  <1>2. PICK fresh \in FreshChoices(missing, free_block_ids) :
            computed_tokens' = [p \in Pages |->
                IF p \in Range(fresh) THEN 0 ELSE computed_tokens[p]]
    BY DEF ScheduleDecode, may_append
  <1>3. kv' = kv
    BY DEF ScheduleDecode, Schedule
  <1>4. missing \in Int
    <2>1. lookahead \in Nat
      BY MaxDraftAssumption
    <2>2. Len(token_ids[s]) + lookahead \in Nat /\ Len(block_table[s]) \in Nat
      BY <1>1, <2>1 DEF BlockManagerTypeOK
    <2>3. required_blocks(Len(token_ids[s]) + lookahead) \in Nat
      BY <1>1, <2>2, BlockCounts
    <2> QED
      BY <2>2, <2>3 DEF MissingPages
  <1>5. free_block_ids \in SUBSET Pages
    BY <1>1 DEF BlockManagerTypeOK
  <1> HIDE DEF missing
  <1>6. Range(fresh) \in SUBSET free_block_ids
    BY <1>2, <1>4, <1>5, FreshProperties
  <1> QED
    BY <1>2, <1>3, <1>6, TakingKeeps

\* While a page is held, no step rewrites a slot of it that is valid: not a forward, torn
\* or not, not an eviction, and not a burst whose drafts were rejected.
THEOREM ValidSlotsAreImmutable == Spec => ValidSlotsImmutable
  <1>1. ASSUME KVInv, [Next]_vars
        PROVE  \/ \A p \in Pages : \A o \in 0 .. BlockSize - 1 : KeepsSlot(p, o)
               \/ UNCHANGED vars
    <2>1. CASE Next
      <3>1. PICK s \in Seqs :
                \/ AddRequest(s)
                \/ \E chunk \in 0 .. prompt_len[s] : Admit(s, chunk)
                \/ \E chunk \in 1 .. prompt_len[s] : SchedulePrefill(s, chunk)
                \/ \E lookahead \in 1 .. 1 + MaxDraft : ScheduleDecode(s, lookahead)
                \/ \E drafts \in Drafts : Forward(s, drafts)
                \/ Commit(s)
                \/ CommitSpeculative(s)
                \/ \E finish \in BOOLEAN : Postprocess(s, finish)
                \/ Abort(s)
                \/ \E torn \in BOOLEAN : Fail(s, torn)
                \/ Forget(s)
        BY <2>1 DEF Next
      <3>2. CASE \E chunk \in 0 .. prompt_len[s] : Admit(s, chunk)
        BY <3>2, <1>1, AdmitKeeps
      <3>3. CASE \E lookahead \in 1 .. 1 + MaxDraft : ScheduleDecode(s, lookahead)
        BY <3>3, <1>1, ScheduleDecodeKeeps
      <3>4. CASE \E drafts \in Drafts : Forward(s, drafts)
        BY <3>4, <1>1, ForwardKeeps
      <3>5. CASE Commit(s)
        BY <3>5, <1>1, CommitKeeps
      <3>6. CASE CommitSpeculative(s)
        BY <3>6, <1>1, CommitSpeculativeKeeps
      <3>7. CASE \E torn \in BOOLEAN : Fail(s, torn)
        BY <3>7, <1>1, FailKeeps
      <3>8. CASE \/ AddRequest(s)
                 \/ \E chunk \in 1 .. prompt_len[s] : SchedulePrefill(s, chunk)
                 \/ \E finish \in BOOLEAN : Postprocess(s, finish)
                 \/ Abort(s)
                 \/ Forget(s)
        <4>1. kv' = kv /\ computed_tokens' = computed_tokens
          BY <3>8 DEF AddRequest, SchedulePrefill, Schedule, Postprocess, Abort, Forget,
                      metaVars, bmVars, runVars
        <4> QED
          BY <1>1, <4>1, SameKeeps
      <3> QED
        BY <3>1, <3>2, <3>3, <3>4, <3>5, <3>6, <3>7, <3>8
    <2>2. CASE UNCHANGED vars
      BY <2>2
    <2> QED
      BY <1>1, <2>1, <2>2
  <1>2. KVInv /\ [Next]_vars =>
            [\A p \in Pages : \A o \in 0 .. BlockSize - 1 :
                ref_count[p] > 0 /\ ref_count'[p] > 0 /\ o < computed_tokens[p]
                    => kv'[p][o] = kv[p][o] /\ computed_tokens'[p] > o]_vars
    BY <1>1 DEF KeepsSlot
  <1> QED
    BY <1>2, ContentsInvariance, PTL DEF Spec, ValidSlotsImmutable

-----------------------------------------------------------------------------
(* A cache of one's own.                                                   *)

\* How many positions of a request are valid.
Cached(s) == IF block_table[s] = <<>> THEN 0 ELSE ValidEnd(s)

Memory == [s \in Seqs |-> PrivateMemory(s)]

\* A request that does not exist has no text.
NewEmpty == \A s \in Seqs : status[s] = "NEW" => token_ids[s] = <<>>

LEMMA CachedCount ==
    ASSUME KVInv, NEW s \in Seqs
    PROVE  Cached(s) \in Nat /\ Cached(s) <= Len(token_ids[s])
  <1>1. TypeOK
    BY DEF KVInv, Inv
  <1>2. Len(token_ids[s]) \in Nat
    BY <1>1, Counts
  <1>3. block_table[s] # <<>> => ValidEnd(s) \in Nat /\ ValidEnd(s) < Len(token_ids[s])
    BY EndWithinText
  <1> QED
    BY <1>2, <1>3 DEF Cached

\* A request's private memory holds the K/V of its own text, as far as it is computed.
LEMMA MemoryIs ==
    ASSUME KVInv, NEW s \in Seqs
    PROVE  PrivateMemory(s) = Private!KVOf(token_ids[s], Cached(s))
  <1>1. PICK n \in Nat : Cached(s) = n
    BY CachedCount
  <1>2. ValidPositions(s) = 0 .. n - 1
    <2>1. CASE block_table[s] = <<>>
      <3>1. n = 0
        BY <1>1, <2>1 DEF Cached
      <3> QED
        BY <2>1, <3>1, ValidAre
    <2>2. CASE block_table[s] # <<>>
      BY <1>1, <2>2, ValidAre DEF Cached
    <2> QED
      BY <2>1, <2>2
  <1>3. Cardinality(0 .. n - 1) = n
    BY FS_Interval
  <1>4. ASSUME NEW i \in 1 .. n
        PROVE  kv[physical_block_id(s, i - 1)][Offset(i - 1)] = SubSeq(token_ids[s], 1, i)
    <2> DEFINE pos == i - 1
    <2>1. pos \in 0 .. n - 1 /\ pos + 1 = i
      OBVIOUS
    <2> HIDE DEF pos
    <2>2. kv[physical_block_id(s, pos)][Offset(pos)] = SubSeq(token_ids[s], 1, pos + 1)
      BY <1>2, <2>1, OwnKV
    <2> QED
      BY <2>1, <2>2 DEF pos
  <1>5. PrivateMemory(s) = [i \in 1 .. n |-> kv[physical_block_id(s, i - 1)][Offset(i - 1)]]
    BY <1>2, <1>3 DEF PrivateMemory
  <1>6. [i \in 1 .. n |-> kv[physical_block_id(s, i - 1)][Offset(i - 1)]]
            = [i \in 1 .. n |-> SubSeq(token_ids[s], 1, i)]
    BY <1>4
  <1> QED
    BY <1>1, <1>5, <1>6 DEF Private!KVOf

\* The abstract cache's variables and actions, with their substitutions.
LEMMA PrivateActions ==
    ASSUME NEW s \in Seqs
    PROVE  /\ Private!Begin(s) <=>
                /\ token_ids[s] = <<>>
                /\ \E prompt \in Prompts : token_ids' = [token_ids EXCEPT ![s] = prompt]
                /\ Memory' = Memory
           /\ Private!Extend(s) <=>
                /\ token_ids[s] # <<>>
                /\ Private!IsPrefix(token_ids[s], token_ids'[s])
                /\ token_ids' = [token_ids EXCEPT ![s] = token_ids'[s]]
                /\ \E n \in Len(Memory[s]) + 1 .. Len(token_ids'[s]) - 1 :
                        Memory' = [Memory EXCEPT ![s] = Private!KVOf(token_ids'[s], n)]
           /\ Private!Release(s) <=> Memory' = [Memory EXCEPT ![s] = <<>>] /\ token_ids' = token_ids
           /\ Private!Forget(s) <=>
                /\ Memory[s] = <<>>
                /\ token_ids' = [token_ids EXCEPT ![s] = <<>>]
                /\ Memory' = Memory
           /\ (UNCHANGED Private!cacheVars) <=> token_ids' = token_ids /\ Memory' = Memory
  <1>1. Private!Begin(s) <=>
                /\ token_ids[s] = <<>>
                /\ \E prompt \in Prompts : token_ids' = [token_ids EXCEPT ![s] = prompt]
                /\ Memory' = Memory
    BY DEF Private!Begin, Memory
  <1>2. Private!Extend(s) <=>
                /\ token_ids[s] # <<>>
                /\ Private!IsPrefix(token_ids[s], token_ids'[s])
                /\ token_ids' = [token_ids EXCEPT ![s] = token_ids'[s]]
                /\ \E n \in Len(Memory[s]) + 1 .. Len(token_ids'[s]) - 1 :
                        Memory' = [Memory EXCEPT ![s] = Private!KVOf(token_ids'[s], n)]
    BY DEF Private!Extend, Memory
  <1>3. Private!Release(s) <=> Memory' = [Memory EXCEPT ![s] = <<>>] /\ token_ids' = token_ids
    BY DEF Private!Release, Memory
  <1>4. Private!Forget(s) <=>
                /\ Memory[s] = <<>>
                /\ token_ids' = [token_ids EXCEPT ![s] = <<>>]
                /\ Memory' = Memory
    BY DEF Private!Forget, Memory
  <1>5. (UNCHANGED Private!cacheVars) <=> token_ids' = token_ids /\ Memory' = Memory
    BY DEF Private!cacheVars, Memory
  <1> QED
    BY <1>1, <1>2, <1>3, <1>4, <1>5

\* What the memories are, in one formula, so that it can be had after a step too.
MemoryOf ==
    \A s \in Seqs :
        /\ PrivateMemory(s) = Private!KVOf(token_ids[s], Cached(s))
        /\ Cached(s) \in Nat
        /\ Cached(s) > 0 => Cached(s) < Len(token_ids[s])

LEMMA MemoryNow == KVInv => MemoryOf
  <1> SUFFICES ASSUME KVInv, NEW s \in Seqs
               PROVE  /\ PrivateMemory(s) = Private!KVOf(token_ids[s], Cached(s))
                      /\ Cached(s) \in Nat
                      /\ Cached(s) > 0 => Cached(s) < Len(token_ids[s])
    BY DEF MemoryOf
  <1>1. block_table[s] # <<>> => ValidEnd(s) < Len(token_ids[s])
    BY EndWithinText
  <1>2. Cached(s) > 0 => Cached(s) < Len(token_ids[s])
    BY <1>1 DEF Cached
  <1> QED
    BY <1>2, MemoryIs, CachedCount

LEMMA MemoryNext == KVInv' => MemoryOf'
  BY MemoryNow, PTL

\* A memory that holds nothing.
LEMMA NoMemory ==
    ASSUME NEW text
    PROVE  Private!KVOf(text, 0) = <<>>
  BY DEF Private!KVOf

LEMMA MemoryLength ==
    ASSUME NEW text, NEW n \in Nat
    PROVE  Len(Private!KVOf(text, n)) = n
  <1> DEFINE m == [i \in 1 .. n |-> SubSeq(text, 1, i)]
  <1> DEFINE S == {SubSeq(text, 1, i) : i \in 1 .. n}
  <1>1. m \in [1 .. n -> S]
    OBVIOUS
  <1>2. Len(m) = n
    <2> HIDE DEF m, S
    <2> QED
      BY <1>1
  <1> QED
    BY <1>2 DEF Private!KVOf

\* A request that takes no part in a step keeps its memory.
LEMMA MemoryElsewhere ==
    ASSUME KVInv, KVInv', NEW r \in Seqs, Idle(r)
    PROVE  Memory'[r] = Memory[r]
  <1>1. /\ PrivateMemory(r) = Private!KVOf(token_ids[r], Cached(r))
        /\ PrivateMemory(r)' = Private!KVOf(token_ids'[r], Cached(r)')
    BY MemoryNow, MemoryNext DEF MemoryOf, Private!KVOf
  <1>2. Cached(r)' = Cached(r)
    BY DEF Idle, Cached, ValidEnd, Start, IsPrefilling, uncomputed_tokens
  <1>3. PrivateMemory(r)' = PrivateMemory(r)
    BY <1>1, <1>2 DEF Idle
  <1> QED
    BY <1>3 DEF Memory

\* The step changes no request but s.
Others(s) == \A r \in Seqs \ {s} : Idle(r)

LEMMA MemoryChange ==
    ASSUME KVInv, KVInv', NEW s \in Seqs, Others(s)
    PROVE  /\ Memory[s] = Private!KVOf(token_ids[s], Cached(s))
           /\ Memory'[s] = Private!KVOf(token_ids'[s], Cached(s)')
           /\ Memory' = [Memory EXCEPT ![s] = Memory'[s]]
           /\ token_ids' = [token_ids EXCEPT ![s] = token_ids'[s]]
  <1>1. /\ PrivateMemory(s) = Private!KVOf(token_ids[s], Cached(s))
        /\ PrivateMemory(s)' = Private!KVOf(token_ids'[s], Cached(s)')
    BY MemoryNow, MemoryNext DEF MemoryOf, Private!KVOf
  <1>2. Memory[s] = PrivateMemory(s) /\ Memory'[s] = PrivateMemory(s)'
    BY DEF Memory
  <1>3. \A r \in Seqs \ {s} : Memory'[r] = Memory[r] /\ token_ids'[r] = token_ids[r]
    BY MemoryElsewhere DEF Others, Idle
  <1>4. Memory' = [Memory EXCEPT ![s] = Memory'[s]]
    <2>1. Memory = [r \in Seqs |-> Memory[r]] /\ Memory' = [r \in Seqs |-> Memory'[r]]
      BY DEF Memory
    <2> QED
      BY <1>3, <2>1
  <1>5. token_ids' = [token_ids EXCEPT ![s] = token_ids'[s]]
    <2>1. token_ids \in [Seqs -> Seq(Tokens)] /\ token_ids' \in [Seqs -> Seq(Tokens)]
      BY DEF KVInv, Inv, TypeOK, BlockManagerTypeOK
    <2> QED
      BY <1>3, <2>1
  <1> QED
    BY <1>1, <1>2, <1>4, <1>5

\* Nothing becomes valid and nothing stops being so.
LEMMA MapsToStutter ==
    ASSUME KVInv, KVInv', NEW s \in Seqs, Others(s),
           token_ids'[s] = token_ids[s], Cached(s)' = Cached(s)
    PROVE  UNCHANGED Private!cacheVars
  <1>1. Memory'[s] = Memory[s]
    BY MemoryChange
  <1>2. Memory' = Memory /\ token_ids' = token_ids
    <2>1. Memory' = [Memory EXCEPT ![s] = Memory[s]] /\ token_ids' = [token_ids EXCEPT ![s] = token_ids[s]]
      BY <1>1, MemoryChange
    <2>2. Memory = [r \in Seqs |-> Memory[r]] /\ token_ids = [r \in Seqs |-> token_ids[r]]
      BY DEF Memory, KVInv, Inv, TypeOK, BlockManagerTypeOK
    <2> QED
      BY <2>1, <2>2
  <1> QED
    BY <1>2, PrivateActions

\* The text grows at its end, and more of it is valid.
Grows(s) ==
    /\ token_ids[s] # <<>>
    /\ Private!IsPrefix(token_ids[s], token_ids'[s])
    /\ Cached(s) < Cached(s)'

LEMMA MapsToExtend ==
    ASSUME KVInv, KVInv', NEW s \in Seqs, Others(s), Grows(s)
    PROVE  Private!Extend(s)
  <1>1. PICK old \in Nat, n \in Nat, len \in Nat :
            /\ Cached(s) = old /\ Cached(s)' = n /\ Len(token_ids'[s]) = len
            /\ old < n /\ n < len
    <2>1. Cached(s) \in Nat /\ Cached(s)' \in Nat /\ (Cached(s)' > 0 => Cached(s)' < Len(token_ids'[s]))
      BY MemoryNow, MemoryNext DEF MemoryOf
    <2>2. Len(token_ids'[s]) \in Nat
      BY DEF KVInv, Inv, TypeOK, BlockManagerTypeOK
    <2> QED
      BY <2>1, <2>2 DEF Grows
  <1>2. Len(Memory[s]) = old
    BY <1>1, MemoryChange, MemoryLength
  <1>3. Memory' = [Memory EXCEPT ![s] = Private!KVOf(token_ids'[s], n)]
    BY <1>1, MemoryChange
  <1>4. n \in Len(Memory[s]) + 1 .. Len(token_ids'[s]) - 1
    BY <1>1, <1>2
  <1>5. token_ids' = [token_ids EXCEPT ![s] = token_ids'[s]]
    BY MemoryChange
  <1> QED
    BY <1>3, <1>4, <1>5, PrivateActions DEF Grows

\* The request loses its pages.
LEMMA MapsToRelease ==
    ASSUME KVInv, KVInv', NEW s \in Seqs, Others(s),
           token_ids'[s] = token_ids[s], block_table'[s] = <<>>
    PROVE  Private!Release(s)
  <1>1. Memory'[s] = <<>>
    BY MemoryChange, NoMemory DEF Cached
  <1>2. Memory' = [Memory EXCEPT ![s] = <<>>]
    BY <1>1, MemoryChange
  <1>3. token_ids' = token_ids
    <2>1. token_ids' = [token_ids EXCEPT ![s] = token_ids[s]]
      BY MemoryChange
    <2>2. token_ids = [r \in Seqs |-> token_ids[r]]
      BY DEF KVInv, Inv, TypeOK, BlockManagerTypeOK
    <2> QED
      BY <2>1, <2>2
  <1> QED
    BY <1>2, <1>3, PrivateActions

\* A request without pages before and after a step.
LEMMA NoMemoryChange ==
    ASSUME KVInv, KVInv', NEW s \in Seqs, Others(s),
           block_table[s] = <<>>, block_table'[s] = <<>>
    PROVE  Memory[s] = <<>> /\ Memory' = Memory
  <1>1. Memory[s] = <<>> /\ Memory'[s] = <<>>
    BY MemoryChange, NoMemory DEF Cached
  <1>2. Memory' = [Memory EXCEPT ![s] = Memory[s]]
    BY <1>1, MemoryChange
  <1>3. Memory = [r \in Seqs |-> Memory[r]]
    BY DEF Memory
  <1> QED
    BY <1>1, <1>2, <1>3

\* A text is a prefix of what it grows to.
LEMMA TextGrows ==
    ASSUME NEW text \in Seq(Tokens), NEW tokens \in Seq(Tokens)
    PROVE  /\ Private!IsPrefix(text, text)
           /\ Private!IsPrefix(text, text \o tokens)
           /\ Len(text \o tokens) = Len(text) + Len(tokens)
  <1>1. PICK n \in 0 .. Len(text) : Len(text) = n
    OBVIOUS
  <1>2. SubSeq(text \o tokens, 1, n) = SubSeq(text, 1, n)
    BY GrowPrefix
  <1>3. Len(text \o tokens) = Len(text) + Len(tokens) /\ Len(tokens) \in Nat
    BY ConcatProperties
  <1>4. Len(text) <= Len(text \o tokens) /\ Len(text) <= Len(text)
    BY <1>1, <1>3
  <1> QED
    BY <1>1, <1>2, <1>3, <1>4 DEF Private!IsPrefix

\* Recording tokens changes the text of one request only, which grows by them.
LEMMA Recording ==
    ASSUME TypeOK, NEW s \in Seqs, NEW tokens \in Seq(Tokens), Len(tokens) > 0,
           append_and_record(s, tokens)
    PROVE  /\ Private!IsPrefix(token_ids[s], token_ids'[s])
           /\ Len(token_ids'[s]) > Len(token_ids[s])
           /\ \A r \in Seqs \ {s} : token_ids'[r] = token_ids[r]
  <1>1. token_ids' = [token_ids EXCEPT ![s] = token_ids[s] \o tokens]
    BY DEF append_and_record
  <1>2. token_ids \in [Seqs -> Seq(Tokens)]
    BY DEF TypeOK, BlockManagerTypeOK
  <1>3. token_ids'[s] = token_ids[s] \o tokens /\ \A r \in Seqs \ {s} : token_ids'[r] = token_ids[r]
    BY <1>1, <1>2
  <1>4. PICK text \in Seq(Tokens) : token_ids[s] = text
    BY <1>2
  <1>5. /\ Private!IsPrefix(text, text \o tokens)
        /\ Len(text \o tokens) = Len(text) + Len(tokens)
    BY TextGrows
  <1>6. Len(text) \in Nat /\ Len(tokens) \in Nat
    OBVIOUS
  <1>7. Len(token_ids'[s]) > Len(token_ids[s])
    BY <1>3, <1>4, <1>5, <1>6
  <1> QED
    BY <1>3, <1>4, <1>5, <1>7

\* What a step of request s is in the abstract cache.
RefinedAt(s) ==
    \/ Private!Begin(s)
    \/ Private!Extend(s)
    \/ Private!Release(s)
    \/ Private!Forget(s)
    \/ UNCHANGED Private!cacheVars

LEMMA AddRequestMaps ==
    ASSUME KVInv, KVInv', NewEmpty, NEW s \in Seqs, AddRequest(s)
    PROVE  RefinedAt(s)
  <1>1. TypeOK /\ Accounting(s)
    BY DEF KVInv, Inv
  <1>2. /\ status[s] = "NEW" /\ block_table' = block_table
        /\ \E prompt \in Prompts : token_ids' = [token_ids EXCEPT ![s] = prompt]
    BY DEF AddRequest
  <1>3. Others(s)
    BY <1>1 DEF Others, AddRequest, Idle, TypeOK, BlockManagerTypeOK, runVars
  <1>4. block_table[s] = <<>> /\ block_table'[s] = <<>> /\ token_ids[s] = <<>>
    BY <1>1, <1>2 DEF Accounting, NewEmpty
  <1>5. Memory' = Memory
    BY <1>3, <1>4, NoMemoryChange
  <1> QED
    BY <1>2, <1>4, <1>5, PrivateActions DEF RefinedAt

\* A text that stays as it is while more of it may become valid.
LEMMA SameTextMaps ==
    ASSUME KVInv, KVInv', NEW s \in Seqs, Others(s), status[s] = "ACTIVE",
           token_ids'[s] = token_ids[s], Cached(s) = 0 \/ Cached(s)' = Cached(s)
    PROVE  RefinedAt(s)
  <1>1. CASE Cached(s)' = Cached(s)
    BY <1>1, MapsToStutter DEF RefinedAt
  <1>2. CASE Cached(s)' # Cached(s)
    <2>1. Cached(s) < Cached(s)'
      <3>1. Cached(s) = 0 /\ Cached(s)' \in Nat
        BY <1>2, MemoryNext DEF MemoryOf
      <3> QED
        BY <1>2, <3>1
    <2>2. token_ids[s] \in Seq(Tokens) /\ token_ids[s] # <<>>
      <3>1. /\ token_ids[s] \in Seq(Tokens) /\ prompt_len[s] > 0 /\ prompt_len[s] \in Nat
            /\ Len(token_ids[s]) \in Nat /\ prompt_len[s] <= Len(token_ids[s])
        BY Tables, Counts DEF KVInv, Inv, Accounting
      <3>2. Len(token_ids[s]) > 0
        BY <3>1
      <3> QED
        BY <3>1, <3>2
    <2>3. Private!IsPrefix(token_ids[s], token_ids'[s])
      <3>1. \A text \in Seq(Tokens) : Private!IsPrefix(text, text)
        BY DEF Private!IsPrefix
      <3> QED
        BY <2>2, <3>1
    <2>4. Grows(s)
      BY <2>1, <2>2, <2>3 DEF Grows
    <2> QED
      BY <2>4, MapsToExtend DEF RefinedAt
  <1> QED
    BY <1>1, <1>2

LEMMA AdmitMaps ==
    ASSUME KVInv, KVInv', NEW s \in Seqs, NEW chunk \in 0 .. prompt_len[s], Admit(s, chunk)
    PROVE  RefinedAt(s)
  <1>1. TypeOK
    BY DEF KVInv, Inv
  <1>2. /\ status[s] = "ACTIVE" /\ block_table[s] = <<>> /\ token_ids' = token_ids
        /\ prompt_len' = prompt_len /\ status' = status /\ query' = query
        /\ \E table : block_table' = [block_table EXCEPT ![s] = table]
        /\ num_computed' = [num_computed EXCEPT ![s] = cached_prefix_tokens(s)]
    BY DEF Admit, allocate, Schedule, runVars
  <1>3. \/ work' = work /\ num_tokens' = num_tokens
        \/ /\ work' = [work EXCEPT ![s] = "scheduled"]
           /\ num_tokens' = [num_tokens EXCEPT ![s] = chunk]
    BY DEF Admit, Schedule, runVars
  <1>4. Others(s)
    BY <1>1, <1>2, <1>3 DEF Others, Idle, TypeOK, BlockManagerTypeOK
  <1>5. Cached(s) = 0
    BY <1>2 DEF Cached
  <1> QED
    BY <1>2, <1>4, <1>5, SameTextMaps

\* A step up to the commit, which leaves the counters of the request.
LEMMA UncommittedMaps ==
    ASSUME KVInv, KVInv', NEW s \in Seqs, Others(s), status[s] = "ACTIVE",
           work[s] # "done", work'[s] \in {"scheduled", "forwarded"},
           token_ids' = token_ids, prompt_len' = prompt_len, num_computed' = num_computed
    PROVE  RefinedAt(s)
  <1>1. ValidEnd(s)' = ValidEnd(s)
    BY DEF ValidEnd, Start, IsPrefilling, uncomputed_tokens
  <1>2. block_table'[s] # <<>>
    BY DEF KVInv, Inv, Accounting
  <1>3. Cached(s) = 0 \/ Cached(s)' = Cached(s)
    BY <1>1, <1>2 DEF Cached
  <1> QED
    BY <1>3, SameTextMaps

LEMMA SchedulePrefillMaps ==
    ASSUME KVInv, KVInv', NEW s \in Seqs, NEW chunk \in 1 .. prompt_len[s],
           SchedulePrefill(s, chunk)
    PROVE  RefinedAt(s)
  <1>1. TypeOK
    BY DEF KVInv, Inv
  <1>2. /\ status[s] = "ACTIVE" /\ work[s] = "idle" /\ work'[s] = "scheduled"
        /\ token_ids' = token_ids /\ prompt_len' = prompt_len /\ num_computed' = num_computed
    BY <1>1 DEF SchedulePrefill, Schedule, TypeOK, bmVars, reqVars
  <1>3. Others(s)
    BY <1>1 DEF Others, SchedulePrefill, Schedule, Idle, TypeOK, bmVars, reqVars
  <1> QED
    BY <1>2, <1>3, UncommittedMaps

LEMMA ScheduleDecodeMaps ==
    ASSUME KVInv, KVInv', NEW s \in Seqs, NEW lookahead \in 1 .. 1 + MaxDraft,
           ScheduleDecode(s, lookahead)
    PROVE  RefinedAt(s)
  <1>1. TypeOK
    BY DEF KVInv, Inv
  <1>2. /\ status[s] = "ACTIVE" /\ work[s] = "idle"
        /\ work' = [work EXCEPT ![s] = "scheduled"]
        /\ num_tokens' = [num_tokens EXCEPT ![s] = lookahead] /\ query' = query
        /\ token_ids' = token_ids /\ prompt_len' = prompt_len /\ num_computed' = num_computed
        /\ status' = status
        /\ \E fresh : block_table' = [block_table EXCEPT ![s] = @ \o fresh]
    BY DEF ScheduleDecode, Schedule, may_append, reqVars
  <1>3. Others(s) /\ work'[s] = "scheduled"
    BY <1>1, <1>2 DEF Others, Idle, TypeOK, BlockManagerTypeOK
  <1> QED
    BY <1>2, <1>3, UncommittedMaps

LEMMA ForwardMaps ==
    ASSUME KVInv, KVInv', NEW s \in Seqs, NEW drafts \in Drafts, Forward(s, drafts)
    PROVE  RefinedAt(s)
  <1>1. TypeOK /\ Accounting(s)
    BY DEF KVInv, Inv
  <1>2. /\ work[s] = "scheduled" /\ work' = [work EXCEPT ![s] = "forwarded"]
        /\ UNCHANGED <<bmVars, reqVars, num_tokens>>
        /\ \E tokens : query' = [query EXCEPT ![s] = tokens]
    BY DEF Forward
  <1>3. /\ token_ids' = token_ids /\ prompt_len' = prompt_len /\ num_computed' = num_computed
        /\ work'[s] = "forwarded" /\ status[s] = "ACTIVE"
    BY <1>1, <1>2 DEF Accounting, TypeOK, bmVars, reqVars
  <1>4. Others(s)
    BY <1>1, <1>2 DEF Others, Idle, TypeOK, bmVars, reqVars
  <1> QED
    BY <1>2, <1>3, <1>4, UncommittedMaps

\* A commit that makes more of a text valid that may have grown.
LEMMA CommitMaps ==
    ASSUME KVInv, KVInv', NEW s \in Seqs, Commit(s)
    PROVE  RefinedAt(s)
  <1> DEFINE ends == Start(s) + Len(query[s]) >= prompt_len[s]
  <1>1. Inv /\ TypeOK /\ token_ids[s] \in Seq(Tokens) /\ block_table[s] # <<>>
    BY Tables DEF KVInv, Inv, Accounting, Commit
  <1>2. /\ work[s] = "forwarded" /\ Committed(s)
        /\ IsPrefilling(s) \/ Len(query[s]) = 1
        /\ IF ends THEN \E token \in Tokens : append_and_record(s, <<token>>)
                   ELSE UNCHANGED <<token_ids, prompt_len, block_tokens, block_hash>>
    BY DEF Commit
  <1>3. /\ Private!IsPrefix(token_ids[s], token_ids'[s])
        /\ ends => Len(token_ids'[s]) > Len(token_ids[s])
        /\ \A r \in Seqs \ {s} : token_ids'[r] = token_ids[r]
        /\ prompt_len' = prompt_len
    <2>1. CASE ends
      <3>1. PICK token \in Tokens : append_and_record(s, <<token>>)
        BY <1>2, <2>1
      <3> DEFINE tokens == <<token>>
      <3>2. tokens \in Seq(Tokens) /\ Len(tokens) > 0 /\ append_and_record(s, tokens)
        BY <3>1
      <3> HIDE DEF tokens, ends
      <3>3. prompt_len' = prompt_len
        BY <3>2 DEF append_and_record
      <3> QED
        BY <1>1, <3>2, <3>3, Recording
    <2>2. CASE ~ ends
      <3>1. token_ids' = token_ids /\ prompt_len' = prompt_len
        BY <1>2, <2>2
      <3>2. \A text \in Seq(Tokens) : Private!IsPrefix(text, text)
        BY DEF Private!IsPrefix
      <3> QED
        BY <1>1, <2>2, <3>1, <3>2
    <2> QED
      BY <2>1, <2>2
  <1>4. Others(s)
    BY <1>1, <1>2, <1>3 DEF Others, Idle, Committed, TypeOK, reqVars
  <1>5. /\ work'[s] = "done" /\ num_computed' = num_computed /\ num_tokens' = num_tokens
        /\ block_table' = block_table
    BY <1>1, <1>2 DEF Committed, TypeOK, reqVars
  <1>6. ValidEnd(s) < ValidEnd(s)'
    <2>1. PICK start \in Nat, n \in Nat, len \in Nat, new \in Nat, prompt \in Nat :
            /\ Start(s) = start /\ Len(query[s]) = n /\ n > 0 /\ Len(token_ids[s]) = len
            /\ Len(token_ids'[s]) = new /\ prompt_len[s] = prompt
      <3>1. Start(s) \in Nat /\ Len(query[s]) \in Nat /\ Len(query[s]) > 0
        BY <1>1, <1>2, ForwardedReserved
      <3>2. Len(token_ids[s]) \in Nat /\ prompt_len[s] \in Nat
        BY <1>1, Counts
      <3>3. Len(token_ids'[s]) \in Nat
        BY DEF KVInv, Inv, TypeOK, BlockManagerTypeOK
      <3> QED
        BY <3>1, <3>2, <3>3
    <2>2. ValidEnd(s) = start
      BY <1>2, <2>1 DEF ValidEnd
    <2>3. CASE IsPrefilling(s)
      <3>1. ValidEnd(s)' = num_computed[s] + num_tokens[s]
        BY <1>3, <1>5, <2>3 DEF ValidEnd, IsPrefilling, uncomputed_tokens
      <3>2. start = num_computed[s] /\ n = num_tokens[s]
        BY <1>1, <1>2, <2>1, <2>3, ForwardedReserved
      <3>3. ValidEnd(s)' = start + n
        BY <3>1, <3>2
      <3> QED
        BY <2>1, <2>2, <3>3
    <2>4. CASE ~ IsPrefilling(s)
      <3>1. ValidEnd(s)' = Len(token_ids'[s]) - 1
        BY <1>3, <1>5, <2>4 DEF ValidEnd, Start, IsPrefilling, uncomputed_tokens
      <3>2. ends
        <4>1. n = 1 /\ start = len - 1 /\ prompt <= len
          BY <1>1, <1>2, <2>1, <2>4, ForwardedReserved, Counts
        <4>2. start + n >= prompt
          BY <4>1
        <4> QED
          BY <2>1, <4>2
      <3>3. new > len /\ start = len - 1
        BY <1>1, <1>2, <1>3, <2>1, <2>4, <3>2, ForwardedReserved
      <3> QED
        BY <2>1, <2>2, <3>1, <3>3
    <2> QED
      BY <2>3, <2>4
  <1>7. token_ids[s] # <<>>
    <2>1. ValidEnd(s) \in Nat /\ ValidEnd(s) < Len(token_ids[s])
      BY <1>1, EndWithinText
    <2> QED
      BY <2>1
  <1>8. Grows(s)
    BY <1>1, <1>3, <1>5, <1>6, <1>7 DEF Grows, Cached
  <1> QED
    BY <1>4, <1>8, MapsToExtend DEF RefinedAt

LEMMA CommitSpeculativeMaps ==
    ASSUME KVInv, KVInv', NEW s \in Seqs, CommitSpeculative(s)
    PROVE  RefinedAt(s)
  <1>1. Inv /\ TypeOK /\ token_ids[s] \in Seq(Tokens) /\ block_table[s] # <<>>
    BY Tables DEF KVInv, Inv, Accounting, CommitSpeculative
  <1>2. /\ work[s] = "forwarded" /\ Committed(s) /\ ~ IsPrefilling(s) /\ Len(query[s]) > 1
    BY DEF CommitSpeculative
  <1> DEFINE drafts == Tail(query[s])
  <1>3. PICK accepted \in 0 .. Len(drafts), token \in Tokens :
            append_and_record(s, SubSeq(drafts, 1, accepted) \o <<token>>)
    BY DEF CommitSpeculative
  <1> DEFINE some == SubSeq(drafts, 1, accepted)
             last == <<token>>
             tokens == some \o last
  <1>4. tokens \in Seq(Tokens) /\ Len(tokens) > 0
    <2>1. drafts \in Seq(Tokens)
      <3>1. query[s] \in Seq(Tokens)
        BY <1>1, Tables
      <3>2. query[s] # <<>>
        BY <1>2, <3>1
      <3> QED
        BY <3>1, <3>2, HeadTailProperties
    <2> HIDE DEF drafts
    <2>2. some \in Seq(Tokens)
      BY <2>1, PrefixProperties
    <2>3. last \in Seq(Tokens) /\ Len(last) = 1
      OBVIOUS
    <2> HIDE DEF some, last
    <2>4. some \o last \in Seq(Tokens) /\ Len(some \o last) = Len(some) + Len(last)
      BY <2>2, <2>3, ConcatProperties
    <2>5. Len(some) \in Nat
      BY <2>2
    <2> QED
      BY <2>3, <2>4, <2>5
  <1>5. append_and_record(s, tokens)
    BY <1>3
  <1> HIDE DEF tokens
  <1>6. /\ Private!IsPrefix(token_ids[s], token_ids'[s])
        /\ Len(token_ids'[s]) > Len(token_ids[s])
        /\ \A r \in Seqs \ {s} : token_ids'[r] = token_ids[r]
        /\ prompt_len' = prompt_len
    BY <1>1, <1>4, <1>5, Recording DEF append_and_record
  <1>7. Others(s)
    BY <1>1, <1>2, <1>6 DEF Others, Idle, Committed, TypeOK, reqVars
  <1>8. /\ num_computed' = num_computed /\ block_table' = block_table
    BY <1>2 DEF Committed, reqVars
  <1>9. ValidEnd(s) < ValidEnd(s)'
    <2>1. ValidEnd(s) = Len(token_ids[s]) - 1
      BY <1>2 DEF ValidEnd, Start
    <2>2. ValidEnd(s)' = Len(token_ids'[s]) - 1
      BY <1>2, <1>6, <1>8 DEF ValidEnd, Start, IsPrefilling, uncomputed_tokens
    <2>3. Len(token_ids[s]) \in Nat /\ Len(token_ids'[s]) \in Nat
      BY DEF KVInv, Inv, TypeOK, BlockManagerTypeOK
    <2> QED
      BY <1>6, <2>1, <2>2, <2>3
  <1>10. token_ids[s] # <<>>
    <2>1. ValidEnd(s) \in Nat /\ ValidEnd(s) < Len(token_ids[s])
      BY <1>1, EndWithinText
    <2> QED
      BY <2>1
  <1>11. Grows(s)
    BY <1>1, <1>6, <1>8, <1>9, <1>10 DEF Grows, Cached
  <1> QED
    BY <1>7, <1>11, MapsToExtend DEF RefinedAt

LEMMA PostprocessMaps ==
    ASSUME KVInv, KVInv', NEW s \in Seqs, NEW finish \in BOOLEAN, Postprocess(s, finish)
    PROVE  RefinedAt(s)
  <1> DEFINE computed == IF IsPrefilling(s) THEN num_computed[s] + num_tokens[s]
                                            ELSE num_computed[s]
  <1>1. TypeOK
    BY DEF KVInv, Inv
  <1>2. /\ num_computed' = [num_computed EXCEPT ![s] = computed]
        /\ UNCHANGED <<token_ids, prompt_len>>
        /\ work' = [work EXCEPT ![s] = "idle"]
        /\ num_tokens' = [num_tokens EXCEPT ![s] = 0]
        /\ query' = [query EXCEPT ![s] = <<>>]
    BY DEF Postprocess, ReleaseSlot
  <1>3. IF finish THEN /\ block_table' = [block_table EXCEPT ![s] = <<>>]
                       /\ status' = [status EXCEPT ![s] = "FINISHED"]
                  ELSE block_table' = block_table /\ status' = status
    BY DEF Postprocess, deallocate
  <1>4. Others(s)
    BY <1>1, <1>2, <1>3 DEF Others, Idle, TypeOK, BlockManagerTypeOK
  <1>5. CASE finish
    <2>1. block_table'[s] = <<>>
      BY <1>1, <1>3, <1>5 DEF TypeOK, BlockManagerTypeOK
    <2> QED
      BY <1>2, <1>4, <2>1, MapsToRelease DEF RefinedAt
  <1>6. CASE ~ finish
    <2>1. Cached(s)' = Cached(s)
      BY <1>3, <1>6, PostprocessEnd DEF Cached
    <2> QED
      BY <1>2, <1>4, <2>1, MapsToStutter DEF RefinedAt
  <1> QED
    BY <1>5, <1>6

LEMMA AbortMaps ==
    ASSUME KVInv, KVInv', NEW s \in Seqs, Abort(s)
    PROVE  RefinedAt(s)
  <1>1. TypeOK
    BY DEF KVInv, Inv
  <1>2. /\ UNCHANGED <<token_ids, prompt_len, num_computed, runVars>>
        /\ block_table' = [block_table EXCEPT ![s] = <<>>]
        /\ status' = [status EXCEPT ![s] = "FINISHED"]
    BY DEF Abort, deallocate
  <1>3. Others(s) /\ block_table'[s] = <<>>
    BY <1>1, <1>2 DEF Others, Idle, TypeOK, BlockManagerTypeOK, runVars
  <1> QED
    BY <1>2, <1>3, MapsToRelease DEF RefinedAt

LEMMA FailMaps ==
    ASSUME KVInv, KVInv', NEW s \in Seqs, NEW torn \in BOOLEAN, Fail(s, torn)
    PROVE  RefinedAt(s)
  <1>1. TypeOK
    BY DEF KVInv, Inv
  <1>2. /\ UNCHANGED <<token_ids, prompt_len, num_computed>>
        /\ block_table' = [block_table EXCEPT ![s] = <<>>]
        /\ status' = [status EXCEPT ![s] = "FINISHED"]
        /\ work' = [work EXCEPT ![s] = "idle"]
        /\ num_tokens' = [num_tokens EXCEPT ![s] = 0]
        /\ query' = [query EXCEPT ![s] = <<>>]
    BY DEF Fail, deallocate, ReleaseSlot
  <1>3. Others(s) /\ block_table'[s] = <<>>
    BY <1>1, <1>2 DEF Others, Idle, TypeOK, BlockManagerTypeOK
  <1> QED
    BY <1>2, <1>3, MapsToRelease DEF RefinedAt

LEMMA ForgetMaps ==
    ASSUME KVInv, KVInv', NEW s \in Seqs, Forget(s)
    PROVE  RefinedAt(s)
  <1>1. TypeOK /\ Accounting(s)
    BY DEF KVInv, Inv
  <1>2. /\ status[s] = "FINISHED" /\ block_table' = block_table
        /\ token_ids' = [token_ids EXCEPT ![s] = <<>>]
    BY DEF Forget
  <1>3. Others(s)
    BY <1>1 DEF Others, Forget, Idle, TypeOK, BlockManagerTypeOK, runVars
  <1>4. block_table[s] = <<>> /\ block_table'[s] = <<>>
    BY <1>1, <1>2 DEF Accounting
  <1>5. Memory[s] = <<>> /\ Memory' = Memory
    BY <1>3, <1>4, NoMemoryChange
  <1> QED
    BY <1>2, <1>5, PrivateActions DEF RefinedAt

\* No step gives a text to a request that does not exist.
LEMMA NewEmptyStep ==
    ASSUME KVInv, NewEmpty, Next
    PROVE  NewEmpty'
  <1>1. Inv /\ TypeOK
    BY DEF KVInv, Inv
  <1>2. PICK s \in Seqs :
            \/ AddRequest(s)
            \/ \E chunk \in 0 .. prompt_len[s] : Admit(s, chunk)
            \/ \E chunk \in 1 .. prompt_len[s] : SchedulePrefill(s, chunk)
            \/ \E lookahead \in 1 .. 1 + MaxDraft : ScheduleDecode(s, lookahead)
            \/ \E drafts \in Drafts : Forward(s, drafts)
            \/ Commit(s)
            \/ CommitSpeculative(s)
            \/ \E finish \in BOOLEAN : Postprocess(s, finish)
            \/ Abort(s)
            \/ \E torn \in BOOLEAN : Fail(s, torn)
            \/ Forget(s)
    BY DEF Next
  <1>3. CASE AddRequest(s)
    <2>1. /\ status' = [status EXCEPT ![s] = "ACTIVE"]
          /\ \E prompt : token_ids' = [token_ids EXCEPT ![s] = prompt]
      BY <1>3 DEF AddRequest
    <2> QED
      BY <1>1, <2>1 DEF NewEmpty, TypeOK, BlockManagerTypeOK
  <1>4. CASE Commit(s) \/ CommitSpeculative(s)
    <2>1. work[s] = "forwarded" /\ status' = status
      BY <1>4 DEF Commit, CommitSpeculative, Committed, reqVars
    <2>2. status[s] = "ACTIVE"
      BY <1>1, <2>1 DEF Inv, Accounting
    <2>3. \/ token_ids' = token_ids
          \/ \E tokens : token_ids' = [token_ids EXCEPT ![s] = @ \o tokens]
      BY <1>4 DEF Commit, CommitSpeculative, append_and_record
    <2> QED
      BY <1>1, <2>1, <2>2, <2>3 DEF NewEmpty, TypeOK, BlockManagerTypeOK
  <1>5. CASE \E finish \in BOOLEAN : Postprocess(s, finish)
    <2>1. /\ token_ids' = token_ids
          /\ status' = status \/ status' = [status EXCEPT ![s] = "FINISHED"]
      BY <1>5 DEF Postprocess
    <2> QED
      BY <1>1, <2>1 DEF NewEmpty, TypeOK
  <1>6. CASE Abort(s) \/ \E torn \in BOOLEAN : Fail(s, torn)
    <2>1. token_ids' = token_ids /\ status' = [status EXCEPT ![s] = "FINISHED"]
      BY <1>6 DEF Abort, Fail
    <2> QED
      BY <1>1, <2>1 DEF NewEmpty, TypeOK
  <1>7. CASE Forget(s)
    <2>1. /\ token_ids' = [token_ids EXCEPT ![s] = <<>>]
          /\ status' = [status EXCEPT ![s] = "NEW"]
      BY <1>7 DEF Forget
    <2> QED
      BY <1>1, <2>1 DEF NewEmpty, TypeOK, BlockManagerTypeOK
  <1>8. CASE \/ \E chunk \in 0 .. prompt_len[s] : Admit(s, chunk)
             \/ \E chunk \in 1 .. prompt_len[s] : SchedulePrefill(s, chunk)
             \/ \E lookahead \in 1 .. 1 + MaxDraft : ScheduleDecode(s, lookahead)
             \/ \E drafts \in Drafts : Forward(s, drafts)
    <2>1. token_ids' = token_ids /\ status' = status
      BY <1>8 DEF Admit, allocate, SchedulePrefill, ScheduleDecode, may_append, Forward,
                  bmVars, reqVars
    <2> QED
      BY <2>1 DEF NewEmpty
  <1> QED
    BY <1>2, <1>3, <1>4, <1>5, <1>6, <1>7, <1>8

\* Every step of the paged runtime is one of the private caches, or none at all.
LEMMA StepRefines ==
    ASSUME KVInv, KVInv', NewEmpty, [Next]_vars
    PROVE  [Private!Next]_(Private!cacheVars)
  <1>1. CASE Next
    <2>1. PICK s \in Seqs :
              \/ AddRequest(s)
              \/ \E chunk \in 0 .. prompt_len[s] : Admit(s, chunk)
              \/ \E chunk \in 1 .. prompt_len[s] : SchedulePrefill(s, chunk)
              \/ \E lookahead \in 1 .. 1 + MaxDraft : ScheduleDecode(s, lookahead)
              \/ \E drafts \in Drafts : Forward(s, drafts)
              \/ Commit(s)
              \/ CommitSpeculative(s)
              \/ \E finish \in BOOLEAN : Postprocess(s, finish)
              \/ Abort(s)
              \/ \E torn \in BOOLEAN : Fail(s, torn)
              \/ Forget(s)
      BY <1>1 DEF Next
    <2>2. RefinedAt(s)
      BY <2>1, AddRequestMaps, AdmitMaps, SchedulePrefillMaps, ScheduleDecodeMaps, ForwardMaps,
         CommitMaps, CommitSpeculativeMaps, PostprocessMaps, AbortMaps, FailMaps, ForgetMaps
    <2> QED
      BY <2>2 DEF RefinedAt, Private!Next
  <1>2. CASE UNCHANGED vars
    <2>1. token_ids' = token_ids /\ Memory' = Memory
      BY <1>2 DEF Memory, PrivateMemory, ValidPositions, IsMapped, physical_block_id, Offset,
                  vars, bmVars, metaVars, runVars
    <2> QED
      BY <2>1 DEF Private!cacheVars, Memory
  <1> QED
    BY <1>1, <1>2

\* Paging, sharing, eviction, reuse, rejected drafts and failed forwards are invisible: the
\* runtime implements a cache that each request has to itself, that holds the K/V of its own
\* text and grows at its end while the request lives.
THEOREM RunnerRefinesPrivateCache == Spec => ImplementsPrivateCache
  <1>1. Init => Private!Init
    <2> SUFFICES ASSUME Init
                 PROVE  Private!Init
      OBVIOUS
    <2>1. KVInv
      BY InitKV
    <2>2. \A s \in Seqs : Cached(s) = 0 /\ PrivateMemory(s) = <<>>
      BY <2>1, MemoryIs, NoMemory DEF Cached, Init, BlockManagerInit
    <2> QED
      BY <2>2 DEF Private!Init, Init, BlockManagerInit
  <1>2. Init => NewEmpty
    BY DEF Init, BlockManagerInit, NewEmpty
  <1>3. KVInv /\ NewEmpty /\ [Next]_vars => NewEmpty'
    <2>1. NewEmpty /\ UNCHANGED vars => NewEmpty'
      BY DEF NewEmpty, vars, bmVars, reqVars
    <2> QED
      BY <2>1, NewEmptyStep
  <1>4. KVInv /\ KVInv' /\ NewEmpty /\ [Next]_vars => [Private!Next]_(Private!cacheVars)
    BY StepRefines
  <1> QED
    BY <1>1, <1>2, <1>3, <1>4, ContentsInvariance, PTL
       DEF Spec, ImplementsPrivateCache, Private!Spec

=============================================================================
