--------------------------- MODULE HFRunnerProofs ---------------------------
(***************************************************************************)
(* Theorems about HFRunner, for every model, prompt set, n-gram size, draft *)
(* length and set of terminal tokens.                                      *)
(***************************************************************************)
EXTENDS HFRunner, PagedRunnerProofs

\* The argument of the loaded model's arg max is a token of the vocabulary.
ModelPredictsTokens ==
    \A m \in Models : \A text \in Seq(Tokens) \ {<<>>} : Argmax(m, text) \in Tokens

-----------------------------------------------------------------------------
(* The proposer and the verifier.                                          *)

\* The greatest element of a bounded set is none less than its others.
LEMMA MaxIsBound ==
    ASSUME NEW n \in Nat, NEW S \in SUBSET (0 .. n), NEW x \in S
    PROVE  Max(S) \in S /\ Max(S) >= x
  <1>1. Max(S) \in S
    BY MaxOfBounded
  <1>2. PICK y \in S : \A z \in S : y >= z
    <2> DEFINE D == {n - k : k \in S}
    <2>1. D \subseteq Nat /\ D # {}
      <3>1. \A k \in S : n - k \in Nat
        OBVIOUS
      <3> QED
        BY <3>1
    <2>2. PICK t \in D : \A y \in D : ~ (<<y, t>> \in OpToRel(<, Nat))
      <3> HIDE DEF D
      <3> QED
        BY <2>1, NatLessThanWellFounded, WFMin
    <2>3. PICK y \in S : t = n - y
      BY <2>2
    <2>4. \A z \in S : y >= z
      <3> SUFFICES ASSUME NEW z \in S, z > y
                   PROVE  FALSE
        OBVIOUS
      <3>1. n - z \in D /\ n - z < t /\ n - z \in Nat /\ t \in Nat
        BY <2>3
      <3>2. <<n - z, t>> \in OpToRel(<, Nat)
        BY <3>1 DEF OpToRel
      <3> QED
        BY <2>2, <3>1, <3>2
    <2> QED
      BY <2>3, <2>4
  <1>3. \A z \in S : Max(S) >= z
    BY <1>2 DEF Max
  <1> QED
    BY <1>1, <1>3

\* A non-empty set of naturals has its least element.
LEMMA MinIsBound ==
    ASSUME NEW S \in SUBSET Nat, S # {}
    PROVE  Min(S) \in S /\ \A x \in S : Min(S) <= x
  <1>1. PICK t \in S : \A y \in S : ~ (<<y, t>> \in OpToRel(<, Nat))
    BY NatLessThanWellFounded, WFMin
  <1>2. \A y \in S : t <= y
    <2> SUFFICES ASSUME NEW y \in S, y < t
                 PROVE  FALSE
      OBVIOUS
    <2>1. <<y, t>> \in OpToRel(<, Nat)
      BY DEF OpToRel
    <2> QED
      BY <1>1, <2>1
  <1> QED
    BY <1>2 DEF Min

\* The verifier accepts drafts up to a mismatch.
LEMMA AcceptedMatch ==
    ASSUME NEW drafts \in Seq(Tokens), NEW predicted
    PROVE  /\ Accepted(drafts, predicted) \in 0 .. Len(drafts)
           /\ \A i \in 1 .. Accepted(drafts, predicted) : drafts[i] = predicted[i]
  <1> DEFINE S == {k \in 0 .. Len(drafts) : \A i \in 1 .. k : drafts[i] = predicted[i]}
  <1>1. 0 \in S /\ S \in SUBSET (0 .. Len(drafts)) /\ Len(drafts) \in Nat
    OBVIOUS
  <1> HIDE DEF S
  <1>2. Max(S) \in S
    BY <1>1, MaxOfBounded
  <1> QED
    BY <1>2 DEF S, Accepted

\* A burst is cut behind its first terminal token, and is never cut to nothing.
LEMMA UptoTerminalCuts ==
    ASSUME NEW s \in Seqs, NEW tokens \in Seq(Tokens), Len(tokens) > 0
    PROVE  \E k \in 1 .. Len(tokens) :
                /\ UptoTerminal(s, tokens) = SubSeq(tokens, 1, k)
                /\ \A i \in 1 .. k - 1 : tokens[i] \notin Terminals[s]
  <1> DEFINE Ends == {i \in DOMAIN tokens : tokens[i] \in Terminals[s]}
  <1>1. DOMAIN tokens = 1 .. Len(tokens) /\ Len(tokens) \in Nat /\ tokens = SubSeq(tokens, 1, Len(tokens))
    OBVIOUS
  <1>2. CASE Ends = {}
    <2>1. UptoTerminal(s, tokens) = SubSeq(tokens, 1, Len(tokens))
      BY <1>1, <1>2 DEF UptoTerminal
    <2>2. \A i \in 1 .. Len(tokens) - 1 : tokens[i] \notin Terminals[s]
      BY <1>1, <1>2
    <2>3. Len(tokens) \in 1 .. Len(tokens)
      BY <1>1
    <2> QED
      BY <2>1, <2>2, <2>3
  <1>3. CASE Ends # {}
    <2>1. Ends \in SUBSET Nat
      BY <1>1
    <2>2. Min(Ends) \in Ends /\ \A x \in Ends : Min(Ends) <= x
      <3> HIDE DEF Ends
      <3> QED
        BY <1>3, <2>1, MinIsBound
    <2>3. UptoTerminal(s, tokens) = SubSeq(tokens, 1, Min(Ends))
      BY <1>3 DEF UptoTerminal
    <2>4. Min(Ends) \in 1 .. Len(tokens)
      BY <1>1, <2>2
    <2>5. ASSUME NEW i \in 1 .. Min(Ends) - 1, tokens[i] \in Terminals[s]
          PROVE  FALSE
      <3>1. i \in Ends /\ i \in Nat
        BY <1>1, <2>4, <2>5
      <3>2. Min(Ends) <= i
        BY <2>2, <3>1
      <3> HIDE DEF Ends
      <3> QED
        BY <2>4, <2>5, <3>1, <3>2
    <2> QED
      BY <2>3, <2>4, <2>5
  <1> QED
    BY <1>2, <1>3

\* The sizes of the suffixes that have occurred before.
SizesOf(text) ==
    {n \in MinNgram .. Min({MaxNgram, Len(text) - 1}) : Occurrences(text, n) # {}}

\* What the backward scan finds: the latest occurrence of the longest such suffix.
LatestOccurrence(text, n, i) ==
    /\ i \in Occurrences(text, n)
    /\ i \in Nat /\ i + n < Len(text)
    /\ \A j \in Occurrences(text, n) : j <= i

LEMMA OccursBefore ==
    ASSUME NEW text \in Seq(Tokens), NEW n \in Nat, Occurrences(text, n) # {}
    PROVE  LatestOccurrence(text, n, Max(Occurrences(text, n)))
  <1> DEFINE S == Occurrences(text, n)
  <1>1. S \subseteq 0 .. Len(text) - n - 1 /\ Len(text) \in Nat
    BY DEF Occurrences
  <1>2. S \in SUBSET (0 .. Len(text))
    BY <1>1
  <1> HIDE DEF S
  <1>3. Max(S) \in S /\ \A j \in S : j <= Max(S)
    <2>1. \A j \in S : Max(S) \in S /\ Max(S) >= j
      BY <1>1, <1>2, MaxIsBound
    <2>2. S # {}
      BY DEF S
    <2>3. \A j \in S : j \in Nat
      BY <1>2
    <2>4. Max(S) \in S
      BY <2>1, <2>2
    <2> QED
      BY <2>1, <2>3, <2>4
  <1>4. Max(S) \in Nat /\ Max(S) + n < Len(text)
    <2>1. Max(S) \in 0 .. Len(text) - n - 1
      BY <1>1, <1>3
    <2> QED
      BY <1>1, <2>1
  <1> QED
    BY <1>3, <1>4 DEF S, LatestOccurrence

LEMMA LongestSize ==
    ASSUME NEW text \in Seq(Tokens), SizesOf(text) # {}
    PROVE  /\ Max(SizesOf(text)) \in SizesOf(text)
           /\ \A n \in SizesOf(text) : n <= Max(SizesOf(text))
           /\ SizesOf(text) \subseteq Nat \ {0}
           /\ \A n \in SizesOf(text) : n \in MinNgram .. MaxNgram
  <1> DEFINE top == Min({MaxNgram, Len(text) - 1})
             S == SizesOf(text)
  <1>1. MinNgram \in Nat \ {0} /\ MaxNgram \in Nat /\ Len(text) \in Nat
    BY NgramAssumption
  <1>2. top \in Int /\ top <= MaxNgram
    BY <1>1, MinOfTwo
  <1> HIDE DEF top
  <1>3. S \subseteq MinNgram .. top
    BY DEF SizesOf, top
  <1>4. S \in SUBSET (0 .. MaxNgram)
    BY <1>1, <1>2, <1>3
  <1> HIDE DEF S
  <1>5. \A n \in S : Max(S) \in S /\ Max(S) >= n
    BY <1>1, <1>4, MaxIsBound
  <1>6. S # {}
    BY DEF S
  <1>7. \A n \in S : n \in Nat \ {0} /\ n \in MinNgram .. MaxNgram
    BY <1>1, <1>2, <1>3
  <1>8. Max(S) \in S
    BY <1>5, <1>6
  <1>9. \A n \in S : n <= Max(S)
    BY <1>5, <1>7, <1>8
  <1> QED
    BY <1>7, <1>8, <1>9 DEF S

\* The proposal is what followed there.
LEMMA ProposeFollows ==
    ASSUME NEW text \in Seq(Tokens), NEW max_tokens \in Nat
    PROVE  IF SizesOf(text) = {} THEN propose(text, max_tokens) = <<>>
           ELSE \E n \in SizesOf(text), i \in Nat :
                    /\ \A m \in SizesOf(text) : m <= n
                    /\ LatestOccurrence(text, n, i)
                    /\ propose(text, max_tokens)
                            = SubSeq(text, i + n + 1, Min({Len(text), i + n + max_tokens}))
  <1>1. CASE SizesOf(text) = {}
    BY <1>1 DEF SizesOf, propose
  <1>2. CASE SizesOf(text) # {}
    <2> DEFINE n == Max(SizesOf(text))
               i == Max(Occurrences(text, n))
    <2>1. n \in SizesOf(text) /\ n \in Nat /\ \A m \in SizesOf(text) : m <= n
      BY <1>2, LongestSize
    <2>2. Occurrences(text, n) # {}
      BY <2>1 DEF SizesOf
    <2>3. LatestOccurrence(text, n, i)
      <3> HIDE DEF n
      <3> QED
        BY <2>1, <2>2, OccursBefore
    <2>4. i \in Nat
      BY <2>3 DEF LatestOccurrence
    <2>5. propose(text, max_tokens)
                = SubSeq(text, i + n + 1, Min({Len(text), i + n + max_tokens}))
      BY <1>2 DEF SizesOf, propose
    <2> HIDE DEF n, i
    <2> QED
      BY <1>2, <2>1, <2>3, <2>4, <2>5
  <1> QED
    BY <1>1, <1>2

\* It is part of the text, and no longer than asked for.
LEMMA ProposeTypes ==
    ASSUME NEW text \in Seq(Tokens), NEW max_tokens \in Nat
    PROVE  /\ propose(text, max_tokens) \in Seq(Tokens)
           /\ Len(propose(text, max_tokens)) <= max_tokens
  <1>1. CASE SizesOf(text) = {}
    <2>1. propose(text, max_tokens) = <<>>
      BY <1>1, ProposeFollows
    <2> QED
      BY <2>1
  <1>2. CASE SizesOf(text) # {}
    <2>1. PICK n \in SizesOf(text), i \in Nat :
                /\ LatestOccurrence(text, n, i)
                /\ propose(text, max_tokens)
                        = SubSeq(text, i + n + 1, Min({Len(text), i + n + max_tokens}))
      BY <1>2, ProposeFollows
    <2>2. n \in Nat
      BY <1>2, LongestSize
    <2> DEFINE to == Min({Len(text), i + n + max_tokens})
    <2>3. to \in Nat /\ to <= Len(text) /\ to <= i + n + max_tokens /\ Len(text) \in Nat
      BY <2>2, MinOfTwo
    <2> HIDE DEF to
    <2>4. i + n + 1 \in Nat \ {0}
      BY <2>2
    <2>5. /\ SubSeq(text, i + n + 1, to) \in Seq(Tokens)
          /\ Len(SubSeq(text, i + n + 1, to)) = IF i + n + 1 <= to THEN to - (i + n + 1) + 1 ELSE 0
      BY <2>3, <2>4, SubTextType
    <2>6. Len(SubSeq(text, i + n + 1, to)) <= max_tokens
      BY <2>2, <2>3, <2>5
    <2> QED
      BY <2>1, <2>5, <2>6 DEF to
  <1> QED
    BY <1>1, <1>2

\* Where the last n tokens of a text have occurred before.
LEMMA RepeatsSizes ==
    ASSUME NEW text \in Seq(Tokens), NEW n \in MinNgram .. MaxNgram, NEW i \in 0 .. Len(text),
           i + n < Len(text),
           SubSeq(text, i + 1, i + n) = SubSeq(text, Len(text) - n + 1, Len(text))
    PROVE  n \in SizesOf(text)
  <1>1. MinNgram \in Nat \ {0} /\ MaxNgram \in Nat /\ Len(text) \in Nat /\ n \in Nat
    BY NgramAssumption
  <1>2. i \in Occurrences(text, n)
    <2>1. i \in 0 .. Len(text) - n - 1
      BY <1>1
    <2> QED
      BY <2>1 DEF Occurrences
  <1>3. n \in MinNgram .. Min({MaxNgram, Len(text) - 1})
    <2>1. Min({MaxNgram, Len(text) - 1}) = IF MaxNgram <= Len(text) - 1 THEN MaxNgram ELSE Len(text) - 1
      BY <1>1, MinOfTwo
    <2> QED
      BY <1>1, <2>1
  <1> QED
    BY <1>2, <1>3 DEF SizesOf

\* A slice of one token.
LEMMA SingleSlice ==
    ASSUME NEW text \in Seq(Tokens), NEW j \in 1 .. Len(text)
    PROVE  SubSeq(text, j, j) = <<text[j]>>
  <1>1. j \in Int /\ (\A k \in j .. j : text[k] \in Tokens)
    OBVIOUS
  <1>2. /\ SubSeq(text, j, j) \in Seq(Tokens)
        /\ Len(SubSeq(text, j, j)) = IF j <= j THEN j - j + 1 ELSE 0
        /\ \A k \in 1 .. j - j + 1 : SubSeq(text, j, j)[k] = text[j + k - 1]
    BY <1>1, SubSeqProperties
  <1>3. PICK u \in Seq(Tokens) : SubSeq(text, j, j) = u /\ Len(u) = 1 /\ u[1] = text[j]
    <2>1. Len(SubSeq(text, j, j)) = 1
      BY <1>1, <1>2
    <2>2. SubSeq(text, j, j)[1] = text[j]
      BY <1>1, <1>2
    <2> QED
      BY <1>2, <2>1, <2>2
  <1>4. u = <<text[j]>>
    BY <1>3
  <1> QED
    BY <1>3, <1>4

\* A proposal of one token is the one behind the latest occurrence.
LEMMA ProposeOne ==
    ASSUME NEW text \in Seq(Tokens), SizesOf(text) # {}
    PROVE  \E n \in SizesOf(text), i \in 0 .. Len(text) :
                /\ \A m \in SizesOf(text) : m <= n
                /\ i + n < Len(text)
                /\ SubSeq(text, i + 1, i + n) = SubSeq(text, Len(text) - n + 1, Len(text))
                /\ propose(text, 1) = <<text[i + n + 1]>>
  <1>1. PICK n \in SizesOf(text), i \in Nat :
                /\ \A m \in SizesOf(text) : m <= n
                /\ LatestOccurrence(text, n, i)
                /\ propose(text, 1) = SubSeq(text, i + n + 1, Min({Len(text), i + n + 1}))
    BY ProposeFollows
  <1>2. n \in Nat /\ Len(text) \in Nat
    BY LongestSize
  <1>3. i + n < Len(text) /\ i \in Occurrences(text, n)
    BY <1>1 DEF LatestOccurrence
  <1>4. SubSeq(text, i + 1, i + n) = SubSeq(text, Len(text) - n + 1, Len(text))
    BY <1>3 DEF Occurrences
  <1>5. Min({Len(text), i + n + 1}) = i + n + 1
    BY <1>2, <1>3, MinOfTwo
  <1> DEFINE j == i + n + 1
  <1>6. j \in 1 .. Len(text) /\ propose(text, 1) = SubSeq(text, j, j)
    <2>1. propose(text, 1) = SubSeq(text, j, j)
      BY <1>1, <1>5
    <2>2. j \in 1 .. Len(text)
      BY <1>2, <1>3
    <2> QED
      BY <2>1, <2>2
  <1> HIDE DEF j
  <1>7. SubSeq(text, j, j) = <<text[j]>>
    BY <1>6, SingleSlice
  <1>8. i \in 0 .. Len(text)
    BY <1>2, <1>3
  <1> QED
    BY <1>1, <1>3, <1>4, <1>6, <1>7, <1>8 DEF j

\* No repetition is missed, in any text.
LEMMA RepeatsDrafted == TypeOK => RepeatsAreDrafted
  <1> SUFFICES ASSUME TypeOK, NEW s \in Seqs, NEW n \in MinNgram .. MaxNgram,
                      NEW i \in 0 .. Len(token_ids[s]),
                      i + n < Len(token_ids[s]),
                      SubSeq(token_ids[s], i + 1, i + n)
                        = SubSeq(token_ids[s], Len(token_ids[s]) - n + 1, Len(token_ids[s]))
               PROVE  \E m \in n .. MaxNgram : \E j \in 0 .. Len(token_ids[s]) :
                        /\ j + m < Len(token_ids[s])
                        /\ SubSeq(token_ids[s], j + 1, j + m)
                            = SubSeq(token_ids[s], Len(token_ids[s]) - m + 1, Len(token_ids[s]))
                        /\ propose(token_ids[s], 1) = <<token_ids[s][j + m + 1]>>
    BY DEF RepeatsAreDrafted
  <1>1. token_ids[s] \in Seq(Tokens)
    BY DEF TypeOK, BlockManagerTypeOK
  <1>2. n \in SizesOf(token_ids[s])
    BY <1>1, RepeatsSizes
  <1>3. PICK m \in SizesOf(token_ids[s]), j \in 0 .. Len(token_ids[s]) :
            /\ \A k \in SizesOf(token_ids[s]) : k <= m
            /\ j + m < Len(token_ids[s])
            /\ SubSeq(token_ids[s], j + 1, j + m)
                    = SubSeq(token_ids[s], Len(token_ids[s]) - m + 1, Len(token_ids[s]))
            /\ propose(token_ids[s], 1) = <<token_ids[s][j + m + 1]>>
    BY <1>1, <1>2, ProposeOne
  <1>4. m \in MinNgram .. MaxNgram
    BY <1>1, <1>2, LongestSize
  <1>5. n <= m
    BY <1>2, <1>3
  <1>6. m \in n .. MaxNgram
    BY <1>4, <1>5, NgramAssumption
  <1> QED
    BY <1>3, <1>6

-----------------------------------------------------------------------------
(* Bursts and reservations.                                                *)

\* A decode reserves slots for one token at least, and for the drafts it may have.
LEMMA LookaheadType ==
    ASSUME NEW s \in Seqs, num_generated(s) \in Nat
    PROVE  /\ HFLookahead(s) \in 1 .. 1 + MaxDraft
           /\ num_generated(s) < MaxTokens /\ MaxDraft > 0 /\ s \in Greedy \ StopStrings
                => HFLookahead(s) = IF 1 + MaxDraft <= MaxTokens - num_generated(s)
                                    THEN 1 + MaxDraft ELSE MaxTokens - num_generated(s)
  <1> DEFINE left == MaxTokens - num_generated(s)
  <1>1. left \in Int /\ MaxDraft \in Nat /\ MaxTokens \in Nat
    BY MaxTokensAssumption, MaxDraftAssumption
  <1>2. num_generated(s) < MaxTokens => left >= 1
    BY <1>1
  <1>3. HFLookahead(s) = IF MaxDraft > 0 /\ s \in Greedy \ StopStrings
                         THEN Min({1 + MaxDraft, Max({1, left})}) ELSE 1
    BY DEF HFLookahead
  <1> HIDE DEF left
  <1>4. Max({1, left}) = IF 1 <= left THEN left ELSE 1
    BY <1>1, MaxOfTwo
  <1>5. Min({1 + MaxDraft, Max({1, left})})
            = IF 1 + MaxDraft <= Max({1, left}) THEN 1 + MaxDraft ELSE Max({1, left})
    BY <1>1, <1>4, MinOfTwo
  <1>6. HFLookahead(s) \in 1 .. 1 + MaxDraft
    BY <1>1, <1>3, <1>4, <1>5
  <1>7. num_generated(s) < MaxTokens /\ MaxDraft > 0 /\ s \in Greedy \ StopStrings
            => HFLookahead(s) = IF 1 + MaxDraft <= left THEN 1 + MaxDraft ELSE left
    BY <1>1, <1>2, <1>3, <1>4, <1>5
  <1> QED
    BY <1>6, <1>7 DEF left

\* The drafts and the model's own token fit the reservation and the limit.
LEMMA DraftsBounded ==
    ASSUME NEW s \in Seqs, token_ids[s] \in Seq(Tokens), num_generated(s) \in Nat
    PROVE  /\ DraftsFor(s) \in Seq(Tokens)
           /\ num_generated(s) < MaxTokens =>
                /\ Len(DraftsFor(s)) + 1 <= HFLookahead(s)
                /\ Len(DraftsFor(s)) + 1 <= MaxTokens - num_generated(s)
           /\ DraftsFor(s) # <<>> => s \in Greedy
  <1> DEFINE left == MaxTokens - num_generated(s)
             most == Min({MaxDraft, left - 1})
  <1>1. left \in Int /\ MaxDraft \in Nat /\ MaxTokens \in Nat
    BY MaxTokensAssumption, MaxDraftAssumption
  <1>2. num_generated(s) < MaxTokens => left >= 1
    BY <1>1
  <1>3. HFLookahead(s) \in Nat /\ HFLookahead(s) >= 1
    BY LookaheadType, <1>1
  <1>4. CASE DraftsFor(s) = <<>>
    <2>1. Len(DraftsFor(s)) = 0 /\ DraftsFor(s) \in Seq(Tokens)
      BY <1>4
    <2> QED
      BY <1>1, <1>2, <1>3, <1>4, <2>1
  <1>5. CASE DraftsFor(s) # <<>>
    <2>1. /\ ~ (left <= 1) /\ s \in Greedy \ StopStrings
          /\ DraftsFor(s) = propose(token_ids[s], most)
      BY <1>5 DEF DraftsFor
    <2>2. most \in Nat /\ most <= MaxDraft /\ most <= left - 1
      BY <1>1, <2>1, MinOfTwo
    <2> HIDE DEF most
    <2>3. DraftsFor(s) \in Seq(Tokens) /\ Len(DraftsFor(s)) <= most
      BY <2>1, <2>2, ProposeTypes
    <2>4. Len(DraftsFor(s)) \in Nat /\ Len(DraftsFor(s)) > 0
      BY <1>5, <2>3
    <2>5. MaxDraft > 0
      BY <1>1, <2>2, <2>3, <2>4
    <2>6. num_generated(s) < MaxTokens =>
                HFLookahead(s) = IF 1 + MaxDraft <= left THEN 1 + MaxDraft ELSE left
      BY <2>1, <2>5, LookaheadType
    <2> HIDE DEF left
    <2>7. Len(DraftsFor(s)) + 1 <= left
      BY <1>1, <2>2, <2>3, <2>4
    <2>8. num_generated(s) < MaxTokens => Len(DraftsFor(s)) + 1 <= HFLookahead(s)
      BY <1>1, <2>2, <2>3, <2>4, <2>6
    <2> QED
      BY <2>1, <2>3, <2>7, <2>8 DEF left
  <1> QED
    BY <1>4, <1>5

-----------------------------------------------------------------------------
(* What a burst consists of.                                               *)

\* One text behind another.
IsJoint(whole, s1, n1, s2, n2) ==
    /\ s1 \o s2 = whole /\ Len(whole) = n1 + n2
    /\ \A j \in 1 .. n1 : whole[j] = s1[j]
    /\ \A j \in 1 .. n2 : whole[n1 + j] = s2[j]

LEMMA Joined ==
    ASSUME NEW s1 \in Seq(Tokens), NEW s2 \in Seq(Tokens),
           NEW n1 \in Nat, NEW n2 \in Nat, Len(s1) = n1, Len(s2) = n2
    PROVE  \E whole \in Seq(Tokens) : IsJoint(whole, s1, n1, s2, n2)
  <1>1. PICK whole \in Seq(Tokens) : s1 \o s2 = whole
    BY ConcatProperties
  <1>2. /\ Len(whole) = Len(s1) + Len(s2)
        /\ \A i \in 1 .. Len(s1) + Len(s2) :
                whole[i] = IF i <= Len(s1) THEN s1[i] ELSE s2[i - Len(s1)]
    BY <1>1, ConcatProperties
  <1>3. \A i \in 1 .. n1 + n2 : whole[i] = IF i <= n1 THEN s1[i] ELSE s2[i - n1]
    BY <1>2
  <1>4. \A j \in 1 .. n1 : whole[j] = s1[j]
    BY <1>3
  <1>5. ASSUME NEW j \in 1 .. n2
        PROVE  whole[n1 + j] = s2[j]
    <2>1. n1 + j \in 1 .. n1 + n2 /\ ~ (n1 + j <= n1) /\ (n1 + j) - n1 = j
      OBVIOUS
    <2> QED
      BY <1>3, <2>1
  <1> QED
    BY <1>1, <1>2, <1>4, <1>5 DEF IsJoint

\* A prefix that reaches into what follows a text.
LEMMA PrefixBehind ==
    ASSUME NEW text \in Seq(Tokens), NEW u \in Seq(Tokens), NEW i \in 0 .. Len(u),
           NEW n \in Nat, Len(text) + i = n
    PROVE  SubSeq(text \o u, 1, n) = text \o SubSeq(u, 1, i)
  <1>1. PICK old \in Nat, m \in Nat : Len(text) = old /\ Len(u) = m
    OBVIOUS
  <1>2. i \in Nat /\ i <= m /\ old + i = n /\ n <= old + m
    BY <1>1
  <1>3. PICK whole \in Seq(Tokens) : IsJoint(whole, text, old, u, m)
    BY <1>1, Joined
  <1>4. n \in 0 .. Len(whole)
    BY <1>1, <1>2, <1>3 DEF IsJoint
  <1>5. PICK left \in Seq(Tokens) :
            /\ SubSeq(whole, 1, n) = left /\ Len(left) = n
            /\ \A j \in 1 .. n : left[j] = whole[j]
    BY <1>4, PrefixProperties
  <1>6. PICK part \in Seq(Tokens) :
            /\ SubSeq(u, 1, i) = part /\ Len(part) = i
            /\ \A j \in 1 .. i : part[j] = u[j]
    BY <1>1, <1>2, PrefixProperties
  <1>7. PICK right \in Seq(Tokens) : IsJoint(right, text, old, part, i)
    BY <1>1, <1>2, <1>6, Joined
  <1>8. ASSUME NEW j \in 1 .. n
        PROVE  left[j] = right[j]
    <2>1. CASE j \in 1 .. old
      BY <1>3, <1>5, <1>7, <2>1 DEF IsJoint
    <2>2. CASE j > old
      <3>1. PICK k \in 1 .. i : j = old + k
        <4>1. j - old \in 1 .. i /\ j = old + (j - old)
          BY <1>2, <2>2
        <4> QED
          BY <4>1
      <3>2. k \in 1 .. m
        BY <1>2
      <3>3. right[old + k] = u[k] /\ whole[old + k] = u[k]
        BY <1>3, <1>6, <1>7, <3>2 DEF IsJoint
      <3> QED
        BY <1>5, <3>1, <3>3
    <2> QED
      BY <2>1, <2>2
  <1>9. Len(left) = n /\ Len(right) = n
    BY <1>2, <1>5, <1>7 DEF IsJoint
  <1>10. left = right
    BY <1>8, <1>9, SameText
  <1> QED
    BY <1>3, <1>5, <1>6, <1>7, <1>10 DEF IsJoint

\* All but the last token of a text, and the last.
LEMMA LastBehind ==
    ASSUME NEW text \in Seq(Tokens), Len(text) > 0
    PROVE  /\ text[Len(text)] \in Tokens
           /\ SubSeq(text, 1, Len(text) - 1) \o <<text[Len(text)]>> = text
           /\ Append(SubSeq(text, 1, Len(text) - 1), text[Len(text)]) = text
  <1>1. PICK m \in Nat : Len(text) = m + 1
    <2>1. Len(text) - 1 \in Nat /\ Len(text) = (Len(text) - 1) + 1
      OBVIOUS
    <2> QED
      BY <2>1
  <1>2. m \in 0 .. Len(text) /\ Len(text) - 1 = m
    BY <1>1
  <1>3. PICK part \in Seq(Tokens) :
            /\ SubSeq(text, 1, m) = part /\ Len(part) = m
            /\ \A j \in 1 .. m : part[j] = text[j]
    BY <1>2, PrefixProperties
  <1>4. PICK x \in Tokens : text[m + 1] = x
    BY <1>1
  <1>5. PICK u \in Seq(Tokens) : <<x>> = u /\ Len(u) = 1 /\ u[1] = x
    <2>1. <<x>> \in Seq(Tokens) /\ Len(<<x>>) = 1 /\ <<x>>[1] = x
      OBVIOUS
    <2> QED
      BY <2>1
  <1>6. PICK whole \in Seq(Tokens) : IsJoint(whole, part, m, u, 1)
    BY <1>3, <1>5, Joined
  <1>7. \A j \in 1 .. m + 1 : whole[j] = text[j]
    <2>1. whole[m + 1] = text[m + 1]
      BY <1>4, <1>5, <1>6 DEF IsJoint
    <2>2. \A j \in 1 .. m : whole[j] = text[j]
      BY <1>3, <1>6 DEF IsJoint
    <2>3. \A j \in 1 .. m + 1 : j \in 1 .. m \/ j = m + 1
      OBVIOUS
    <2> QED
      BY <2>1, <2>2, <2>3
  <1>8. whole = text
    BY <1>1, <1>6, <1>7, SameText DEF IsJoint
  <1>9. Append(part, x) = part \o <<x>>
    BY <1>3
  <1>10. SubSeq(text, 1, Len(text) - 1) = part /\ text[Len(text)] = x
    BY <1>1, <1>2, <1>3, <1>4
  <1> QED
    BY <1>5, <1>6, <1>8, <1>9, <1>10 DEF IsJoint

\* What the forward pass of a burst is fed and predicts, and what is emitted.
Output(s) == kv_cache[s] \o <<last_token(s)>> \o DraftsFor(s)

Predicted(s) ==
    [i \in 1 .. Len(DraftsFor(s)) + 1 |->
        Argmax(model, SubSeq(Output(s), 1, Len(kv_cache[s]) + i))]

AcceptedOf(s) == Accepted(DraftsFor(s), Predicted(s))

Emitted(s) ==
    UptoTerminal(s, SubSeq(DraftsFor(s), 1, AcceptedOf(s)) \o <<Predicted(s)[AcceptedOf(s) + 1]>>)

LEMMA SpeculativeStep ==
    ASSUME NEW s \in Seqs, RunSpeculative(s)
    PROVE  /\ work[s] = "scheduled" /\ ~ IsPrefilling(s)
           /\ append_and_record(s, Emitted(s))
           /\ kv_cache' = [kv_cache EXCEPT ![s] =
                    SubSeq(Output(s), 1, Len(kv_cache[s]) + Len(Emitted(s)))]
           /\ Ran(s)
           /\ DraftsFor(s) # <<>>
  BY DEF RunSpeculative, KeepLength, Emitted, AcceptedOf, Predicted, Output

\* A burst behind a text: each token is what the model predicts behind the text and
\* the tokens before it, and only the last may be terminal.
IsBurst(s, text, tokens) ==
    /\ tokens \in Seq(Tokens)
    /\ Len(tokens) \in 1 .. Len(DraftsFor(s)) + 1
    /\ \A i \in 1 .. Len(tokens) - 1 : tokens[i] \notin Terminals[s]
    /\ \A i \in 1 .. Len(tokens) : tokens[i] = Argmax(model, text \o SubSeq(tokens, 1, i - 1))

\* The cache of all but the last token, the last token and the drafts.
LEMMA OutputIsText ==
    ASSUME NEW s \in Seqs, NEW text \in Seq(Tokens), Len(text) > 0, token_ids[s] = text,
           kv_cache[s] = SubSeq(text, 1, Len(text) - 1)
    PROVE  /\ Output(s) = text \o DraftsFor(s)
           /\ Len(kv_cache[s]) = Len(text) - 1
  <1>1. SubSeq(text, 1, Len(text) - 1) \o <<text[Len(text)]>> = text
    BY LastBehind
  <1>2. last_token(s) = text[Len(text)]
    BY DEF last_token
  <1>3. Len(text) - 1 \in 0 .. Len(text)
    OBVIOUS
  <1>4. Len(SubSeq(text, 1, Len(text) - 1)) = Len(text) - 1
    BY <1>3, PrefixProperties
  <1> QED
    BY <1>1, <1>2, <1>4 DEF Output

\* The i-th prediction is behind the text and i - 1 drafts.
LEMMA PredictedBehind ==
    ASSUME NEW s \in Seqs, NEW text \in Seq(Tokens), Len(text) > 0, token_ids[s] = text,
           kv_cache[s] = SubSeq(text, 1, Len(text) - 1),
           DraftsFor(s) \in Seq(Tokens), ModelPredictsTokens, model \in Models,
           NEW i \in 1 .. Len(DraftsFor(s)) + 1
    PROVE  /\ Predicted(s)[i] = Argmax(model, text \o SubSeq(DraftsFor(s), 1, i - 1))
           /\ Predicted(s)[i] \in Tokens
           /\ SubSeq(Output(s), 1, Len(kv_cache[s]) + i) = text \o SubSeq(DraftsFor(s), 1, i - 1)
  <1>1. PICK drafts \in Seq(Tokens) : DraftsFor(s) = drafts
    OBVIOUS
  <1>2. PICK n \in Nat, old \in Nat : Len(drafts) = n /\ Len(text) = old /\ old > 0
    OBVIOUS
  <1>3. i - 1 \in 0 .. Len(drafts) /\ old + (i - 1) \in Nat /\ (old - 1) + i = old + (i - 1)
    BY <1>1, <1>2
  <1>4. SubSeq(text \o drafts, 1, old + (i - 1)) = text \o SubSeq(drafts, 1, i - 1)
    <2> DEFINE k == i - 1
               n1 == old + k
    <2>1. k \in 0 .. Len(drafts) /\ n1 \in Nat /\ Len(text) + k = n1
      BY <1>2, <1>3
    <2> HIDE DEF k, n1
    <2>2. \A u \in Seq(Tokens) : \A j \in 0 .. Len(u), m \in Nat :
            Len(text) + j = m => SubSeq(text \o u, 1, m) = text \o SubSeq(u, 1, j)
      BY PrefixBehind
    <2>3. SubSeq(text \o drafts, 1, n1) = text \o SubSeq(drafts, 1, k)
      BY <2>1, <2>2, Zenon
    <2> QED
      BY <2>3 DEF k, n1
  <1>5. SubSeq(Output(s), 1, Len(kv_cache[s]) + i) = text \o SubSeq(drafts, 1, i - 1)
    <2>1. Output(s) = text \o drafts /\ Len(kv_cache[s]) = old - 1
      BY <1>1, <1>2, OutputIsText
    <2>2. Len(kv_cache[s]) + i = old + (i - 1)
      BY <1>3, <2>1
    <2> QED
      BY <1>4, <2>1, <2>2
  <1>6. Predicted(s)[i] = Argmax(model, SubSeq(Output(s), 1, Len(kv_cache[s]) + i))
    BY DEF Predicted
  <1>7. Predicted(s)[i] = Argmax(model, text \o SubSeq(drafts, 1, i - 1))
    BY <1>5, <1>6
  <1>8. PICK part \in Seq(Tokens) : SubSeq(drafts, 1, i - 1) = part
    BY <1>3, PrefixProperties
  <1>9. text \o part \in Seq(Tokens) \ {<<>>}
    <2>1. text \o part \in Seq(Tokens) /\ Len(text \o part) = Len(text) + Len(part)
      BY ConcatProperties
    <2>2. Len(text \o part) > 0
      BY <1>2, <2>1
    <2> QED
      BY <2>1, <2>2
  <1>10. Predicted(s)[i] \in Tokens
    BY <1>7, <1>8, <1>9 DEF ModelPredictsTokens
  <1> QED
    BY <1>1, <1>5, <1>7, <1>10

\* The burst that is emitted, and the cache that is kept of the pass.
LEMMA BurstIsPredicted ==
    ASSUME NEW s \in Seqs, NEW text \in Seq(Tokens), Len(text) > 0, token_ids[s] = text,
           kv_cache[s] = SubSeq(text, 1, Len(text) - 1),
           DraftsFor(s) \in Seq(Tokens), ModelPredictsTokens, model \in Models
    PROVE  /\ IsBurst(s, text, Emitted(s))
           /\ SubSeq(Output(s), 1, Len(kv_cache[s]) + Len(Emitted(s)))
                = text \o SubSeq(Emitted(s), 1, Len(Emitted(s)) - 1)
  <1>1. PICK drafts \in Seq(Tokens), n \in Nat : DraftsFor(s) = drafts /\ Len(drafts) = n
    OBVIOUS
  <1>2. PICK a \in 0 .. n : /\ AcceptedOf(s) = a
                            /\ \A i \in 1 .. a : drafts[i] = Predicted(s)[i]
    BY <1>1, AcceptedMatch DEF AcceptedOf
  <1>3. \A i \in 1 .. n + 1 :
            /\ Predicted(s)[i] = Argmax(model, text \o SubSeq(drafts, 1, i - 1))
            /\ Predicted(s)[i] \in Tokens
            /\ SubSeq(Output(s), 1, Len(kv_cache[s]) + i) = text \o SubSeq(drafts, 1, i - 1)
    BY <1>1, PredictedBehind
  <1>4. a + 1 \in 1 .. n + 1 /\ a \in 0 .. Len(drafts) /\ a \in Nat
    BY <1>1
  <1>5. PICK own \in Tokens : Predicted(s)[a + 1] = own
    BY <1>3, <1>4
  <1>6. PICK part \in Seq(Tokens) :
            /\ SubSeq(drafts, 1, a) = part /\ Len(part) = a
            /\ \A j \in 1 .. a : part[j] = drafts[j]
    BY <1>4, PrefixProperties
  <1>7. PICK last \in Seq(Tokens) : <<own>> = last /\ Len(last) = 1 /\ last[1] = own
    <2>1. <<own>> \in Seq(Tokens) /\ Len(<<own>>) = 1 /\ <<own>>[1] = own
      OBVIOUS
    <2> QED
      BY <2>1
  <1>8. PICK all \in Seq(Tokens) : IsJoint(all, part, a, last, 1)
    BY <1>4, <1>6, <1>7, Joined
  <1>9. /\ Len(all) = a + 1 /\ all[a + 1] = own
        /\ \A j \in 1 .. a : all[j] = drafts[j]
    BY <1>6, <1>7, <1>8 DEF IsJoint
  <1>10. Emitted(s) = UptoTerminal(s, all)
    BY <1>1, <1>2, <1>5, <1>6, <1>7, <1>8 DEF Emitted, IsJoint
  <1>11. PICK k \in 1 .. a + 1 :
            /\ Emitted(s) = SubSeq(all, 1, k)
            /\ \A i \in 1 .. k - 1 : all[i] \notin Terminals[s]
    <2>1. Len(all) > 0
      BY <1>4, <1>9
    <2> QED
      BY <1>9, <1>10, <2>1, UptoTerminalCuts
  <1>12. k \in 0 .. Len(all) /\ k \in 1 .. n + 1 /\ k - 1 \in 0 .. n
    BY <1>4, <1>9
  <1>13. PICK tokens \in Seq(Tokens) :
            /\ Emitted(s) = tokens /\ Len(tokens) = k
            /\ \A j \in 1 .. k : tokens[j] = all[j]
    BY <1>11, <1>12, PrefixProperties
  <1>14. ASSUME NEW i \in 1 .. k
         PROVE  /\ tokens[i] = Predicted(s)[i]
                /\ SubSeq(tokens, 1, i - 1) = SubSeq(drafts, 1, i - 1)
    <2>1. i \in 1 .. a + 1 /\ i \in 1 .. n + 1 /\ i - 1 \in 0 .. Len(drafts)
          /\ i - 1 \in 0 .. Len(tokens) /\ i - 1 \in Nat
      BY <1>1, <1>4, <1>12, <1>13
    <2>2. tokens[i] = Predicted(s)[i]
      <3>1. CASE i \in 1 .. a
        BY <1>2, <1>9, <1>13, <3>1
      <3>2. CASE i = a + 1
        BY <1>5, <1>9, <1>13, <3>2
      <3> QED
        BY <2>1, <3>1, <3>2
    <2>3. PICK t1 \in Seq(Tokens) :
            /\ SubSeq(tokens, 1, i - 1) = t1 /\ Len(t1) = i - 1
            /\ \A j \in 1 .. i - 1 : t1[j] = tokens[j]
      BY <2>1, PrefixProperties
    <2>4. PICK t2 \in Seq(Tokens) :
            /\ SubSeq(drafts, 1, i - 1) = t2 /\ Len(t2) = i - 1
            /\ \A j \in 1 .. i - 1 : t2[j] = drafts[j]
      BY <2>1, PrefixProperties
    <2>5. \A j \in 1 .. i - 1 : t1[j] = t2[j]
      <3>1. \A j \in 1 .. i - 1 : j \in 1 .. a /\ j \in 1 .. k
        BY <2>1, <1>4, <1>12
      <3> QED
        BY <1>9, <1>13, <2>3, <2>4, <3>1
    <2>6. t1 = t2
      BY <2>1, <2>3, <2>4, <2>5, SameText
    <2> QED
      BY <2>2, <2>3, <2>4, <2>6
  <1>15. \A i \in 1 .. k : tokens[i] = Argmax(model, text \o SubSeq(tokens, 1, i - 1))
    <2> SUFFICES ASSUME NEW i \in 1 .. k
                 PROVE  tokens[i] = Argmax(model, text \o SubSeq(tokens, 1, i - 1))
      OBVIOUS
    <2>1. i \in 1 .. n + 1
      BY <1>12
    <2> QED
      BY <1>3, <1>14, <2>1
  <1>16. \A i \in 1 .. k - 1 : tokens[i] \notin Terminals[s]
    <2> SUFFICES ASSUME NEW i \in 1 .. k - 1
                 PROVE  tokens[i] \notin Terminals[s]
      OBVIOUS
    <2>1. i \in 1 .. k
      BY <1>12
    <2>2. tokens[i] = all[i]
      BY <1>13, <2>1
    <2> QED
      BY <1>11, <2>2
  <1>17. IsBurst(s, text, tokens)
    BY <1>1, <1>12, <1>13, <1>15, <1>16 DEF IsBurst
  <1>18. k \in 1 .. k
    OBVIOUS
  <1>19. SubSeq(Output(s), 1, Len(kv_cache[s]) + k) = text \o SubSeq(tokens, 1, k - 1)
    BY <1>3, <1>12, <1>14, <1>18
  <1> QED
    BY <1>13, <1>17, <1>19

-----------------------------------------------------------------------------
(* The inductive invariant.                                                *)

\* How much of a request's text its cache covers.
Covered(s) ==
    IF num_generated(s) > 0 THEN Len(token_ids[s]) - 1
    ELSE num_computed[s] + (IF work[s] = "done" THEN num_tokens[s] ELSE 0)

CacheOf(s) ==
    IF status[s] = "ACTIVE" /\ block_table[s] # <<>>
    THEN kv_cache[s] = SubSeq(token_ids[s], 1, Covered(s))
    ELSE kv_cache[s] = <<>>

\* No token of the output up to position n ends the request.
NoneTerminal(s, n) ==
    \A i \in Nat : prompt_len[s] < i /\ i <= n => token_ids[s][i] \notin Terminals[s]

\* What post-processing has left of a request, and what its schedule reserves.
Stage(s) ==
    /\ work[s] # "forwarded"
    /\ status[s] = "NEW" => token_ids[s] = <<>> /\ prompt_len[s] = 0
    /\ num_generated(s) <= MaxTokens
    /\ status[s] = "ACTIVE" /\ work[s] # "done" =>
            num_generated(s) < MaxTokens /\ NoneTerminal(s, Len(token_ids[s]))
    /\ status[s] = "ACTIVE" => NoneTerminal(s, Len(token_ids[s]) - 1)
    /\ work[s] = "scheduled" =>
            /\ num_tokens[s] > 0
            /\ ~ IsPrefilling(s) => num_tokens[s] = HFLookahead(s)

\* The state of one request, and what all of them share: nothing is ever published in
\* the prefix index of this backend.
HFInv ==
    /\ Inv
    /\ ModelPredictsTokens /\ model \in Models
    /\ kv_cache \in [Seqs -> Seq(Tokens)]
    /\ DOMAIN hash_to_block_id = {}
    /\ \A s \in Seqs : CacheOf(s) /\ Stage(s)

\* A request is not concerned by a step that leaves its state alone.
LEMMA RequestElsewhere ==
    ASSUME NEW r \in Seqs, CacheOf(r), Stage(r), Idle(r), kv_cache'[r] = kv_cache[r]
    PROVE  CacheOf(r)' /\ Stage(r)'
  <1>1. /\ num_generated(r)' = num_generated(r) /\ HFLookahead(r)' = HFLookahead(r)
        /\ IsPrefilling(r)' = IsPrefilling(r) /\ Covered(r)' = Covered(r)
    BY DEF Idle, num_generated, HFLookahead, IsPrefilling, uncomputed_tokens, Covered
  <1>2. \A n : NoneTerminal(r, n)' <=> NoneTerminal(r, n)
    BY DEF Idle, NoneTerminal
  <1>3. CacheOf(r)'
    BY <1>1 DEF Idle, CacheOf
  <1>4. Len(token_ids[r])' = Len(token_ids[r]) /\ (Len(token_ids[r]) - 1)' = Len(token_ids[r]) - 1
    BY DEF Idle
  <1>5. Stage(r)'
    BY <1>1, <1>2, <1>4 DEF Idle, Stage
  <1> QED
    BY <1>3, <1>5

\* The parts of HFInv' behind a step of one request.
LEMMA HFStepOf ==
    ASSUME HFInv, Inv', NEW s \in Seqs, NEW cache \in Seq(Tokens),
           kv_cache' = [kv_cache EXCEPT ![s] = cache], model' = model,
           DOMAIN hash_to_block_id' = {},
           \A r \in Seqs \ {s} : Idle(r),
           CacheOf(s)', Stage(s)'
    PROVE  HFInv'
  <1>1. kv_cache' \in [Seqs -> Seq(Tokens)] /\ \A r \in Seqs \ {s} : kv_cache'[r] = kv_cache[r]
    BY DEF HFInv
  <1>2. \A r \in Seqs \ {s} : CacheOf(r)' /\ Stage(r)'
    BY <1>1, RequestElsewhere DEF HFInv
  <1>3. \A r \in Seqs : CacheOf(r)' /\ Stage(r)'
    BY <1>2
  <1>4. ModelPredictsTokens'
    BY DEF HFInv, ModelPredictsTokens
  <1> QED
    BY <1>1, <1>3, <1>4 DEF HFInv

-----------------------------------------------------------------------------
(* Steps that extend a text.                                               *)

\* Text and metadata of the reserved pages grow by tokens, and by no more of them than
\* are reserved.
Records(s, tokens) ==
    /\ work[s] = "scheduled" /\ Ran(s)
    /\ tokens \in Seq(Tokens) /\ Len(tokens) > 0
    /\ append_and_record(s, tokens)
    /\ Len(token_ids[s]) + Len(tokens) <= Len(block_table[s]) * BlockSize
    /\ IsPrefilling(s) => Len(tokens) = 1 /\ num_tokens[s] = uncomputed_tokens(s)

\* What a request's text and counters are behind such a step.
LEMMA RecordsEffect ==
    ASSUME Inv, NEW s \in Seqs, NEW tokens, Records(s, tokens)
    PROVE  /\ status[s] = "ACTIVE" /\ block_table[s] # <<>>
           /\ work' = [work EXCEPT ![s] = "done"] /\ work'[s] = "done"
           /\ token_ids' \in [Seqs -> Seq(Tokens)]
           /\ token_ids' = [token_ids EXCEPT ![s] = @ \o tokens]
           /\ token_ids'[s] = token_ids[s] \o tokens
           /\ Len(token_ids'[s]) = Len(token_ids[s]) + Len(tokens)
           /\ prompt_len' = prompt_len
           /\ block_tokens' \in [Pages -> Seq(Tokens)]
           /\ block_hash' \in [Pages -> Seq(Tokens)]
           /\ num_generated(s)' = num_generated(s) + Len(tokens)
           /\ num_generated(s)' > 0
           /\ \A r \in Seqs \ {s} : Idle(r)
  <1>1. /\ work[s] = "scheduled" /\ Ran(s) /\ tokens \in Seq(Tokens) /\ Len(tokens) > 0
        /\ append_and_record(s, tokens)
        /\ Len(token_ids[s]) + Len(tokens) <= Len(block_table[s]) * BlockSize
    BY DEF Records
  <1>2. BlockManagerTypeOK /\ TypeOK /\ Accounting(s)
    BY DEF Inv, TypeOK
  <1>3. /\ token_ids' \in [Seqs -> Seq(Tokens)]
        /\ token_ids' = [token_ids EXCEPT ![s] = @ \o tokens]
        /\ Len(token_ids'[s]) = Len(token_ids[s]) + Len(tokens)
        /\ prompt_len' = prompt_len
        /\ block_tokens' \in [Pages -> Seq(Tokens)]
        /\ block_hash' \in [Pages -> Seq(Tokens)]
    BY <1>1, <1>2, RecordTypes
  <1>4. status[s] = "ACTIVE" /\ block_table[s] # <<>>
    BY <1>1, <1>2 DEF Accounting
  <1>5. PICK len \in Nat, plen \in Nat, n \in Nat :
            Len(token_ids[s]) = len /\ prompt_len[s] = plen /\ Len(tokens) = n /\ plen <= len
    BY <1>1, <1>2, Counts
  <1>6. num_generated(s) = len - plen /\ num_generated(s)' = (len + n) - plen
    <2>1. Len(token_ids'[s]) = len + n /\ prompt_len'[s] = plen
      BY <1>3, <1>5
    <2> QED
      BY <1>5, <2>1 DEF num_generated
  <1>7. num_generated(s)' = num_generated(s) + Len(tokens) /\ num_generated(s)' > 0
    BY <1>1, <1>5, <1>6
  <1>8. work' = [work EXCEPT ![s] = "done"] /\ work'[s] = "done"
    BY <1>1, <1>2 DEF Ran, TypeOK
  <1>9. \A r \in Seqs \ {s} : token_ids'[r] = token_ids[r] /\ work'[r] = work[r]
    BY <1>2, <1>3, <1>8 DEF TypeOK, BlockManagerTypeOK
  <1>10. \A r \in Seqs \ {s} : Idle(r)
    BY <1>1, <1>3, <1>9 DEF Idle, Ran, reqVars
  <1>11. token_ids'[s] = token_ids[s] \o tokens
    BY <1>2, <1>3 DEF BlockManagerTypeOK
  <1> QED
    BY <1>3, <1>4, <1>7, <1>8, <1>10, <1>11

\* An item that ran keeps types, ownership and accounts: one that records tokens ...
LEMMA RecordsInv ==
    ASSUME Inv, NEW s \in Seqs, NEW tokens, Records(s, tokens)
    PROVE  Inv'
  <1>1. /\ TypeOK /\ BlockManagerTypeOK /\ PoolConsistent /\ Accounting(s)
    BY DEF Inv, TypeOK
  <1>2. /\ status[s] = "ACTIVE"
        /\ work' = [work EXCEPT ![s] = "done"] /\ work'[s] = "done"
        /\ token_ids' \in [Seqs -> Seq(Tokens)]
        /\ Len(token_ids'[s]) = Len(token_ids[s]) + Len(tokens)
        /\ prompt_len' = prompt_len
        /\ block_tokens' \in [Pages -> Seq(Tokens)]
        /\ block_hash' \in [Pages -> Seq(Tokens)]
        /\ num_generated(s)' > 0
        /\ \A r \in Seqs \ {s} : Idle(r)
    BY RecordsEffect
  <1>3. /\ work[s] = "scheduled" /\ tokens \in Seq(Tokens)
        /\ UNCHANGED <<poolVars, computed_tokens, hash_to_block_id, block_table,
                       reqVars, num_tokens, query, kv>>
        /\ IsPrefilling(s) => num_tokens[s] = uncomputed_tokens(s)
    BY DEF Records, Ran
  <1>4. TypeOK'
    <2>1. ASSUME NEW r \in Seqs
          PROVE  prompt_len'[r] <= Len(token_ids'[r])
      <3>1. prompt_len[r] \in Nat /\ Len(token_ids[r]) \in Nat /\ prompt_len[r] <= Len(token_ids[r])
        BY <1>1, Counts
      <3>2. CASE r # s
        BY <1>2, <3>1, <3>2 DEF Idle
      <3>3. CASE r = s
        <4>1. Len(tokens) \in Nat
          BY <1>3
        <4> QED
          BY <1>2, <3>1, <3>3, <4>1
      <3> QED
        BY <3>2, <3>3
    <2>2. BlockManagerTypeOK'
      BY <1>1, <1>2, <1>3, <2>1 DEF BlockManagerTypeOK, poolVars
    <2> QED
      BY <1>1, <1>2, <1>3, <2>2 DEF TypeOK, reqVars
  <1>5. PoolConsistent'
    BY <1>1, <1>3, PoolUnchanged
  <1>6. Accounting(s)'
    <2>1. /\ IsPrefilling(s)' = IsPrefilling(s) /\ uncomputed_tokens(s)' = uncomputed_tokens(s)
          /\ num_tokens'[s] = num_tokens[s] /\ num_computed'[s] = num_computed[s]
          /\ status'[s] = "ACTIVE" /\ block_table'[s] = block_table[s]
          /\ prompt_len'[s] = prompt_len[s]
      BY <1>2, <1>3 DEF IsPrefilling, uncomputed_tokens, reqVars
    <2>2. ~ (num_generated(s)' = 0)
      BY <1>2
    <2>3. ~ (num_tokens[s] < num_tokens[s])
      BY <1>1, Counts
    <2> QED
      BY <1>1, <1>2, <1>3, <2>1, <2>2, <2>3 DEF Accounting
  <1>7. \A r \in Seqs \ {s} : Accounting(r)'
    BY <1>1, <1>2, AccountingElsewhere DEF Inv, Idle
  <1> QED
    BY <1>4, <1>5, <1>6, <1>7 DEF Inv

\* ... and one that runs a chunk and leaves prompt tokens for later steps.
RunsChunk(s) ==
    /\ work[s] = "scheduled" /\ Ran(s) /\ IsPrefilling(s)
    /\ num_tokens[s] < uncomputed_tokens(s)
    /\ UNCHANGED <<token_ids, prompt_len, block_tokens, block_hash>>

LEMMA ChunkInv ==
    ASSUME Inv, NEW s \in Seqs, RunsChunk(s)
    PROVE  /\ Inv' /\ status[s] = "ACTIVE" /\ num_generated(s) = 0
           /\ work'[s] = "done" /\ \A r \in Seqs \ {s} : Idle(r)
  <1>1. /\ TypeOK /\ BlockManagerTypeOK /\ PoolConsistent /\ Accounting(s)
    BY DEF Inv, TypeOK
  <1>2. /\ work[s] = "scheduled" /\ IsPrefilling(s) /\ num_tokens[s] < uncomputed_tokens(s)
        /\ work' = [work EXCEPT ![s] = "done"]
        /\ UNCHANGED <<poolVars, computed_tokens, hash_to_block_id, block_table,
                       reqVars, num_tokens, query, kv, token_ids, prompt_len,
                       block_tokens, block_hash>>
    BY DEF RunsChunk, Ran
  <1>3. work'[s] = "done" /\ \A r \in Seqs \ {s} : work'[r] = work[r]
    BY <1>1, <1>2 DEF TypeOK
  <1>4. \A r \in Seqs \ {s} : Idle(r)
    BY <1>2, <1>3 DEF Idle, reqVars
  <1>5. status[s] = "ACTIVE" /\ num_generated(s) = 0
    BY <1>1, <1>2 DEF Accounting
  <1>6. TypeOK'
    <2>1. BlockManagerTypeOK'
      BY <1>1, <1>2 DEF BlockManagerTypeOK, poolVars
    <2> QED
      BY <1>1, <1>2, <2>1 DEF TypeOK, reqVars
  <1>7. PoolConsistent'
    BY <1>1, <1>2, PoolUnchanged
  <1>8. Accounting(s)'
    <2>1. /\ IsPrefilling(s)' = IsPrefilling(s) /\ uncomputed_tokens(s)' = uncomputed_tokens(s)
          /\ num_generated(s)' = num_generated(s)
      BY <1>2 DEF IsPrefilling, uncomputed_tokens, num_generated, reqVars
    <2> QED
      BY <1>1, <1>2, <1>3, <1>5, <2>1 DEF Accounting, reqVars
  <1>9. \A r \in Seqs \ {s} : Accounting(r)'
    BY <1>1, <1>4, AccountingElsewhere DEF Inv, Idle
  <1> QED
    BY <1>3, <1>4, <1>5, <1>6, <1>7, <1>8, <1>9 DEF Inv

\* The model predicts the tokens one after the other behind a text.
Follows(text, tokens) ==
    \A i \in Nat : 1 <= i /\ i <= Len(tokens) =>
        tokens[i] = Argmax(model, text \o SubSeq(tokens, 1, i - 1))

\* A step that extends the text within the limit, up to a terminal token, with what the
\* model predicts, and keeps the cache of all but the last token.
Extends(s, tokens) ==
    /\ Records(s, tokens)
    /\ num_generated(s) + Len(tokens) <= MaxTokens
    /\ \A i \in Nat : 1 <= i /\ i < Len(tokens) => tokens[i] \notin Terminals[s]
    /\ s \in Greedy => Follows(token_ids[s], tokens)
    /\ kv_cache' = [kv_cache EXCEPT ![s] = token_ids[s] \o SubSeq(tokens, 1, Len(tokens) - 1)]

LEMMA ExtendsKeeps ==
    ASSUME HFInv, NEW s \in Seqs, NEW tokens, Extends(s, tokens)
    PROVE  HFInv'
  <1>1. /\ Records(s, tokens) /\ tokens \in Seq(Tokens) /\ Len(tokens) > 0
        /\ num_generated(s) + Len(tokens) <= MaxTokens
        /\ \A i \in Nat : 1 <= i /\ i < Len(tokens) => tokens[i] \notin Terminals[s]
        /\ work[s] = "scheduled"
        /\ UNCHANGED <<hash_to_block_id, block_table, reqVars, num_tokens, model>>
        /\ kv_cache' = [kv_cache EXCEPT ![s] = token_ids[s] \o SubSeq(tokens, 1, Len(tokens) - 1)]
    BY DEF Extends, Records, Ran
  <1>2. Inv /\ TypeOK /\ BlockManagerTypeOK /\ Stage(s) /\ CacheOf(s)
    BY DEF HFInv, Inv, TypeOK
  <1>3. Inv'
    BY <1>1, <1>2, RecordsInv
  <1>4. /\ status[s] = "ACTIVE" /\ block_table[s] # <<>> /\ work'[s] = "done"
        /\ token_ids'[s] = token_ids[s] \o tokens
        /\ Len(token_ids'[s]) = Len(token_ids[s]) + Len(tokens)
        /\ prompt_len' = prompt_len
        /\ num_generated(s)' = num_generated(s) + Len(tokens)
        /\ num_generated(s)' > 0
        /\ \A r \in Seqs \ {s} : Idle(r)
    BY <1>1, <1>2, RecordsEffect
  <1>5. PICK text \in Seq(Tokens), len \in Nat, n \in Nat \ {0}, plen \in Nat :
            /\ token_ids[s] = text /\ Len(text) = len /\ Len(tokens) = n
            /\ prompt_len[s] = plen
    <2>1. token_ids[s] \in Seq(Tokens) /\ prompt_len[s] \in Nat /\ Len(tokens) \in Nat \ {0}
      BY <1>1, <1>2 DEF BlockManagerTypeOK
    <2> QED
      BY <2>1
  <1>6. PICK whole \in Seq(Tokens) : IsJoint(whole, text, len, tokens, n)
    BY <1>1, <1>5, Joined
  <1>7. token_ids'[s] = whole /\ Len(whole) = len + n
    BY <1>4, <1>5, <1>6 DEF IsJoint
  <1>8. PICK keep \in Nat : n - 1 = keep /\ keep \in 0 .. Len(tokens) /\ len + keep = len + n - 1
    <2>1. n - 1 \in Nat /\ n - 1 \in 0 .. Len(tokens) /\ len + (n - 1) = len + n - 1
      BY <1>5
    <2> QED
      BY <2>1
  <1>9. PICK cache \in Seq(Tokens) : text \o SubSeq(tokens, 1, keep) = cache
    <2>1. SubSeq(tokens, 1, keep) \in Seq(Tokens)
      BY <1>1, <1>8, PrefixProperties
    <2>2. text \o SubSeq(tokens, 1, keep) \in Seq(Tokens)
      BY <2>1, ConcatProperties
    <2> QED
      BY <2>2
  <1>10. kv_cache' = [kv_cache EXCEPT ![s] = cache]
    BY <1>1, <1>5, <1>8, <1>9
  <1>11. CacheOf(s)'
    <2>1. Covered(s)' = len + keep
      <3>1. Covered(s)' = Len(token_ids'[s]) - 1
        BY <1>4 DEF Covered
      <3> QED
        BY <1>7, <1>8, <3>1
    <2>2. SubSeq(text \o tokens, 1, len + keep) = text \o SubSeq(tokens, 1, keep)
      <3> DEFINE to == len + keep
      <3>1. to \in Nat /\ Len(text) + keep = to
        BY <1>5
      <3> HIDE DEF to
      <3>2. SubSeq(text \o tokens, 1, to) = text \o SubSeq(tokens, 1, keep)
        BY <1>1, <1>8, <3>1, PrefixBehind
      <3> QED
        BY <3>2 DEF to
    <2>3. kv_cache'[s] = SubSeq(token_ids'[s], 1, Covered(s)')
      <3>1. kv_cache'[s] = cache
        BY <1>10 DEF HFInv
      <3> QED
        BY <1>4, <1>5, <1>9, <2>1, <2>2, <3>1
    <2>4. status'[s] = "ACTIVE" /\ block_table'[s] # <<>>
      BY <1>1, <1>4 DEF reqVars
    <2> QED
      BY <2>3, <2>4 DEF CacheOf
  <1>12. NoneTerminal(s, Len(token_ids[s]) - 1)'
    <2> SUFFICES ASSUME NEW i \in Nat, plen < i, i <= Len(whole) - 1
                 PROVE  whole[i] \notin Terminals[s]
      BY <1>4, <1>5, <1>7 DEF NoneTerminal
    <2>1. CASE i <= len
      <3>1. text[i] \notin Terminals[s]
        BY <1>1, <1>2, <1>4, <1>5, <2>1 DEF Stage, NoneTerminal
      <3>2. i \in 1 .. len
        BY <1>5, <2>1
      <3> QED
        BY <1>6, <3>1, <3>2 DEF IsJoint
    <2>2. CASE ~ (i <= len)
      <3>1. PICK j \in 1 .. n : i = len + j /\ j < n
        <4>1. i - len \in 1 .. n /\ i = len + (i - len) /\ i - len < n
          BY <1>5, <1>7, <2>2
        <4> QED
          BY <4>1
      <3>2. whole[len + j] = tokens[j]
        BY <1>6 DEF IsJoint
      <3>3. j \in Nat /\ 1 <= j /\ j < Len(tokens)
        BY <1>5, <3>1
      <3> QED
        BY <1>1, <3>1, <3>2, <3>3
    <2> QED
      BY <2>1, <2>2
  <1>13. Stage(s)'
    <2>1. status'[s] = "ACTIVE" /\ num_generated(s)' <= MaxTokens
      BY <1>1, <1>4 DEF reqVars
    <2> QED
      BY <1>4, <1>12, <2>1 DEF Stage
  <1>14. DOMAIN hash_to_block_id' = {} /\ model' = model
    BY <1>1 DEF HFInv
  <1> QED
    BY <1>3, <1>4, <1>10, <1>11, <1>13, <1>14, HFStepOf

\* A chunk's cache covers the chunks so far.
LEMMA ChunkKeeps ==
    ASSUME HFInv, NEW s \in Seqs, RunsChunk(s),
           NEW cache \in Seq(Tokens), kv_cache' = [kv_cache EXCEPT ![s] = cache],
           cache = SubSeq(token_ids[s], 1, num_computed[s] + num_tokens[s])
    PROVE  HFInv'
  <1>1. /\ Inv' /\ status[s] = "ACTIVE" /\ num_generated(s) = 0
        /\ work'[s] = "done" /\ \A r \in Seqs \ {s} : Idle(r)
    BY ChunkInv DEF HFInv
  <1>2. /\ work[s] = "scheduled" /\ UNCHANGED <<hash_to_block_id, block_table, reqVars,
                num_tokens, model, token_ids, prompt_len>>
    BY DEF RunsChunk, Ran
  <1>3. Stage(s) /\ block_table[s] # <<>> /\ kv_cache'[s] = cache
    BY <1>2 DEF HFInv, Inv, Accounting
  <1>4. num_generated(s)' = num_generated(s)
    BY <1>2 DEF num_generated
  <1>5. CacheOf(s)'
    <2>1. Covered(s)' = num_computed[s] + num_tokens[s]
      BY <1>1, <1>2, <1>4 DEF Covered, reqVars
    <2> QED
      BY <1>1, <1>2, <1>3, <2>1 DEF CacheOf, reqVars
  <1>6. Stage(s)'
    <2>1. NoneTerminal(s, Len(token_ids[s]) - 1)'
      BY <1>1, <1>2, <1>3 DEF Stage, NoneTerminal
    <2> QED
      BY <1>1, <1>2, <1>3, <1>4, <2>1 DEF Stage, reqVars
  <1>7. DOMAIN hash_to_block_id' = {} /\ model' = model
    BY <1>2 DEF HFInv
  <1> QED
    BY <1>1, <1>5, <1>6, <1>7, HFStepOf

\* A prefix of a text and the slice behind it.
LEMMA PrefixAndSlice ==
    ASSUME NEW text \in Seq(Tokens), NEW from \in Nat, NEW to \in Nat,
           from <= to, to <= Len(text)
    PROVE  SubSeq(text, 1, from) \o SubSeq(text, from + 1, to) = SubSeq(text, 1, to)
  <1>1. from \in 0 .. Len(text) /\ to \in 0 .. Len(text)
    OBVIOUS
  <1>2. PICK k \in Nat : to - from = k /\ from + k = to
    <2>1. to - from \in Nat /\ from + (to - from) = to
      OBVIOUS
    <2> QED
      BY <2>1
  <1>3. PICK left \in Seq(Tokens) :
            /\ SubSeq(text, 1, from) = left /\ Len(left) = from
            /\ \A j \in 1 .. from : left[j] = text[j]
    BY <1>1, PrefixProperties
  <1>4. PICK right \in Seq(Tokens) :
            /\ SubSeq(text, from + 1, to) = right /\ Len(right) = k
            /\ \A j \in 1 .. k : right[j] = text[from + j]
    <2> DEFINE first == from + 1
    <2>1. first \in Nat \ {0} /\ to \in Int /\ to <= Len(text)
      OBVIOUS
    <2>2. \A j \in first .. to : text[j] \in Tokens
      <3>1. \A j \in first .. to : j \in 1 .. Len(text)
        OBVIOUS
      <3> QED
        BY <3>1
    <2>3. (to - first) + 1 = k /\ (first <= to <=> k > 0)
      BY <1>2
    <2>4. \A j \in 1 .. k : (first + j) - 1 = from + j
      OBVIOUS
    <2> HIDE DEF first
    <2>5. /\ SubSeq(text, first, to) \in Seq(Tokens)
          /\ Len(SubSeq(text, first, to)) = IF first <= to THEN (to - first) + 1 ELSE 0
          /\ \A j \in 1 .. (to - first) + 1 : SubSeq(text, first, to)[j] = text[(first + j) - 1]
      BY <2>1, <2>2, SubSeqProperties
    <2>6. PICK slice \in Seq(Tokens) : SubSeq(text, first, to) = slice
      BY <2>5
    <2>7. Len(slice) = k
      BY <2>3, <2>5, <2>6
    <2>8. \A j \in 1 .. k : slice[j] = text[from + j]
      BY <2>3, <2>4, <2>5, <2>6
    <2> QED
      BY <2>6, <2>7, <2>8 DEF first
  <1>5. PICK whole \in Seq(Tokens) : IsJoint(whole, left, from, right, k)
    BY <1>3, <1>4, Joined
  <1>6. PICK part \in Seq(Tokens) :
            /\ SubSeq(text, 1, to) = part /\ Len(part) = to
            /\ \A j \in 1 .. to : part[j] = text[j]
    BY <1>1, PrefixProperties
  <1>7. ASSUME NEW i \in 1 .. to
        PROVE  whole[i] = part[i]
    <2>1. CASE i \in 1 .. from
      BY <1>3, <1>5, <1>6, <2>1 DEF IsJoint
    <2>2. CASE ~ (i <= from)
      <3>1. PICK j \in 1 .. k : i = from + j
        <4>1. i - from \in 1 .. k /\ i = from + (i - from)
          BY <1>2, <2>2
        <4> QED
          BY <4>1
      <3> QED
        BY <1>4, <1>5, <1>6, <3>1 DEF IsJoint
    <2> QED
      BY <2>1, <2>2
  <1>8. whole = part
    BY <1>2, <1>5, <1>6, <1>7, SameText DEF IsJoint
  <1> QED
    BY <1>3, <1>4, <1>5, <1>6, <1>8 DEF IsJoint

\* One token that is sampled behind the whole text.
LEMMA SampledExtends ==
    ASSUME HFInv, NEW s \in Seqs, work[s] = "scheduled", Ran(s),
           NEW token \in Samples(s, token_ids[s]), append_and_record(s, <<token>>),
           Len(token_ids[s]) + 1 <= Len(block_table[s]) * BlockSize,
           IsPrefilling(s) => num_tokens[s] = uncomputed_tokens(s),
           num_generated(s) < MaxTokens, Len(token_ids[s]) > 0,
           kv_cache' = [kv_cache EXCEPT ![s] = token_ids[s]]
    PROVE  \E tokens : Extends(s, tokens)
  <1>1. PICK text \in Seq(Tokens) : token_ids[s] = text
    BY DEF HFInv, Inv, TypeOK, BlockManagerTypeOK
  <1>2. token \in Tokens /\ (s \in Greedy => token = Argmax(model, text))
    <2>1. text \in Seq(Tokens) \ {<<>>}
      BY <1>1
    <2>2. Argmax(model, text) \in Tokens
      BY <2>1 DEF HFInv, ModelPredictsTokens
    <2> QED
      BY <1>1, <2>2 DEF Samples
  <1>3. PICK tokens \in Seq(Tokens) : <<token>> = tokens /\ Len(tokens) = 1 /\ tokens[1] = token
    <2>1. <<token>> \in Seq(Tokens) /\ Len(<<token>>) = 1 /\ <<token>>[1] = token
      BY <1>2
    <2> QED
      BY <2>1
  <1>4. SubSeq(tokens, 1, 0) = <<>> /\ text \o SubSeq(tokens, 1, 0) = text
    <2>1. SubSeq(tokens, 1, 0) = <<>>
      BY SubSeqEmpty
    <2>2. text \o <<>> = text
      OBVIOUS
    <2> QED
      BY <2>1, <2>2
  <1>5. num_generated(s) + Len(tokens) <= MaxTokens
    <2>1. num_generated(s) \in Nat
      BY Counts DEF HFInv, Inv
    <2> QED
      BY <1>3, <2>1, MaxTokensAssumption
  <1>6. s \in Greedy => Follows(text, tokens)
    <2> SUFFICES ASSUME s \in Greedy, NEW i \in Nat, 1 <= i, i <= Len(tokens)
                 PROVE  tokens[i] = Argmax(model, text \o SubSeq(tokens, 1, i - 1))
      BY DEF Follows
    <2>1. i = 1 /\ i - 1 = 0
      BY <1>3
    <2> QED
      BY <1>2, <1>3, <1>4, <2>1
  <1>7. Records(s, tokens)
    BY <1>3 DEF Records
  <1>8. Len(tokens) - 1 = 0 /\ \A i \in Nat : ~ (1 <= i /\ i < Len(tokens))
    BY <1>3
  <1> QED
    BY <1>1, <1>4, <1>5, <1>6, <1>7, <1>8 DEF Extends

\* What the invariant says of a scheduled request.
LEMMA ScheduledRequest ==
    ASSUME HFInv, NEW s \in Seqs, work[s] = "scheduled"
    PROVE  /\ status[s] = "ACTIVE" /\ block_table[s] # <<>>
           /\ num_generated(s) \in Nat /\ num_generated(s) < MaxTokens
           /\ Len(token_ids[s]) > 0
           /\ Len(token_ids[s]) = prompt_len[s] + num_generated(s)
           /\ IsPrefilling(s) =>
                /\ num_generated(s) = 0 /\ Len(token_ids[s]) = prompt_len[s]
                /\ num_tokens[s] \in 1 .. uncomputed_tokens(s)
                /\ kv_cache[s] = SubSeq(token_ids[s], 1, num_computed[s])
                /\ Len(token_ids[s]) + 1 <= Len(block_table[s]) * BlockSize
           /\ ~ IsPrefilling(s) =>
                /\ num_generated(s) > 0 /\ num_tokens[s] = HFLookahead(s)
                /\ kv_cache[s] = SubSeq(token_ids[s], 1, Len(token_ids[s]) - 1)
                /\ kv_cache[s] # <<>>
                /\ Len(token_ids[s]) + num_tokens[s] <= Len(block_table[s]) * BlockSize
  <1>1. TypeOK /\ Accounting(s) /\ Stage(s) /\ CacheOf(s)
    BY DEF HFInv, Inv
  <1>2. status[s] = "ACTIVE" /\ block_table[s] # <<>> /\ prompt_len[s] > 0
    BY <1>1 DEF Accounting
  <1>3. PICK len \in Nat, plen \in Nat, done \in Nat :
            /\ Len(token_ids[s]) = len /\ prompt_len[s] = plen /\ num_computed[s] = done
            /\ plen <= len
    BY <1>1, Counts
  <1>4. num_generated(s) = len - plen /\ num_generated(s) \in Nat /\ len = plen + num_generated(s)
    BY <1>3 DEF num_generated
  <1>5. num_generated(s) < MaxTokens
    BY <1>1, <1>2 DEF Stage
  <1>6. kv_cache[s] = SubSeq(token_ids[s], 1, IF num_generated(s) > 0 THEN len - 1 ELSE done)
    <2>1. Covered(s) = IF num_generated(s) > 0 THEN len - 1 ELSE done + 0
      BY <1>3 DEF Covered
    <2> QED
      BY <1>1, <1>2, <1>3, <2>1 DEF CacheOf
  <1>7. ASSUME IsPrefilling(s)
        PROVE  /\ num_generated(s) = 0 /\ Len(token_ids[s]) = prompt_len[s]
               /\ num_tokens[s] \in 1 .. uncomputed_tokens(s)
               /\ kv_cache[s] = SubSeq(token_ids[s], 1, num_computed[s])
               /\ Len(token_ids[s]) + 1 <= Len(block_table[s]) * BlockSize
    <2>1. /\ num_generated(s) = 0 /\ num_tokens[s] \in 1 .. uncomputed_tokens(s)
          /\ prompt_len[s] + 1 <= Len(block_table[s]) * BlockSize
      BY <1>1, <1>2, <1>7 DEF Accounting
    <2>2. len = plen
      BY <1>3, <1>4, <2>1
    <2> QED
      BY <1>3, <1>6, <2>1, <2>2
  <1>8. ASSUME ~ IsPrefilling(s)
        PROVE  /\ num_generated(s) > 0 /\ num_tokens[s] = HFLookahead(s)
               /\ kv_cache[s] = SubSeq(token_ids[s], 1, Len(token_ids[s]) - 1)
               /\ kv_cache[s] # <<>>
               /\ Len(token_ids[s]) + num_tokens[s] <= Len(block_table[s]) * BlockSize
    <2>1. /\ ~ (num_generated(s) = 0) /\ num_tokens[s] = HFLookahead(s)
          /\ Len(token_ids[s]) + num_tokens[s] <= Len(block_table[s]) * BlockSize
      BY <1>1, <1>2, <1>8 DEF Accounting, Stage
    <2>2. num_generated(s) > 0 /\ len - 1 > 0
      BY <1>2, <1>3, <1>4, <2>1
    <2>3. kv_cache[s] = SubSeq(token_ids[s], 1, len - 1)
      BY <1>6, <2>2
    <2>4. Len(kv_cache[s]) = len - 1
      <3>1. len - 1 \in 0 .. Len(token_ids[s]) /\ token_ids[s] \in Seq(Tokens)
        BY <1>1, <1>3, <2>2 DEF TypeOK, BlockManagerTypeOK
      <3> QED
        BY <2>3, <3>1, PrefixProperties
    <2>5. kv_cache[s] # <<>>
      <3>1. Len(<<>>) = 0
        OBVIOUS
      <3>2. Len(kv_cache[s]) # 0
        BY <1>3, <2>2, <2>4
      <3> QED
        BY <3>1, <3>2
    <2> QED
      BY <1>3, <2>1, <2>2, <2>3, <2>5
  <1> QED
    BY <1>2, <1>3, <1>4, <1>5, <1>7, <1>8

\* run_prefill runs one more chunk, or samples behind the whole prompt.
LEMMA RunPrefillDoes ==
    ASSUME HFInv, NEW s \in Seqs, RunPrefill(s)
    PROVE  \/ \E tokens : Extends(s, tokens)
           \/ /\ RunsChunk(s)
              /\ \E cache \in Seq(Tokens) :
                    /\ kv_cache' = [kv_cache EXCEPT ![s] = cache]
                    /\ cache = SubSeq(token_ids[s], 1, num_computed[s] + num_tokens[s])
  <1> DEFINE end == Min({num_computed[s] + num_tokens[s], prompt_len[s]})
             cache == kv_cache[s] \o SubSeq(token_ids[s], num_computed[s] + 1, end)
  <1>1. /\ work[s] = "scheduled" /\ IsPrefilling(s) /\ Ran(s)
        /\ kv_cache' = [kv_cache EXCEPT ![s] = cache]
        /\ end >= prompt_len[s] =>
                \E token \in Samples(s, cache) : append_and_record(s, <<token>>)
        /\ ~ (end >= prompt_len[s]) =>
                UNCHANGED <<token_ids, prompt_len, block_tokens, block_hash>>
    BY DEF RunPrefill
  <1>2. /\ num_generated(s) < MaxTokens /\ Len(token_ids[s]) > 0
        /\ Len(token_ids[s]) = prompt_len[s]
        /\ num_tokens[s] \in 1 .. uncomputed_tokens(s)
        /\ kv_cache[s] = SubSeq(token_ids[s], 1, num_computed[s])
        /\ Len(token_ids[s]) + 1 <= Len(block_table[s]) * BlockSize
    BY <1>1, ScheduledRequest
  <1>3. PICK text \in Seq(Tokens), len \in Nat, done \in Nat, n \in Nat :
            /\ token_ids[s] = text /\ Len(text) = len /\ prompt_len[s] = len
            /\ num_computed[s] = done /\ num_tokens[s] = n
    <2>1. /\ token_ids[s] \in Seq(Tokens) /\ num_computed[s] \in Nat /\ num_tokens[s] \in Nat
      BY DEF HFInv, Inv, TypeOK, BlockManagerTypeOK
    <2>2. PICK text \in Seq(Tokens), len \in Nat : token_ids[s] = text /\ Len(text) = len
      BY <2>1
    <2>3. prompt_len[s] = len
      BY <1>2, <2>2
    <2> QED
      BY <2>1, <2>2, <2>3
  <1>4. uncomputed_tokens(s) = len - done /\ n <= len - done /\ done + n <= len
    BY <1>2, <1>3 DEF uncomputed_tokens
  <1>5. end = done + n
    <2>1. end = Min({done + n, len})
      BY <1>3
    <2>2. done + n \in Int /\ len \in Int
      BY <1>3
    <2>3. Min({done + n, len}) = done + n
      BY <1>4, <2>2, MinOfTwo
    <2> QED
      BY <2>1, <2>3
  <1> HIDE DEF end
  <1>6. cache = SubSeq(text, 1, end)
    <2>1. SubSeq(text, 1, done) \o SubSeq(text, done + 1, end) = SubSeq(text, 1, end)
      BY <1>3, <1>4, <1>5, PrefixAndSlice
    <2> QED
      BY <1>2, <1>3, <2>1
  <1> HIDE DEF cache
  <1>7. CASE end >= prompt_len[s]
    <2>1. end = len /\ num_tokens[s] = uncomputed_tokens(s)
      BY <1>3, <1>4, <1>5, <1>7
    <2>2. cache = text
      BY <1>3, <1>6, <2>1
    <2>3. PICK token \in Samples(s, token_ids[s]) : append_and_record(s, <<token>>)
      BY <1>1, <1>3, <1>7, <2>2
    <2>4. kv_cache' = [kv_cache EXCEPT ![s] = token_ids[s]]
      BY <1>1, <1>3, <2>2
    <2> QED
      BY <1>1, <1>2, <2>1, <2>3, <2>4, SampledExtends
  <1>8. CASE ~ (end >= prompt_len[s])
    <2>1. num_tokens[s] < uncomputed_tokens(s)
      BY <1>3, <1>4, <1>5, <1>8
    <2>2. RunsChunk(s)
      BY <1>1, <1>8, <2>1 DEF RunsChunk
    <2>3. cache \in Seq(Tokens)
      <3>1. end \in 0 .. Len(text)
        BY <1>3, <1>4, <1>5
      <3> QED
        BY <1>6, <3>1, PrefixProperties
    <2>4. cache = SubSeq(token_ids[s], 1, num_computed[s] + num_tokens[s])
      BY <1>3, <1>5, <1>6
    <2> QED
      BY <1>1, <2>2, <2>3, <2>4
  <1> QED
    BY <1>7, <1>8

\* run_decode samples behind the whole text.
LEMMA RunDecodeDoes ==
    ASSUME HFInv, NEW s \in Seqs, RunDecode(s)
    PROVE  \E tokens : Extends(s, tokens)
  <1>1. /\ work[s] = "scheduled" /\ ~ IsPrefilling(s) /\ Ran(s)
        /\ \E token \in Samples(s, Append(kv_cache[s], last_token(s))) :
                append_and_record(s, <<token>>)
        /\ kv_cache[s] # <<>> =>
                kv_cache' = [kv_cache EXCEPT ![s] = Append(@, last_token(s))]
    BY DEF RunDecode
  <1>2. /\ num_generated(s) \in Nat /\ num_generated(s) < MaxTokens /\ Len(token_ids[s]) > 0
        /\ num_tokens[s] = HFLookahead(s)
        /\ kv_cache[s] = SubSeq(token_ids[s], 1, Len(token_ids[s]) - 1)
        /\ kv_cache[s] # <<>>
        /\ Len(token_ids[s]) + num_tokens[s] <= Len(block_table[s]) * BlockSize
    BY <1>1, ScheduledRequest
  <1>3. Append(kv_cache[s], last_token(s)) = token_ids[s]
    <2>1. token_ids[s] \in Seq(Tokens)
      BY DEF HFInv, Inv, TypeOK, BlockManagerTypeOK
    <2> QED
      BY <1>2, <2>1, LastBehind DEF last_token
  <1>4. Len(token_ids[s]) + 1 <= Len(block_table[s]) * BlockSize
    <2>1. HFLookahead(s) \in Nat /\ HFLookahead(s) >= 1
      BY <1>2, LookaheadType, MaxDraftAssumption
    <2>2. PICK len \in Nat, room \in Nat, n \in Nat :
            /\ Len(token_ids[s]) = len /\ Len(block_table[s]) * BlockSize = room
            /\ num_tokens[s] = n /\ n >= 1 /\ len + n <= room
      BY <1>2, <2>1, Counts DEF HFInv, Inv
    <2>3. len + 1 <= room
      BY <2>2
    <2> QED
      BY <2>2, <2>3
  <1>5. kv_cache' = [kv_cache EXCEPT ![s] = token_ids[s]]
    <2>1. kv_cache' = [kv_cache EXCEPT ![s] = Append(kv_cache[s], last_token(s))]
      BY <1>1, <1>2 DEF HFInv
    <2> QED
      BY <1>3, <2>1
  <1>6. PICK token \in Samples(s, token_ids[s]) : append_and_record(s, <<token>>)
    BY <1>1, <1>3
  <1> QED
    BY <1>1, <1>2, <1>4, <1>5, <1>6, SampledExtends

\* A speculative burst is what the model predicts behind the text.
LEMMA RunSpeculativeDoes ==
    ASSUME HFInv, NEW s \in Seqs, RunSpeculative(s)
    PROVE  Extends(s, Emitted(s))
  <1>1. /\ work[s] = "scheduled" /\ ~ IsPrefilling(s) /\ Ran(s)
        /\ append_and_record(s, Emitted(s))
        /\ kv_cache' = [kv_cache EXCEPT ![s] =
                SubSeq(Output(s), 1, Len(kv_cache[s]) + Len(Emitted(s)))]
    BY SpeculativeStep
  <1>2. /\ num_generated(s) \in Nat /\ num_generated(s) < MaxTokens /\ Len(token_ids[s]) > 0
        /\ num_tokens[s] = HFLookahead(s)
        /\ kv_cache[s] = SubSeq(token_ids[s], 1, Len(token_ids[s]) - 1)
        /\ Len(token_ids[s]) + num_tokens[s] <= Len(block_table[s]) * BlockSize
    BY <1>1, ScheduledRequest
  <1>3. PICK text \in Seq(Tokens) : token_ids[s] = text
    BY DEF HFInv, Inv, TypeOK, BlockManagerTypeOK
  <1>4. /\ DraftsFor(s) \in Seq(Tokens)
        /\ Len(DraftsFor(s)) + 1 <= HFLookahead(s)
        /\ Len(DraftsFor(s)) + 1 <= MaxTokens - num_generated(s)
    BY <1>2, <1>3, DraftsBounded
  <1>5. /\ IsBurst(s, text, Emitted(s))
        /\ SubSeq(Output(s), 1, Len(kv_cache[s]) + Len(Emitted(s)))
                = text \o SubSeq(Emitted(s), 1, Len(Emitted(s)) - 1)
    BY <1>2, <1>3, <1>4, BurstIsPredicted DEF HFInv
  <1>6. PICK tokens \in Seq(Tokens) : Emitted(s) = tokens
    BY <1>5 DEF IsBurst
  <1>7. PICK n \in Nat \ {0}, d \in Nat :
            Len(tokens) = n /\ Len(DraftsFor(s)) = d /\ n <= d + 1
    BY <1>4, <1>5, <1>6 DEF IsBurst
  <1>8. num_generated(s) + Len(tokens) <= MaxTokens
    BY <1>2, <1>4, <1>7, MaxTokensAssumption
  <1>9. Len(token_ids[s]) + Len(tokens) <= Len(block_table[s]) * BlockSize
    <2>1. PICK len \in Nat, room \in Nat, m \in Nat :
            /\ Len(token_ids[s]) = len /\ Len(block_table[s]) * BlockSize = room
            /\ num_tokens[s] = m /\ len + m <= room /\ d + 1 <= m
      BY <1>2, <1>4, <1>7, Counts DEF HFInv, Inv
    <2> QED
      BY <1>7, <2>1
  <1>10. Records(s, tokens)
    <2>1. Len(tokens) > 0
      BY <1>7
    <2> QED
      BY <1>1, <1>6, <1>9, <2>1 DEF Records
  <1>11. \A i \in Nat : 1 <= i /\ i < Len(tokens) => tokens[i] \notin Terminals[s]
    <2>1. \A i \in Nat : 1 <= i /\ i < Len(tokens) => i \in 1 .. Len(tokens) - 1
      BY <1>7
    <2> QED
      BY <1>5, <1>6, <2>1 DEF IsBurst
  <1>12. Follows(text, tokens)
    <2>1. \A i \in Nat : 1 <= i /\ i <= Len(tokens) => i \in 1 .. Len(tokens)
      BY <1>7
    <2> QED
      BY <1>5, <1>6, <2>1 DEF IsBurst, Follows
  <1> QED
    BY <1>1, <1>3, <1>5, <1>6, <1>8, <1>10, <1>11, <1>12 DEF Extends

-----------------------------------------------------------------------------
(* The other steps.                                                        *)

\* Neither arrival nor scheduling nor the end of a step concerns other requests.
LEMMA OthersIdle ==
    ASSUME Inv, NEW s \in Seqs,
           \/ AddRequest(s)
           \/ \E chunk : Admit(s, chunk)
           \/ \E chunk : SchedulePrefill(s, chunk)
           \/ \E n : ScheduleDecode(s, n)
           \/ \E finish : Postprocess(s, finish)
           \/ Abort(s)
           \/ Fail(s, FALSE)
           \/ Forget(s)
    PROVE  \A r \in Seqs \ {s} : Idle(r)
  <1>1. TypeOK /\ BlockManagerTypeOK
    BY DEF Inv, TypeOK
  <1>2. CASE AddRequest(s)
    BY <1>1, <1>2 DEF AddRequest, Idle, TypeOK, BlockManagerTypeOK, runVars
  <1>3. CASE \E chunk : Admit(s, chunk)
    <2>1. /\ \E table : block_table' = [block_table EXCEPT ![s] = table]
          /\ token_ids' = token_ids /\ prompt_len' = prompt_len
      BY <1>3 DEF Admit, allocate
    <2>2. /\ \E n : num_computed' = [num_computed EXCEPT ![s] = n]
          /\ work' = work \/ work' = [work EXCEPT ![s] = "scheduled"]
          /\ num_tokens' = num_tokens \/ \E n : num_tokens' = [num_tokens EXCEPT ![s] = n]
          /\ query' = query /\ status' = status
      BY <1>3 DEF Admit, Schedule, runVars
    <2> QED
      BY <1>1, <2>1, <2>2 DEF Idle, TypeOK, BlockManagerTypeOK
  <1>4. CASE \E chunk : SchedulePrefill(s, chunk)
    BY <1>1, <1>4 DEF SchedulePrefill, Schedule, Idle, TypeOK, bmVars, reqVars
  <1>5. CASE \E n : ScheduleDecode(s, n)
    <2>1. /\ \E table : block_table' = [block_table EXCEPT ![s] = table]
          /\ token_ids' = token_ids /\ prompt_len' = prompt_len
      BY <1>5 DEF ScheduleDecode, may_append
    <2> QED
      BY <1>1, <1>5, <2>1 DEF ScheduleDecode, Schedule, Idle, TypeOK, BlockManagerTypeOK, reqVars
  <1>6. CASE \E finish : Postprocess(s, finish)
    <2>1. /\ block_table' = block_table \/ block_table' = [block_table EXCEPT ![s] = <<>>]
          /\ status' = status \/ status' = [status EXCEPT ![s] = "FINISHED"]
      BY <1>6 DEF Postprocess, deallocate
    <2>2. /\ \E n : num_computed' = [num_computed EXCEPT ![s] = n]
          /\ ReleaseSlot(s) /\ token_ids' = token_ids /\ prompt_len' = prompt_len
      BY <1>6 DEF Postprocess
    <2> QED
      BY <1>1, <2>1, <2>2 DEF ReleaseSlot, Idle, TypeOK, BlockManagerTypeOK
  <1>7. CASE Abort(s)
    BY <1>1, <1>7 DEF Abort, deallocate, Idle, TypeOK, BlockManagerTypeOK, runVars
  <1>8. CASE Fail(s, FALSE)
    BY <1>1, <1>8 DEF Fail, deallocate, ReleaseSlot, Idle, TypeOK, BlockManagerTypeOK
  <1>9. CASE Forget(s)
    BY <1>1, <1>9 DEF Forget, Idle, TypeOK, BlockManagerTypeOK, runVars
  <1> QED
    BY <1>2, <1>3, <1>4, <1>5, <1>6, <1>7, <1>8, <1>9

\* What none of them changes ...
LEMMA IndexStaysEmpty ==
    ASSUME DOMAIN hash_to_block_id = {}, NEW s \in Seqs,
           \/ UNCHANGED hash_to_block_id
           \/ \E F : hash_to_block_id' = IndexWithout(F)
    PROVE  DOMAIN hash_to_block_id' = {}
  <1>1. CASE UNCHANGED hash_to_block_id
    BY <1>1
  <1>2. CASE \E F : hash_to_block_id' = IndexWithout(F)
    <2>1. PICK F : hash_to_block_id' = IndexWithout(F)
      BY <1>2
    <2>2. DOMAIN IndexWithout(F) \subseteq DOMAIN hash_to_block_id
      BY EvictionShrinks
    <2> QED
      BY <2>1, <2>2
  <1> QED
    BY <1>1, <1>2

\* ... and what an empty index means for admission.
LEMMA NothingCached ==
    ASSUME BlockManagerTypeOK, DOMAIN hash_to_block_id = {}, NEW s \in Seqs
    PROVE  cached_prefix_tokens(s) = 0
  <1>1. /\ ReusableBlocks(s) \in 0 .. MaxReusable(s)
        /\ EnablePrefixCaching => \A i \in 1 .. ReusableBlocks(s) : IsReusable(s, i)
        /\ MaxReusable(s) \in Nat
    BY ReusableProperties, BlockCounts
  <1>2. \A i : ~ IsReusable(s, i)
    BY DEF IsReusable
  <1>3. ReusableBlocks(s) = 0
    <2>1. CASE EnablePrefixCaching
      <3>1. ~ (1 \in 1 .. ReusableBlocks(s))
        BY <1>1, <1>2, <2>1
      <3> QED
        BY <1>1, <3>1
    <2>2. CASE ~ EnablePrefixCaching
      BY <2>2 DEF ReusableBlocks
    <2> QED
      BY <2>1, <2>2
  <1>4. 0 * BlockSize = 0
    BY BlockSizeAssumption
  <1> QED
    BY <1>3, <1>4 DEF cached_prefix_tokens

LEMMA AddRequestHF ==
    ASSUME HFInv, NEW s \in Seqs, AddRequest(s), KeepCache, UNCHANGED model
    PROVE  HFInv'
  <1>1. Inv /\ TypeOK /\ BlockManagerTypeOK /\ Accounting(s) /\ Stage(s) /\ CacheOf(s)
    BY DEF HFInv, Inv, TypeOK
  <1>2. PICK prompt \in Prompts :
            /\ status[s] = "NEW" /\ status' = [status EXCEPT ![s] = "ACTIVE"]
            /\ token_ids' = [token_ids EXCEPT ![s] = prompt]
            /\ prompt_len' = [prompt_len EXCEPT ![s] = Len(prompt)]
            /\ UNCHANGED <<poolVars, metaVars, block_table, runVars>>
    BY DEF AddRequest
  <1>3. /\ Inv' /\ \A r \in Seqs \ {s} : Idle(r)
    BY <1>1, AddRequestInv, OthersIdle
  <1>4. /\ block_table'[s] = <<>> /\ work'[s] = "idle" /\ status'[s] = "ACTIVE"
        /\ token_ids'[s] = prompt /\ prompt_len'[s] = Len(prompt) /\ Len(prompt) \in Nat
    <2>1. block_table[s] = <<>> /\ work[s] = "idle"
      BY <1>1, <1>2 DEF Accounting
    <2>2. prompt \in Seq(Tokens)
      BY PromptsAssumption
    <2> QED
      BY <1>1, <1>2, <2>1, <2>2 DEF TypeOK, BlockManagerTypeOK, runVars
  <1>5. /\ kv_cache[s] = <<>> /\ kv_cache' = [kv_cache EXCEPT ![s] = kv_cache[s]]
        /\ kv_cache[s] \in Seq(Tokens)
    BY <1>1, <1>2 DEF CacheOf, KeepCache, HFInv
  <1>6. CacheOf(s)'
    BY <1>4, <1>5 DEF CacheOf, KeepCache
  <1>7. Stage(s)'
    <2>1. num_generated(s)' = 0
      BY <1>4 DEF num_generated
    <2>2. NoneTerminal(s, Len(token_ids[s]))' /\ NoneTerminal(s, Len(token_ids[s]) - 1)'
      BY <1>4 DEF NoneTerminal
    <2> QED
      BY <1>4, <2>1, <2>2, MaxTokensAssumption DEF Stage
  <1>8. DOMAIN hash_to_block_id' = {}
    BY <1>2 DEF HFInv, metaVars
  <1> QED
    BY <1>3, <1>5, <1>6, <1>7, <1>8, HFStepOf

LEMMA AdmitHF ==
    ASSUME HFInv, NEW s \in Seqs, NEW chunk \in 0 .. prompt_len[s], Admit(s, chunk),
           KeepCache, UNCHANGED model
    PROVE  HFInv'
  <1>1. Inv /\ TypeOK /\ BlockManagerTypeOK /\ Accounting(s) /\ Stage(s) /\ CacheOf(s)
    BY DEF HFInv, Inv, TypeOK
  <1>2. /\ status[s] = "ACTIVE" /\ work[s] = "idle" /\ status' = status
        /\ block_table[s] = <<>> /\ token_ids' = token_ids /\ prompt_len' = prompt_len
        /\ num_computed' = [num_computed EXCEPT ![s] = cached_prefix_tokens(s)]
        /\ chunk > 0 => Schedule(s, chunk)
        /\ ~ (chunk > 0) => UNCHANGED runVars
    BY DEF Admit, allocate
  <1>3. Inv' /\ \A r \in Seqs \ {s} : Idle(r)
    BY <1>1, AdmitInv, OthersIdle
  <1>4. num_computed'[s] = 0
    <2>1. cached_prefix_tokens(s) = 0
      BY <1>1, NothingCached DEF HFInv
    <2> QED
      BY <1>1, <1>2, <2>1 DEF TypeOK
  <1>5. prompt_len[s] \in Nat /\ prompt_len[s] > 0 /\ num_computed[s] = 0
    BY <1>1, <1>2 DEF Accounting, BlockManagerTypeOK
  <1>6. IsPrefilling(s) /\ IsPrefilling(s)'
    BY <1>2, <1>4, <1>5 DEF IsPrefilling, uncomputed_tokens
  <1>7. num_generated(s) = 0 /\ num_generated(s)' = 0
    <2>1. num_generated(s) = 0
      BY <1>1, <1>2, <1>6 DEF Accounting
    <2> QED
      BY <1>2, <2>1 DEF num_generated
  <1>8. /\ work'[s] \in {"idle", "scheduled"}
        /\ work'[s] = "scheduled" => num_tokens'[s] > 0
    <2>1. CASE chunk > 0
      BY <1>1, <1>2, <2>1 DEF Schedule, TypeOK
    <2>2. CASE ~ (chunk > 0)
      BY <1>2, <2>2 DEF runVars
    <2> QED
      BY <2>1, <2>2
  <1>9. /\ kv_cache[s] = <<>> /\ kv_cache' = [kv_cache EXCEPT ![s] = kv_cache[s]]
        /\ kv_cache[s] \in Seq(Tokens)
    BY <1>1, <1>2 DEF CacheOf, KeepCache, HFInv
  <1>10. CacheOf(s)'
    <2>1. Covered(s)' = 0
      BY <1>4, <1>7, <1>8 DEF Covered
    <2>2. SubSeq(token_ids'[s], 1, 0) = <<>>
      BY SubSeqEmpty
    <2>3. kv_cache'[s] = <<>>
      BY <1>9 DEF KeepCache
    <2> QED
      BY <2>1, <2>2, <2>3 DEF CacheOf
  <1>11. Stage(s)'
    <2>1. /\ NoneTerminal(s, Len(token_ids[s]))' /\ NoneTerminal(s, Len(token_ids[s]) - 1)'
      BY <1>1, <1>2 DEF Stage, NoneTerminal
    <2> QED
      BY <1>2, <1>6, <1>7, <1>8, <2>1, MaxTokensAssumption DEF Stage
  <1>12. DOMAIN hash_to_block_id' = {}
    <2>1. \E F : hash_to_block_id' = IndexWithout(F)
      BY DEF Admit, allocate
    <2> QED
      BY <2>1, IndexStaysEmpty DEF HFInv
  <1> QED
    BY <1>3, <1>9, <1>10, <1>11, <1>12, HFStepOf

LEMMA SchedulePrefillHF ==
    ASSUME HFInv, NEW s \in Seqs, NEW chunk \in 1 .. prompt_len[s], SchedulePrefill(s, chunk),
           KeepCache, UNCHANGED model
    PROVE  HFInv'
  <1>1. Inv /\ TypeOK /\ BlockManagerTypeOK /\ Accounting(s) /\ Stage(s) /\ CacheOf(s)
    BY DEF HFInv, Inv, TypeOK
  <1>2. /\ status[s] = "ACTIVE" /\ work[s] = "idle"
        /\ chunk \in 1 .. uncomputed_tokens(s) /\ Schedule(s, chunk)
        /\ UNCHANGED <<bmVars, reqVars>>
    BY DEF SchedulePrefill
  <1>3. Inv' /\ \A r \in Seqs \ {s} : Idle(r)
    BY <1>1, SchedulePrefillInv, OthersIdle
  <1>4. /\ IsPrefilling(s)' = IsPrefilling(s) /\ num_generated(s)' = num_generated(s)
        /\ work'[s] = "scheduled" /\ num_tokens'[s] = chunk
        /\ status' = status /\ token_ids' = token_ids /\ prompt_len' = prompt_len
        /\ block_table' = block_table /\ num_computed' = num_computed
    BY <1>1, <1>2 DEF Schedule, TypeOK, bmVars, reqVars, IsPrefilling, uncomputed_tokens,
                      num_generated
  <1>5. IsPrefilling(s)
    <2>1. uncomputed_tokens(s) \in Int
      BY <1>1, Counts
    <2> QED
      BY <1>2, <2>1 DEF IsPrefilling
  <1>6. kv_cache' = [kv_cache EXCEPT ![s] = kv_cache[s]] /\ kv_cache[s] \in Seq(Tokens)
    BY DEF KeepCache, HFInv
  <1>7. CacheOf(s)'
    <2>1. Covered(s)' = Covered(s)
      BY <1>2, <1>4 DEF Covered
    <2> QED
      BY <1>1, <1>4, <2>1 DEF CacheOf, KeepCache
  <1>8. Stage(s)'
    <2>1. NoneTerminal(s, Len(token_ids[s]))' /\ NoneTerminal(s, Len(token_ids[s]) - 1)'
      BY <1>1, <1>2, <1>4 DEF Stage, NoneTerminal
    <2> QED
      BY <1>1, <1>2, <1>4, <1>5, <2>1 DEF Stage
  <1>9. DOMAIN hash_to_block_id' = {}
    BY <1>2 DEF HFInv, bmVars, metaVars
  <1> QED
    BY <1>3, <1>6, <1>7, <1>8, <1>9, HFStepOf

LEMMA ScheduleDecodeHF ==
    ASSUME HFInv, NEW s \in Seqs, ScheduleDecode(s, HFLookahead(s)),
           KeepCache, UNCHANGED model
    PROVE  HFInv'
  <1>1. Inv /\ TypeOK /\ BlockManagerTypeOK /\ Accounting(s) /\ Stage(s) /\ CacheOf(s)
    BY DEF HFInv, Inv, TypeOK
  <1>2. /\ status[s] = "ACTIVE" /\ work[s] = "idle" /\ num_generated(s) > 0
        /\ may_append(s, HFLookahead(s)) /\ Schedule(s, HFLookahead(s))
        /\ UNCHANGED reqVars
    BY DEF ScheduleDecode
  <1>3. HFLookahead(s) \in 1 .. 1 + MaxDraft /\ HFLookahead(s) \in Nat /\ HFLookahead(s) > 0
    <2>1. num_generated(s) \in Nat
      BY <1>1, Counts
    <2> QED
      BY <2>1, LookaheadType, MaxDraftAssumption
  <1>4. Inv' /\ \A r \in Seqs \ {s} : Idle(r)
    BY <1>1, <1>3, ScheduleDecodeInv, OthersIdle
  <1>5. /\ work'[s] = "scheduled" /\ num_tokens'[s] = HFLookahead(s)
        /\ status' = status /\ token_ids' = token_ids /\ prompt_len' = prompt_len
        /\ num_computed' = num_computed
    BY <1>1, <1>2 DEF Schedule, TypeOK, reqVars, may_append
  <1>6. /\ num_generated(s)' = num_generated(s) /\ HFLookahead(s)' = HFLookahead(s)
        /\ Covered(s)' = Covered(s)
    BY <1>2, <1>5 DEF num_generated, HFLookahead, Covered
  <1>7. block_table[s] # <<>> /\ block_table'[s] # <<>>
    <2>1. prompt_len[s] > 0 /\ prompt_len[s] \in Nat
      BY <1>1, <1>2 DEF Accounting, BlockManagerTypeOK
    <2>2. num_generated(s) \in Nat
      BY <1>1, Counts
    <2>3. block_table[s] # <<>>
      <3> SUFFICES ASSUME block_table[s] = <<>>
                   PROVE  FALSE
        OBVIOUS
      <3>1. num_computed[s] = 0
        BY <1>1, <1>2 DEF Accounting
      <3>2. IsPrefilling(s)
        BY <2>1, <3>1 DEF IsPrefilling, uncomputed_tokens
      <3>3. num_generated(s) = 0
        BY <1>1, <1>2, <3>2 DEF Accounting
      <3> QED
        BY <1>2, <3>3
    <2>4. BlockManagerTypeOK' /\ Len(block_table'[s]) >= Len(block_table[s])
      BY <1>1, <1>2, <1>3, MayAppendTypes
    <2>5. block_table[s] \in Seq(Pages) /\ block_table'[s] \in Seq(Pages)
      BY <1>1, <2>4 DEF BlockManagerTypeOK
    <2> QED
      BY <2>3, <2>4, <2>5
  <1>8. kv_cache' = [kv_cache EXCEPT ![s] = kv_cache[s]] /\ kv_cache[s] \in Seq(Tokens)
    BY DEF KeepCache, HFInv
  <1>9. CacheOf(s)'
    BY <1>1, <1>2, <1>5, <1>6, <1>7 DEF CacheOf, KeepCache
  <1>10. Stage(s)'
    <2>1. NoneTerminal(s, Len(token_ids[s]))' /\ NoneTerminal(s, Len(token_ids[s]) - 1)'
      BY <1>1, <1>2, <1>5 DEF Stage, NoneTerminal
    <2> QED
      BY <1>1, <1>2, <1>3, <1>5, <1>6, <2>1 DEF Stage
  <1>11. DOMAIN hash_to_block_id' = {}
    <2>1. \E F : hash_to_block_id' = IndexWithout(F)
      BY <1>2 DEF may_append
    <2> QED
      BY <2>1, IndexStaysEmpty DEF HFInv
  <1> QED
    BY <1>4, <1>8, <1>9, <1>10, <1>11, HFStepOf

\* A request that goes on has neither reached its limit nor a terminal token.
LEMMA GoesOnHF ==
    ASSUME HFInv, NEW s \in Seqs, HFPostprocess(s, FALSE), KeepCache, UNCHANGED model
    PROVE  HFInv'
  <1> DEFINE computed == IF IsPrefilling(s) THEN num_computed[s] + num_tokens[s]
                                            ELSE num_computed[s]
  <1>1. Inv /\ TypeOK /\ BlockManagerTypeOK /\ Accounting(s) /\ Stage(s) /\ CacheOf(s)
    BY DEF HFInv, Inv, TypeOK
  <1>2. /\ work[s] = "done" /\ ReleaseSlot(s)
        /\ num_computed' = [num_computed EXCEPT ![s] = computed]
        /\ UNCHANGED <<status, poolVars, block_table, metaVars, token_ids, prompt_len>>
    BY DEF HFPostprocess, Postprocess
  <1>3. /\ num_generated(s) > 0 => last_token(s) \notin Terminals[s]
        /\ num_generated(s) < MaxTokens
    <2>1. num_generated(s) \in Nat
      BY <1>1, Counts
    <2>2. PICK stop_matched \in BOOLEAN : ~ Finishes(s, stop_matched)
      BY DEF HFPostprocess
    <2> QED
      BY <2>1, <2>2, MaxTokensAssumption DEF Finishes
  <1>4. Inv' /\ \A r \in Seqs \ {s} : Idle(r)
    <2>1. Postprocess(s, FALSE)
      BY DEF HFPostprocess
    <2> QED
      BY <1>1, <2>1, PostprocessInv, OthersIdle
  <1>5. status[s] = "ACTIVE" /\ work'[s] = "idle" /\ num_computed'[s] = computed
    BY <1>1, <1>2 DEF Accounting, ReleaseSlot, TypeOK
  <1>6. num_generated(s)' = num_generated(s)
    BY <1>2 DEF num_generated
  <1>7. kv_cache' = [kv_cache EXCEPT ![s] = kv_cache[s]] /\ kv_cache[s] \in Seq(Tokens)
    BY DEF KeepCache, HFInv
  <1>8. Covered(s)' = Covered(s)
    <2>1. CASE num_generated(s) > 0
      BY <1>2, <1>6, <2>1 DEF Covered
    <2>2. CASE ~ (num_generated(s) > 0)
      <3>1. IsPrefilling(s)
        BY <1>1, <1>2, <1>5, <2>2 DEF Accounting
      <3>2. num_computed[s] \in Nat /\ num_tokens[s] \in Nat
        BY <1>1, Counts
      <3>3. Covered(s) = num_computed[s] + num_tokens[s]
        BY <1>2, <2>2 DEF Covered
      <3>4. Covered(s)' = (num_computed[s] + num_tokens[s]) + 0
        BY <1>5, <1>6, <2>2, <3>1 DEF Covered
      <3> QED
        BY <3>2, <3>3, <3>4
    <2> QED
      BY <2>1, <2>2
  <1>9. CacheOf(s)'
    BY <1>1, <1>2, <1>8 DEF CacheOf, KeepCache
  <1>10. NoneTerminal(s, Len(token_ids[s])) /\ NoneTerminal(s, Len(token_ids[s]) - 1)
    <2>1. NoneTerminal(s, Len(token_ids[s]) - 1)
      BY <1>1, <1>5 DEF Stage
    <2>2. PICK len \in Nat, plen \in Nat : Len(token_ids[s]) = len /\ prompt_len[s] = plen
      BY <1>1, Counts
    <2>3. num_generated(s) = len - plen
      BY <2>2 DEF num_generated
    <2>4. plen < len => token_ids[s][len] \notin Terminals[s]
      BY <1>3, <2>2, <2>3 DEF last_token
    <2>5. ASSUME NEW i \in Nat, plen < i, i <= len
          PROVE  token_ids[s][i] \notin Terminals[s]
      <3>1. CASE i <= len - 1
        BY <2>1, <2>2, <2>5, <3>1 DEF NoneTerminal
      <3>2. CASE i = len
        BY <2>4, <2>5, <3>2
      <3> QED
        BY <2>2, <2>5, <3>1, <3>2
    <2> QED
      BY <2>1, <2>2, <2>5 DEF NoneTerminal
  <1>11. Stage(s)'
    <2>1. NoneTerminal(s, Len(token_ids[s]))' /\ NoneTerminal(s, Len(token_ids[s]) - 1)'
      BY <1>2, <1>10 DEF NoneTerminal
    <2>2. num_generated(s)' <= MaxTokens
      BY <1>1, <1>6 DEF Stage
    <2> QED
      BY <1>2, <1>3, <1>5, <1>6, <2>1, <2>2 DEF Stage
  <1>12. DOMAIN hash_to_block_id' = {}
    BY <1>2 DEF HFInv, metaVars
  <1> QED
    BY <1>4, <1>7, <1>9, <1>11, <1>12, HFStepOf

\* The end of a request leaves neither pages nor a cache.
LEMMA EndsHF ==
    ASSUME HFInv, NEW s \in Seqs, HFPostprocess(s, TRUE) \/ Abort(s) \/ Fail(s, FALSE),
           DropCache(s), UNCHANGED model
    PROVE  HFInv'
  <1>1. Inv /\ TypeOK /\ BlockManagerTypeOK /\ Accounting(s) /\ Stage(s) /\ CacheOf(s)
    BY DEF HFInv, Inv, TypeOK
  <1>2. Inv' /\ \A r \in Seqs \ {s} : Idle(r)
    <2>1. CASE HFPostprocess(s, TRUE)
      <3>1. Postprocess(s, TRUE)
        BY <2>1 DEF HFPostprocess
      <3> QED
        BY <1>1, <3>1, PostprocessInv, OthersIdle
    <2>2. CASE Abort(s)
      BY <1>1, <2>2, AbortInv, OthersIdle
    <2>3. CASE Fail(s, FALSE)
      BY <1>1, <2>3, FailInv, OthersIdle
    <2> QED
      BY <2>1, <2>2, <2>3
  <1>3. /\ status'[s] = "FINISHED" /\ block_table'[s] = <<>> /\ work'[s] = "idle"
        /\ token_ids' = token_ids /\ prompt_len' = prompt_len
    <2>1. CASE HFPostprocess(s, TRUE)
      BY <1>1, <2>1 DEF HFPostprocess, Postprocess, deallocate, ReleaseSlot, TypeOK, BlockManagerTypeOK
    <2>2. CASE Abort(s)
      BY <1>1, <2>2 DEF Abort, deallocate, TypeOK, BlockManagerTypeOK, runVars
    <2>3. CASE Fail(s, FALSE)
      BY <1>1, <2>3 DEF Fail, deallocate, ReleaseSlot, TypeOK, BlockManagerTypeOK
    <2> QED
      BY <2>1, <2>2, <2>3
  <1>4. DOMAIN hash_to_block_id' = {}
    <2>1. \/ UNCHANGED hash_to_block_id
          \/ \E F : hash_to_block_id' = IndexWithout(F)
      BY DEF HFPostprocess, Postprocess, Abort, Fail, metaVars
    <2> QED
      BY <2>1, IndexStaysEmpty DEF HFInv
  <1>5. kv_cache' = [kv_cache EXCEPT ![s] = <<>>] /\ <<>> \in Seq(Tokens)
    BY DEF DropCache
  <1>6. CacheOf(s)'
    <2>1. kv_cache'[s] = <<>>
      BY <1>5 DEF HFInv
    <2> QED
      BY <1>3, <2>1 DEF CacheOf
  <1>7. Stage(s)'
    <2>1. num_generated(s)' = num_generated(s)
      BY <1>3 DEF num_generated
    <2> QED
      BY <1>1, <1>3, <2>1 DEF Stage
  <1> QED
    BY <1>2, <1>4, <1>5, <1>6, <1>7, HFStepOf

LEMMA ForgetHF ==
    ASSUME HFInv, NEW s \in Seqs, Forget(s), KeepCache, UNCHANGED model
    PROVE  HFInv'
  <1>1. Inv /\ TypeOK /\ BlockManagerTypeOK /\ Accounting(s) /\ Stage(s) /\ CacheOf(s)
    BY DEF HFInv, Inv, TypeOK
  <1>2. Inv' /\ \A r \in Seqs \ {s} : Idle(r)
    BY <1>1, ForgetInv, OthersIdle
  <1>3. /\ status[s] = "FINISHED" /\ status'[s] = "NEW" /\ work' = work
        /\ token_ids'[s] = <<>> /\ prompt_len'[s] = 0
        /\ UNCHANGED <<metaVars, block_table>>
    BY <1>1 DEF Forget, TypeOK, BlockManagerTypeOK, runVars
  <1>4. work[s] = "idle" /\ kv_cache[s] = <<>>
    BY <1>1, <1>3 DEF Accounting, CacheOf
  <1>5. kv_cache' = [kv_cache EXCEPT ![s] = kv_cache[s]] /\ kv_cache[s] \in Seq(Tokens)
    BY DEF KeepCache, HFInv
  <1>6. CacheOf(s)'
    BY <1>3, <1>4 DEF CacheOf, KeepCache
  <1>7. Stage(s)'
    <2>1. num_generated(s)' = 0
      <3>1. Len(<<>>) = 0
        OBVIOUS
      <3> QED
        BY <1>3, <3>1 DEF num_generated
    <2> QED
      BY <1>3, <1>4, <2>1, MaxTokensAssumption DEF Stage
  <1>8. DOMAIN hash_to_block_id' = {}
    BY <1>3 DEF HFInv, metaVars
  <1> QED
    BY <1>2, <1>5, <1>6, <1>7, <1>8, HFStepOf

-----------------------------------------------------------------------------
(* The invariance of it.                                                   *)

LEMMA InitHF == HFInit /\ ModelPredictsTokens => HFInv
  <1> SUFFICES ASSUME HFInit, ModelPredictsTokens
               PROVE  HFInv
    OBVIOUS
  <1>1. /\ Init /\ model \in Models /\ kv_cache = [s \in Seqs |-> <<>>]
        /\ status = [s \in Seqs |-> "NEW"] /\ work = [s \in Seqs |-> "idle"]
        /\ token_ids = [s \in Seqs |-> <<>>] /\ prompt_len = [s \in Seqs |-> 0]
        /\ hash_to_block_id = <<>>
    BY DEF HFInit, Init, BlockManagerInit
  <1>2. Inv
    BY <1>1, InitInv
  <1>3. DOMAIN hash_to_block_id = {}
    BY <1>1
  <1>4. ASSUME NEW s \in Seqs
        PROVE  CacheOf(s) /\ Stage(s)
    <2>1. /\ status[s] = "NEW" /\ work[s] = "idle" /\ token_ids[s] = <<>> /\ prompt_len[s] = 0
          /\ kv_cache[s] = <<>>
      BY <1>1
    <2>2. num_generated(s) = 0
      <3>1. Len(<<>>) = 0
        OBVIOUS
      <3> QED
        BY <2>1, <3>1 DEF num_generated
    <2>3. CacheOf(s)
      BY <2>1 DEF CacheOf
    <2>4. Stage(s)
      BY <2>1, <2>2, MaxTokensAssumption DEF Stage
    <2> QED
      BY <2>3, <2>4
  <1>5. kv_cache \in [Seqs -> Seq(Tokens)]
    BY <1>1
  <1> QED
    BY <1>1, <1>2, <1>3, <1>4, <1>5 DEF HFInv

\* What one step of one request is.
HFStep(s) ==
    \/ RunPrefill(s)
    \/ RunDecode(s)
    \/ RunSpeculative(s)
    \/ /\ \/ AddRequest(s)
          \/ \E chunk \in 0 .. prompt_len[s] : Admit(s, chunk)
          \/ \E chunk \in 1 .. prompt_len[s] : SchedulePrefill(s, chunk)
          \/ ScheduleDecode(s, HFLookahead(s))
          \/ HFPostprocess(s, FALSE)
          \/ Forget(s)
       /\ KeepCache /\ UNCHANGED model
    \/ /\ HFPostprocess(s, TRUE) \/ Abort(s) \/ Fail(s, FALSE)
       /\ DropCache(s) /\ UNCHANGED model

LEMMA StepsAre == HFNext => \E s \in Seqs : HFStep(s)
  BY DEF HFNext, HFStep

LEMMA StepHF ==
    ASSUME HFInv, [HFNext]_hfVars
    PROVE  HFInv'
  <1>1. CASE HFNext
    <2>1. PICK s \in Seqs : HFStep(s)
      BY <1>1, StepsAre
    <2>2. CASE RunPrefill(s)
      BY <2>2, RunPrefillDoes, ExtendsKeeps, ChunkKeeps
    <2>3. CASE RunDecode(s)
      BY <2>3, RunDecodeDoes, ExtendsKeeps
    <2>4. CASE RunSpeculative(s)
      BY <2>4, RunSpeculativeDoes, ExtendsKeeps
    <2>5. CASE AddRequest(s) /\ KeepCache /\ UNCHANGED model
      BY <2>5, AddRequestHF
    <2>6. CASE (\E chunk \in 0 .. prompt_len[s] : Admit(s, chunk)) /\ KeepCache /\ UNCHANGED model
      BY <2>6, AdmitHF
    <2>7. CASE /\ \E chunk \in 1 .. prompt_len[s] : SchedulePrefill(s, chunk)
               /\ KeepCache /\ UNCHANGED model
      BY <2>7, SchedulePrefillHF
    <2>8. CASE ScheduleDecode(s, HFLookahead(s)) /\ KeepCache /\ UNCHANGED model
      BY <2>8, ScheduleDecodeHF
    <2>9. CASE HFPostprocess(s, FALSE) /\ KeepCache /\ UNCHANGED model
      BY <2>9, GoesOnHF
    <2>10. CASE Forget(s) /\ KeepCache /\ UNCHANGED model
      BY <2>10, ForgetHF
    <2>11. CASE /\ HFPostprocess(s, TRUE) \/ Abort(s) \/ Fail(s, FALSE)
                /\ DropCache(s) /\ UNCHANGED model
      BY <2>11, EndsHF
    <2> QED
      BY <2>1, <2>2, <2>3, <2>4, <2>5, <2>6, <2>7, <2>8, <2>9, <2>10, <2>11 DEF HFStep
  <1>2. CASE UNCHANGED hfVars
    <2>1. UNCHANGED <<vars, model, kv_cache>>
      BY <1>2 DEF hfVars
    <2>2. Inv'
      <3>1. [Next]_vars
        BY <2>1
      <3> QED
        BY <3>1, StepInv DEF HFInv
    <2>3. /\ UNCHANGED <<bmVars, reqVars, runVars>> /\ kv_cache' = kv_cache /\ model' = model
      BY <2>1 DEF vars
    <2>4. \A r \in Seqs : Idle(r) /\ kv_cache'[r] = kv_cache[r]
      BY <2>3 DEF Idle, bmVars, reqVars, runVars
    <2>5. \A r \in Seqs : CacheOf(r)' /\ Stage(r)'
      BY <2>4, RequestElsewhere DEF HFInv
    <2>6. hash_to_block_id' = hash_to_block_id
      BY <2>3 DEF bmVars, metaVars
    <2> QED
      BY <2>2, <2>3, <2>5, <2>6 DEF HFInv, ModelPredictsTokens
  <1> QED
    BY <1>1, <1>2

\* In every state of the backend the pages are owned as the reference counts say, the
\* stages are what scheduler and runner make of them, and the caches follow the texts.
THEOREM HFInvariance == ModelPredictsTokens => (HFSpec => []HFInv)
  <1>1. HFInit /\ ModelPredictsTokens => HFInv
    BY InitHF
  <1>2. HFInv /\ [HFNext]_hfVars => HFInv'
    BY StepHF
  <1> QED
    BY <1>1, <1>2, PTL DEF HFSpec

\* The backend keeps its types, whatever is drafted, and no output exceeds max_tokens.
THEOREM HFTypeCorrectness == ModelPredictsTokens => (HFSpec => []HFTypeOK)
  <1>1. HFInv => HFTypeOK
    <2> SUFFICES ASSUME HFInv
                 PROVE  HFTypeOK
      OBVIOUS
    <2>1. \A s \in Seqs : num_generated(s) \in 0 .. MaxTokens
      <3> SUFFICES ASSUME NEW s \in Seqs
                   PROVE  num_generated(s) \in 0 .. MaxTokens
        OBVIOUS
      <3>1. num_generated(s) \in Nat
        BY Counts DEF HFInv, Inv
      <3>2. num_generated(s) <= MaxTokens
        BY DEF HFInv, Stage
      <3> QED
        BY <3>1, <3>2, MaxTokensAssumption
    <2> QED
      BY <2>1 DEF HFTypeOK, HFInv, Inv
  <1> QED
    BY <1>1, HFInvariance, PTL

\* After any drafts, rejections and crops a request's cache is the K/V of its own text but
\* for the last token, and a request that has ended has none: _crop_cache and
\* run_prefill's chunks.
THEOREM CachesFollowTexts == ModelPredictsTokens => (HFSpec => []CacheBehindText)
  <1>1. HFInv => CacheBehindText
    BY DEF HFInv, CacheOf, Covered, CacheBehindText
  <1> QED
    BY <1>1, HFInvariance, PTL

\* NGramProposer never misses a repetition in the text of a request.
THEOREM NoRepetitionMissed == ModelPredictsTokens => (HFSpec => []RepeatsAreDrafted)
  <1>1. HFInv => RepeatsAreDrafted
    BY RepeatsDrafted DEF HFInv, Inv
  <1> QED
    BY <1>1, HFInvariance, PTL

-----------------------------------------------------------------------------
(* The refinement of GreedyDecode: its text is the request's text.          *)

\* What is appended to a text is strictly longer and keeps it.
LEMMA StrictlyLonger ==
    ASSUME NEW text \in Seq(Tokens), NEW tokens \in Seq(Tokens), Len(tokens) > 0
    PROVE  Decode!IsStrictPrefix(text, text \o tokens)
  <1>1. PICK len \in Nat, n \in Nat \ {0} : Len(text) = len /\ Len(tokens) = n
    BY LenProperties
  <1>2. PICK whole \in Seq(Tokens) : IsJoint(whole, text, len, tokens, n)
    BY <1>1, Joined
  <1>3. Len(whole) = len + n /\ text \o tokens = whole
    BY <1>2 DEF IsJoint
  <1>4. Len(text) <= Len(whole) /\ text # whole
    BY <1>1, <1>3
  <1>5. SubSeq(text, 1, Len(text)) = SubSeq(whole, 1, Len(text))
    <2>1. len \in 0 .. Len(text) /\ len \in 0 .. Len(whole)
      BY <1>1, <1>3
    <2>2. PICK left \in Seq(Tokens) :
            /\ SubSeq(text, 1, len) = left /\ Len(left) = len
            /\ \A j \in 1 .. len : left[j] = text[j]
      BY <2>1, PrefixProperties
    <2>3. PICK right \in Seq(Tokens) :
            /\ SubSeq(whole, 1, len) = right /\ Len(right) = len
            /\ \A j \in 1 .. len : right[j] = whole[j]
      BY <2>1, PrefixProperties
    <2>4. \A j \in 1 .. len : left[j] = right[j]
      BY <1>2, <2>2, <2>3 DEF IsJoint
    <2>5. left = right
      BY <2>2, <2>3, <2>4, SameText
    <2> QED
      BY <1>1, <2>2, <2>3, <2>5
  <1> QED
    BY <1>3, <1>4, <1>5 DEF Decode!IsStrictPrefix, Decode!IsPrefix

\* The tokens of the output that a step appends are predicted for the text before them.
LEMMA PredictedInText ==
    ASSUME NEW text \in Seq(Tokens), NEW tokens \in Seq(Tokens), Follows(text, tokens),
           NEW i \in Nat, Len(text) < i, i <= Len(text) + Len(tokens)
    PROVE  (text \o tokens)[i] = Argmax(model, SubSeq(text \o tokens, 1, i - 1))
  <1>1. PICK len \in Nat, n \in Nat : Len(text) = len /\ Len(tokens) = n
    BY LenProperties
  <1>2. PICK whole \in Seq(Tokens) : IsJoint(whole, text, len, tokens, n)
    BY <1>1, Joined
  <1>3. PICK k \in 1 .. n : i = len + k
    <2>1. i - len \in 1 .. n /\ i = len + (i - len)
      BY <1>1
    <2> QED
      BY <2>1
  <1>4. PICK m \in 0 .. n : k - 1 = m
    <2>1. k - 1 \in 0 .. n
      OBVIOUS
    <2> QED
      BY <2>1
  <1>5. PICK before \in Nat : i - 1 = before /\ Len(text) + m = before
    <2>1. i - 1 \in Nat /\ Len(text) + m = i - 1
      BY <1>1, <1>3, <1>4
    <2> QED
      BY <2>1
  <1>6. SubSeq(text \o tokens, 1, before) = text \o SubSeq(tokens, 1, m)
    <2>1. m \in 0 .. Len(tokens)
      BY <1>1
    <2> QED
      BY <1>5, <2>1, PrefixBehind
  <1>7. tokens[k] = Argmax(model, text \o SubSeq(tokens, 1, k - 1))
    <2>1. k \in Nat /\ 1 <= k /\ k <= Len(tokens)
      BY <1>1
    <2> QED
      BY <2>1 DEF Follows
  <1>8. whole[i] = tokens[k] /\ text \o tokens = whole
    BY <1>2, <1>3 DEF IsJoint
  <1> QED
    BY <1>4, <1>5, <1>6, <1>7, <1>8

\* A step that extends a text emits tokens.
LEMMA ExtendsMaps ==
    ASSUME HFInv, NEW s \in Seqs, NEW tokens, Extends(s, tokens)
    PROVE  Decode!Emit(s)
  <1>1. /\ Records(s, tokens) /\ tokens \in Seq(Tokens) /\ Len(tokens) > 0
        /\ num_generated(s) + Len(tokens) <= MaxTokens
        /\ s \in Greedy => Follows(token_ids[s], tokens)
        /\ work[s] = "scheduled" /\ model' = model
    BY DEF Extends, Records, Ran
  <1>2. Inv /\ TypeOK /\ BlockManagerTypeOK
    BY DEF HFInv, Inv, TypeOK
  <1>3. /\ token_ids' = [token_ids EXCEPT ![s] = @ \o tokens]
        /\ token_ids'[s] = token_ids[s] \o tokens
        /\ Len(token_ids'[s]) = Len(token_ids[s]) + Len(tokens)
        /\ prompt_len' = prompt_len /\ status[s] = "ACTIVE"
    BY <1>1, <1>2, RecordsEffect
  <1>4. PICK text \in Seq(Tokens), len \in Nat, n \in Nat, plen \in Nat :
            /\ token_ids[s] = text /\ Len(text) = len /\ Len(tokens) = n
            /\ prompt_len[s] = plen
    <2>1. token_ids[s] \in Seq(Tokens) /\ prompt_len[s] \in Nat /\ Len(tokens) \in Nat
      BY <1>1, <1>2 DEF BlockManagerTypeOK
    <2> QED
      BY <2>1
  <1>5. token_ids[s] # <<>>
    <2>1. Len(token_ids[s]) > 0 /\ Len(<<>>) = 0
      BY <1>1, ScheduledRequest
    <2> QED
      BY <2>1
  <1>6. Decode!IsStrictPrefix(token_ids[s], token_ids'[s])
    BY <1>1, <1>3, <1>4, StrictlyLonger
  <1>7. token_ids' = [token_ids EXCEPT ![s] = token_ids'[s]]
    BY <1>3
  <1>8. Len(token_ids'[s]) <= prompt_len[s] + MaxTokens
    <2>1. num_generated(s) = len - plen
      BY <1>4 DEF num_generated
    <2> QED
      BY <1>1, <1>3, <1>4, <2>1, MaxTokensAssumption
  <1>9. ASSUME NEW i \in prompt_len[s] + 1 .. Len(token_ids'[s]) - 1
        PROVE  token_ids'[s][i] \notin Terminals[s]
    <2>1. HFInv'
      BY ExtendsKeeps
    <2>2. status'[s] = "ACTIVE"
      BY <1>1, <1>3 DEF Records, Ran, reqVars
    <2>3. NoneTerminal(s, Len(token_ids[s]) - 1)'
      BY <2>1, <2>2 DEF HFInv, Stage
    <2>4. i \in Nat /\ prompt_len'[s] < i /\ i <= Len(token_ids'[s]) - 1
      BY <1>3, <1>4
    <2> QED
      BY <2>3, <2>4 DEF NoneTerminal
  <1>10. ASSUME s \in Greedy, NEW i \in Len(token_ids[s]) + 1 .. Len(token_ids'[s])
         PROVE  token_ids'[s][i] = Argmax(model, SubSeq(token_ids'[s], 1, i - 1))
    <2>1. Follows(text, tokens) /\ token_ids'[s] = text \o tokens
      BY <1>1, <1>3, <1>4, <1>10
    <2>2. i \in Nat /\ Len(text) < i /\ i <= Len(text) + Len(tokens)
      BY <1>3, <1>4
    <2> QED
      BY <1>1, <2>1, <2>2, PredictedInText
  <1> QED
    BY <1>1, <1>3, <1>5, <1>6, <1>7, <1>8, <1>9, <1>10 DEF Decode!Emit

\* Every step of the backend emits, begins, ends, or leaves the texts alone.
LEMMA StepDecodes ==
    ASSUME HFInv, [HFNext]_hfVars
    PROVE  [Decode!Next]_(Decode!decodeVars)
  <1>1. CASE HFNext
    <2>1. PICK s \in Seqs : HFStep(s)
      BY <1>1, StepsAre
    <2> DEFINE Same == UNCHANGED <<model, token_ids, prompt_len>>
    <2>2. CASE \E tokens : Extends(s, tokens)
      BY <2>2, ExtendsMaps DEF Decode!Next
    <2>3. CASE RunPrefill(s)
      <3>1. CASE RunsChunk(s)
        <4>1. Same
          BY <3>1 DEF RunsChunk, Ran
        <4> QED
          BY <4>1 DEF Decode!decodeVars
      <3> QED
        BY <2>2, <2>3, <3>1, RunPrefillDoes
    <2>4. CASE RunDecode(s) \/ RunSpeculative(s)
      BY <2>2, <2>4, RunDecodeDoes, RunSpeculativeDoes
    <2>5. CASE AddRequest(s) /\ UNCHANGED model
      <3>1. token_ids[s] = <<>>
        BY <2>5 DEF AddRequest, HFInv, Stage
      <3>2. Decode!Begin(s)
        BY <2>5, <3>1 DEF AddRequest, Decode!Begin
      <3> QED
        BY <3>2 DEF Decode!Next
    <2>6. CASE Forget(s) /\ UNCHANGED model
      <3>1. Decode!End(s)
        BY <2>6 DEF Forget, Decode!End
      <3> QED
        BY <3>1 DEF Decode!Next
    <2>7. CASE /\ \/ \E chunk \in 0 .. prompt_len[s] : Admit(s, chunk)
                  \/ \E chunk \in 1 .. prompt_len[s] : SchedulePrefill(s, chunk)
                  \/ ScheduleDecode(s, HFLookahead(s))
                  \/ \E finish \in BOOLEAN : HFPostprocess(s, finish)
                  \/ Abort(s)
                  \/ Fail(s, FALSE)
               /\ UNCHANGED model
      <3>1. Same
        BY <2>7 DEF Admit, allocate, SchedulePrefill, bmVars, ScheduleDecode, may_append,
                    HFPostprocess, Postprocess, Abort, Fail
      <3> QED
        BY <3>1 DEF Decode!decodeVars
    <2> QED
      BY <2>1, <2>3, <2>4, <2>5, <2>6, <2>7 DEF HFStep
  <1>2. CASE UNCHANGED hfVars
    BY <1>2 DEF hfVars, vars, bmVars, Decode!decodeVars
  <1> QED
    BY <1>1, <1>2

\* Chunked prefill, private caches, n-gram drafts, verification and cropping are invisible:
\* a greedy request gets what the model predicts token by token, and no request gets a
\* token behind a terminal one or beyond max_tokens.
THEOREM BackendDecodesGreedily == ModelPredictsTokens => (HFSpec => ImplementsGreedyDecode)
  <1>1. HFInit => Decode!Init
    BY DEF HFInit, Init, BlockManagerInit, Decode!Init
  <1>2. HFInv /\ [HFNext]_hfVars => [Decode!Next]_(Decode!decodeVars)
    BY StepDecodes
  <1> QED
    BY <1>1, <1>2, HFInvariance, PTL DEF HFSpec, ImplementsGreedyDecode, Decode!Spec


-----------------------------------------------------------------------------
(* The pages that back the caches: what is recorded in them.                *)

\* Page p carries the tokens of the i-th block of a text, and its hash if they fill it.
PageText(p, text, i) ==
    /\ block_tokens[p] = BlockSlice(text, i)
    /\ Filled(Len(text), i) = BlockSize => block_hash[p] = PrefixHash(text, i)

PagesOf(s) ==
    block_table[s] # <<>> =>
        /\ Len(token_ids[s]) <= Len(block_table[s]) * BlockSize
        /\ \A i \in DOMAIN block_table[s] : PageText(block_table[s][i], token_ids[s], i)

\* An index that stays empty lets no two requests hold the same page.
Unshared ==
    \A s, r \in Seqs : s # r => Range(block_table[s]) \intersect Range(block_table[r]) = {}

PagesInv == Unshared /\ \A s \in Seqs : PagesOf(s)

\* A step leaves what is recorded in page p.
Kept(p) == block_tokens'[p] = block_tokens[p] /\ block_hash'[p] = block_hash[p]

LEMMA PageTextKept ==
    ASSUME NEW p, NEW text, NEW i, PageText(p, text, i), Kept(p)
    PROVE  PageText(p, text, i)'
  BY DEF PageText, Kept

LEMMA PagesElsewhere ==
    ASSUME NEW r \in Seqs, PagesOf(r), Idle(r), \A p \in Range(block_table[r]) : Kept(p)
    PROVE  PagesOf(r)'
  <1>1. block_table'[r] = block_table[r] /\ token_ids'[r] = token_ids[r]
    BY DEF Idle
  <1>2. ASSUME NEW i \in DOMAIN block_table[r], block_table[r] # <<>>
        PROVE  PageText(block_table[r][i], token_ids[r], i)'
    <2> DEFINE p == block_table[r][i]
               t == token_ids[r]
    <2>1. PageText(p, t, i) /\ Kept(p) /\ p' = p /\ t' = t
      BY <1>1, <1>2 DEF PagesOf, Range
    <2> QED
      BY <2>1 DEF PageText, Kept
  <1> QED
    BY <1>1, <1>2 DEF PagesOf

\* A step of request s that takes the free pages of F and writes no page of another request.
LEMMA PagesStep ==
    ASSUME HFInv, PagesInv, NEW s \in Seqs, NEW F \in SUBSET free_block_ids,
           Range(block_table'[s]) \subseteq Range(block_table[s]) \union F,
           \A r \in Seqs \ {s} : Idle(r),
           \A p \in Pages \ (F \union Range(block_table[s])) : Kept(p),
           PagesOf(s)'
    PROVE  PagesInv'
  <1>1. TypeOK /\ PoolConsistent /\ Unshared
    BY DEF HFInv, Inv, PagesInv
  <1>2. ASSUME NEW r \in Seqs \ {s}, NEW p \in Range(block_table[r])
        PROVE  p \in Pages /\ p \notin F /\ p \notin Range(block_table[s])
    <2>1. p \in Pages
      BY <1>1, Tables
    <2>2. r \in Holders(p)
      BY DEF Holders
    <2>3. p \notin F
      BY <1>1, <2>1, <2>2, HolderCounts
    <2> QED
      BY <1>1, <2>1, <2>3 DEF Unshared
  <1>3. \A r \in Seqs \ {s} : PagesOf(r)'
    <2> SUFFICES ASSUME NEW r \in Seqs \ {s}
                 PROVE  PagesOf(r)'
      OBVIOUS
    <2>1. PagesOf(r) /\ Idle(r) /\ \A p \in Range(block_table[r]) : Kept(p)
      BY <1>2 DEF PagesInv
    <2> QED
      BY <2>1, PagesElsewhere
  <1>4. Unshared'
    <2>1. \A r \in Seqs \ {s} : block_table'[r] = block_table[r]
      BY DEF Idle
    <2>2. \A r \in Seqs \ {s} : Range(block_table'[s]) \intersect Range(block_table'[r]) = {}
      BY <1>2, <2>1
    <2> QED
      BY <1>1, <2>1, <2>2 DEF Unshared
  <1> QED
    BY <1>3, <1>4 DEF PagesInv

\* A step that takes no page and writes none, and extends no text over pages.
LEMMA StillPages ==
    ASSUME HFInv, PagesInv, NEW s \in Seqs, UNCHANGED <<block_tokens, block_hash>>,
           \A r \in Seqs \ {s} : Idle(r),
           \/ block_table'[s] = <<>>
           \/ block_table'[s] = block_table[s] /\ token_ids'[s] = token_ids[s]
    PROVE  PagesInv'
  <1>1. \A p : Kept(p)
    BY DEF Kept
  <1>2. PagesOf(s)'
    <2>1. CASE block_table'[s] = <<>>
      BY <2>1 DEF PagesOf
    <2>2. CASE block_table'[s] = block_table[s] /\ token_ids'[s] = token_ids[s]
      <3>1. ASSUME NEW i \in DOMAIN block_table[s], block_table[s] # <<>>
            PROVE  PageText(block_table[s][i], token_ids[s], i)'
        <4> DEFINE p == block_table[s][i]
                   t == token_ids[s]
        <4>1. PageText(p, t, i) /\ Kept(p) /\ p' = p /\ t' = t
          BY <1>1, <2>2, <3>1 DEF PagesInv, PagesOf
        <4> QED
          BY <4>1 DEF PageText, Kept
      <3> QED
        BY <2>2, <3>1 DEF PagesInv, PagesOf
    <2> QED
      BY <2>1, <2>2
  <1>3. /\ {} \in SUBSET free_block_ids
        /\ Range(block_table'[s]) \subseteq Range(block_table[s]) \union {}
    BY DEF Range
  <1> QED
    BY <1>1, <1>2, <1>3, PagesStep


\* What is recorded follows the text.
LEMMA ExtendsPages ==
    ASSUME HFInv, PagesInv, NEW s \in Seqs, NEW tokens, Extends(s, tokens)
    PROVE  PagesInv'
  <1>1. /\ Records(s, tokens) /\ tokens \in Seq(Tokens) /\ Len(tokens) > 0
        /\ append_and_record(s, tokens)
        /\ Len(token_ids[s]) + Len(tokens) <= Len(block_table[s]) * BlockSize
        /\ block_table' = block_table
    BY DEF Extends, Records, Ran
  <1>2. Inv /\ TypeOK /\ IsInjective(block_table[s]) /\ PagesOf(s)
    BY DEF HFInv, Inv, PoolConsistent, PagesInv
  <1>3. /\ block_table[s] # <<>> /\ token_ids'[s] = token_ids[s] \o tokens
        /\ Len(token_ids'[s]) = Len(token_ids[s]) + Len(tokens)
        /\ \A r \in Seqs \ {s} : Idle(r)
    BY <1>1, <1>2, RecordsEffect
  <1>4. PICK text \in Seq(Tokens), table \in Seq(Pages), whole \in Seq(Tokens) :
            /\ token_ids[s] = text /\ block_table[s] = table /\ token_ids'[s] = whole
            /\ text \o tokens = whole
    <2>1. token_ids[s] \in Seq(Tokens) /\ block_table[s] \in Seq(Pages)
      BY <1>2, Tables
    <2>2. token_ids[s] \o tokens \in Seq(Tokens)
      BY <1>1, <2>1, ConcatProperties
    <2> QED
      BY <1>3, <2>1, <2>2
  <1>5. \A i \in DOMAIN table :
            /\ block_tokens[table[i]] = BlockSlice(text, i)
            /\ Filled(Len(text), i) = BlockSize => block_hash[table[i]] = PrefixHash(text, i)
    BY <1>2, <1>3, <1>4 DEF PagesOf, PageText
  <1>6. /\ \A i \in DOMAIN table :
            /\ block_tokens'[table[i]] = BlockSlice(whole, i)
            /\ Filled(Len(text) + Len(tokens), i) = BlockSize
                    => block_hash'[table[i]] = PrefixHash(whole, i)
        /\ \A p \in Pages \ Range(table) :
                block_tokens'[p] = block_tokens[p] /\ block_hash'[p] = block_hash[p]
    <2>1. \A i \in DOMAIN block_table[s] :
            /\ block_tokens[block_table[s][i]] = BlockSlice(text, i)
            /\ Filled(Len(text), i) = BlockSize
                    => block_hash[block_table[s][i]] = PrefixHash(text, i)
      BY <1>4, <1>5
    <2>2. Len(text) + Len(tokens) <= Len(block_table[s]) * BlockSize
      BY <1>1, <1>4
    <2>3. /\ \A i \in DOMAIN block_table[s] :
                /\ block_tokens'[block_table[s][i]] = BlockSlice(text \o tokens, i)
                /\ Filled(Len(text) + Len(tokens), i) = BlockSize
                        => block_hash'[block_table[s][i]] = PrefixHash(text \o tokens, i)
                /\ Filled(Len(text), i) = BlockSize =>
                        /\ block_tokens'[block_table[s][i]] = block_tokens[block_table[s][i]]
                        /\ block_hash'[block_table[s][i]] = block_hash[block_table[s][i]]
          /\ \A p \in Pages \ Range(block_table[s]) :
                block_tokens'[p] = block_tokens[p] /\ block_hash'[p] = block_hash[p]
      <3>1. TypeOK /\ IsInjective(block_table[s])
        BY <1>2
      <3>2. /\ token_ids[s] = text /\ tokens \in Seq(Tokens) /\ Len(tokens) > 0
            /\ append_and_record(s, tokens)
        BY <1>1, <1>4
      <3> QED
        BY <3>1, <3>2, <2>1, <2>2, RecordHolds
    <2> QED
      BY <1>4, <2>3
  <1>7. PagesOf(s)'
    <2>1. block_table'[s] = table /\ token_ids'[s] = whole /\ Len(whole) = Len(text) + Len(tokens)
      BY <1>1, <1>3, <1>4
    <2>2. ASSUME NEW i \in DOMAIN table
          PROVE  PageText(table[i], whole, i)'
      <3>1. /\ block_tokens'[table[i]] = BlockSlice(whole, i)
            /\ Filled(Len(whole), i) = BlockSize => block_hash'[table[i]] = PrefixHash(whole, i)
        BY <1>6, <2>1
      <3> QED
        BY <3>1 DEF PageText
    <2> QED
      BY <1>1, <1>3, <1>4, <2>1, <2>2 DEF PagesOf
  <1>8. /\ {} \in SUBSET free_block_ids
        /\ Range(block_table'[s]) \subseteq Range(block_table[s]) \union {}
        /\ \A p \in Pages \ ({} \union Range(block_table[s])) : Kept(p)
    BY <1>1, <1>4, <1>6 DEF Kept
  <1> QED
    BY <1>3, <1>7, <1>8, PagesStep

\* Admission finds nothing in the index: all pages are fresh.
LEMMA AdmitPages ==
    ASSUME HFInv, PagesInv, NEW s \in Seqs, NEW chunk \in 0 .. prompt_len[s], Admit(s, chunk)
    PROVE  PagesInv'
  <1>1. Inv /\ TypeOK /\ BlockManagerTypeOK /\ DOMAIN hash_to_block_id = {}
    BY DEF HFInv, Inv, TypeOK
  <1>2. /\ status[s] = "ACTIVE" /\ block_table[s] = <<>> /\ allocate(s, 1)
        /\ token_ids' = token_ids
    BY DEF Admit, allocate
  <1>3. PICK text \in Seq(Tokens) : token_ids[s] = text
    BY <1>1, Tables
  <1>4. Prompt(s) = text /\ Len(text) = prompt_len[s] /\ prompt_len[s] \in Nat
    BY <1>1, <1>2, <1>3, WholePrompt
  <1>5. PICK found \in Seq(Pages) : reusable_prefix_block_ids(s) = found
    BY <1>1, ReusableProperties
  <1>6. found = <<>> /\ Len(found) = 0 /\ Range(found) = {}
    <2>1. /\ reusable_prefix_block_ids(s) \in Seq(Pages)
          /\ Len(reusable_prefix_block_ids(s)) = ReusableBlocks(s) /\ ReusableBlocks(s) \in Nat
      BY <1>1, ReusableProperties, BlockCounts
    <2>2. ReusableBlocks(s) = 0
      <3>1. ReusableBlocks(s) * BlockSize = 0
        BY <1>1, NothingCached DEF cached_prefix_tokens
      <3>2. PICK k \in Nat, size \in Nat \ {0} : ReusableBlocks(s) = k /\ BlockSize = size
        BY <2>1, BlockSizeAssumption
      <3>3. k * size = 0 => k = 0
        BY SMTT(30)
      <3> QED
        BY <3>1, <3>2, <3>3
    <2>3. Len(found) = 0
      BY <1>5, <2>1, <2>2
    <2> QED
      BY <2>3 DEF Range
  <1>7. PICK n \in Int : required_blocks(prompt_len[s] + 1) - Len(found) = n
    <2>1. prompt_len[s] + 1 \in Nat
      BY <1>4
    <2>2. required_blocks(prompt_len[s] + 1) \in Nat
      BY <2>1, RoundsUp
    <2> QED
      BY <1>6, <2>2
  <1>8. PICK fresh \in FreshChoices(required_blocks(prompt_len[s] + 1) - Len(found),
                                    free_block_ids \ Range(found)) :
            LET grown == found \o fresh
                P == Range(fresh)
                Slice(p) == BlockSlice(text, LogicalBlock(grown, p))
            IN  /\ block_table' = [block_table EXCEPT ![s] = grown]
                /\ block_tokens' = [p \in Pages |->
                        IF p \in P THEN Slice(p) ELSE block_tokens[p]]
                /\ block_hash' = [p \in Pages |->
                        IF p \notin P THEN block_hash[p]
                        ELSE IF Len(Slice(p)) = BlockSize
                             THEN PrefixHash(text, LogicalBlock(grown, p))
                             ELSE NoHash]
                /\ computed_tokens' = [p \in Pages |->
                        IF p \in P THEN 0 ELSE computed_tokens[p]]
                /\ hash_to_block_id' = IndexWithout(P)
    BY <1>2, <1>4, <1>5 DEF allocate
  <1>9. PICK table \in Seq(Pages), F \in SUBSET free_block_ids :
            /\ found \o fresh = table /\ fresh = table /\ Range(fresh) = F /\ F \subseteq Pages
            /\ IsInjective(table)
    <2>1. free_block_ids \in SUBSET Pages
      BY <1>1 DEF BlockManagerTypeOK
    <2>2. fresh \in FreshChoices(n, free_block_ids)
      <3>1. Range(found) = {}
        BY <1>6
      <3>2. free_block_ids \ Range(found) = free_block_ids
        BY <3>1
      <3> QED
        BY <1>6, <1>7, <3>2
    <2>3. fresh \in Seq(Pages) /\ Range(fresh) \subseteq free_block_ids /\ IsInjective(fresh)
      BY <2>1, <2>2, FreshProperties
    <2>4. found \o fresh = fresh
      BY <1>6, <2>3
    <2> QED
      BY <2>1, <2>3, <2>4
  <1>10. /\ block_table' = [block_table EXCEPT ![s] = table]
         /\ \A p \in F :
                 /\ block_tokens'[p] = BlockSlice(text, LogicalBlock(table, p))
                 /\ block_hash'[p] = IF Len(BlockSlice(text, LogicalBlock(table, p))) = BlockSize
                                     THEN PrefixHash(text, LogicalBlock(table, p)) ELSE NoHash
                 /\ computed_tokens'[p] = 0
         /\ \A p \in Pages \ F : Kept(p)
    BY <1>8, <1>9 DEF Kept
  <1>11. block_table'[s] = table /\ token_ids'[s] = text
    BY <1>1, <1>2, <1>3, <1>10 DEF BlockManagerTypeOK
  <1>12. ASSUME NEW i \in DOMAIN table
         PROVE  PageText(table[i], text, i)'
    <2>1. PICK p \in F : table[i] = p
      BY <1>9 DEF Range
    <2>2. 0 \in Nat /\ 0 <= Base(i)
      <3>1. i \in Nat \ {0}
        OBVIOUS
      <3> QED
        BY <3>1, Blocks
    <2>3. PageHolds(p, text, i, 0)'
      BY <1>9, <1>10, <2>1, <2>2, FreshHolds
    <2>4. PageText(p, text, i)'
      BY <2>3 DEF PageHolds, PageText
    <2> QED
      BY <2>1, <2>4
  <1>13. PagesOf(s)'
    <2>1. Len(table) * BlockSize >= prompt_len[s] + 1
      BY <1>1, <1>2, <1>11, AllocateTypes
    <2>2. Len(text) <= Len(table) * BlockSize
      <3>1. Len(table) * BlockSize \in Nat
        BY BlockSizeAssumption, SMTT(30)
      <3> QED
        BY <1>4, <2>1, <3>1
    <2> QED
      BY <1>11, <1>12, <2>2 DEF PagesOf
  <1>14. \A r \in Seqs \ {s} : Idle(r)
    BY <1>1, OthersIdle
  <1>15. /\ Range(block_table'[s]) \subseteq Range(block_table[s]) \union F
         /\ \A p \in Pages \ (F \union Range(block_table[s])) : Kept(p)
    <2>1. Range(table) = F
      BY <1>9
    <2>2. Range(block_table'[s]) = F
      BY <1>11, <2>1
    <2>3. \A p \in Pages \ F : Kept(p)
      BY <1>10
    <2> QED
      BY <2>2, <2>3
  <1> QED
    BY <1>13, <1>14, <1>15, PagesStep

\* Lookahead adds empty pages behind the end of the text.
LEMMA ScheduleDecodePages ==
    ASSUME HFInv, PagesInv, NEW s \in Seqs, ScheduleDecode(s, HFLookahead(s))
    PROVE  PagesInv'
  <1>1. Inv /\ TypeOK /\ BlockManagerTypeOK /\ PagesOf(s) /\ PoolConsistent
    BY DEF HFInv, Inv, TypeOK, PagesInv
  <1>2. may_append(s, HFLookahead(s)) /\ token_ids' = token_ids
    BY DEF ScheduleDecode, may_append
  <1>3. PICK n \in Int : MissingPages(s, HFLookahead(s)) = n
    <2>1. num_generated(s) \in Nat
      BY <1>1, Counts
    <2>2. HFLookahead(s) \in Nat /\ Len(token_ids[s]) \in Nat /\ Len(block_table[s]) \in Nat
      BY <1>1, <2>1, LookaheadType, Counts, Tables
    <2>3. Len(token_ids[s]) + HFLookahead(s) \in Nat
      BY <2>2
    <2>4. required_blocks(Len(token_ids[s]) + HFLookahead(s)) \in Nat
      BY <2>3, RoundsUp
    <2> QED
      BY <2>2, <2>4 DEF MissingPages
  <1>4. PICK fresh \in FreshChoices(n, free_block_ids) :
            /\ block_table' = [block_table EXCEPT ![s] = @ \o fresh]
            /\ block_tokens' = [p \in Pages |-> IF p \in Range(fresh) THEN <<>> ELSE block_tokens[p]]
            /\ block_hash' = [p \in Pages |-> IF p \in Range(fresh) THEN NoHash ELSE block_hash[p]]
            /\ computed_tokens' = [p \in Pages |-> IF p \in Range(fresh) THEN 0 ELSE computed_tokens[p]]
    BY <1>2, <1>3 DEF may_append
  <1>5. fresh \in Seq(Pages) /\ Range(fresh) \subseteq free_block_ids /\ free_block_ids \subseteq Pages
    <2>1. free_block_ids \in SUBSET Pages
      BY <1>1 DEF BlockManagerTypeOK
    <2> QED
      BY <2>1, FreshProperties
  <1>6. PICK old \in Seq(Pages), text \in Seq(Tokens), table \in Seq(Pages),
             F \in SUBSET free_block_ids :
            /\ block_table[s] = old /\ token_ids[s] = text /\ IsGrown(table, old, fresh)
            /\ Range(fresh) = F
    <2>1. PICK old \in Seq(Pages), text \in Seq(Tokens) : block_table[s] = old /\ token_ids[s] = text
      BY <1>1, Tables
    <2>2. PICK table \in Seq(Pages) : IsGrown(table, old, fresh)
      BY <1>5, TableGrows
    <2> QED
      BY <1>5, <2>1, <2>2
  <1>7. /\ block_table' = [block_table EXCEPT ![s] = table]
        /\ \A p \in F : block_tokens'[p] = <<>> /\ computed_tokens'[p] = 0
        /\ \A p \in Pages \ F : Kept(p)
    <2>1. block_table' = [block_table EXCEPT ![s] = table]
      BY <1>4, <1>6 DEF IsGrown
    <2> QED
      BY <1>4, <1>5, <1>6, <2>1 DEF Kept
  <1>8. block_table'[s] = table /\ token_ids'[s] = text
    BY <1>1, <1>2, <1>6, <1>7 DEF BlockManagerTypeOK
  <1>9. old # <<>>
    <2>1. HFInv /\ work[s] = "idle" /\ status[s] = "ACTIVE" /\ num_generated(s) > 0
      BY DEF ScheduleDecode
    <2>2. /\ IsPrefilling(s) <=> num_generated(s) = 0
          /\ block_table[s] = <<>> => num_computed[s] = 0
          /\ prompt_len[s] > 0
      BY <2>1 DEF HFInv, Inv, Accounting
    <2>3. prompt_len[s] \in Nat /\ num_generated(s) \in Nat
      BY <1>1, Counts
    <2>4. block_table[s] # <<>>
      BY <2>1, <2>2, <2>3 DEF IsPrefilling, uncomputed_tokens
    <2> QED
      BY <1>6, <2>4
  <1>10. PICK k \in Nat : /\ Len(old) = k /\ Len(text) <= k * BlockSize
                          /\ \A i \in DOMAIN old : PageText(old[i], text, i)
    <2>1. Len(old) \in Nat
      OBVIOUS
    <2> QED
      BY <1>1, <1>6, <1>9, <2>1 DEF PagesOf
  <1>11. ASSUME NEW i \in DOMAIN table
         PROVE  PageText(table[i], text, i)'
    <2>1. i \in Nat \ {0} /\ IF i <= k THEN table[i] = old[i] /\ i \in DOMAIN old ELSE table[i] \in F
      BY <1>6, <1>10 DEF IsGrown
    <2>2. CASE i <= k
      <3>1. PICK p \in Pages : table[i] = p /\ old[i] = p /\ p \notin F
        <4>1. old[i] \in Pages /\ old[i] \in Range(old)
          BY <2>1, <2>2 DEF Range
        <4>2. s \in Holders(old[i])
          BY <1>6, <4>1 DEF Holders
        <4>3. old[i] \notin free_block_ids
          BY <1>1, <4>1, <4>2, HolderCounts
        <4> QED
          BY <2>1, <2>2, <4>1, <4>3
      <3>2. PageText(p, text, i) /\ Kept(p)
        BY <1>7, <1>10, <2>1, <2>2, <3>1
      <3>3. PageText(p, text, i)'
        BY <3>2, PageTextKept
      <3> QED
        BY <3>1, <3>3
    <2>3. CASE ~ (i <= k)
      <3>1. PICK p \in F : table[i] = p
        BY <2>1, <2>3
      <3>2. Len(text) <= Base(i)
        <4>1. k + 1 \in Nat \ {0} /\ k + 1 <= i /\ (k + 1) - 1 = k
          BY <1>10, <2>1, <2>3
        <4>2. Base(k + 1) <= Base(i) /\ Base(i) \in Nat /\ Base(k + 1) \in Nat
          BY <2>1, <4>1, Blocks
        <4>3. Base(k + 1) = k * BlockSize
          BY <4>1 DEF Base
        <4>4. Len(text) <= Base(k + 1)
          BY <1>10, <4>3
        <4> QED
          BY <4>2, <4>4
      <3>3. PageHolds(p, text, i, 0)'
        <4>1. 0 \in Nat /\ 0 <= Len(text)
          OBVIOUS
        <4> QED
          BY <1>7, <2>1, <3>1, <3>2, <4>1, EmptyHolds
      <3>4. PageText(p, text, i)'
        BY <3>3 DEF PageHolds, PageText
      <3> QED
        BY <3>1, <3>4
    <2> QED
      BY <2>2, <2>3
  <1>12. PagesOf(s)'
    <2>1. Len(text) <= Len(table) * BlockSize
      <3>1. k <= Len(table)
        BY <1>6, <1>10 DEF IsGrown
      <3>2. /\ k * BlockSize <= Len(table) * BlockSize
            /\ k * BlockSize \in Nat /\ Len(table) * BlockSize \in Nat
        BY <3>1, BlockSizeAssumption, SMTT(30)
      <3> QED
        BY <1>10, <3>2
    <2> QED
      BY <1>8, <1>11, <2>1 DEF PagesOf
  <1>13. \A r \in Seqs \ {s} : Idle(r)
    BY <1>1, OthersIdle
  <1>14. /\ Range(block_table'[s]) \subseteq Range(block_table[s]) \union F
         /\ \A p \in Pages \ (F \union Range(block_table[s])) : Kept(p)
    BY <1>6, <1>7, <1>8 DEF IsGrown
  <1> QED
    BY <1>12, <1>13, <1>14, PagesStep


LEMMA StepPages ==
    ASSUME HFInv, PagesInv, [HFNext]_hfVars
    PROVE  PagesInv'
  <1>1. Inv /\ TypeOK /\ BlockManagerTypeOK
    BY DEF HFInv, Inv, TypeOK
  <1>2. CASE HFNext
    <2>1. PICK s \in Seqs : HFStep(s)
      BY <1>2, StepsAre
    <2>2. CASE \E tokens : Extends(s, tokens)
      BY <2>2, ExtendsPages
    <2>3. CASE RunPrefill(s)
      <3>1. CASE RunsChunk(s)
        <4>1. /\ UNCHANGED <<block_tokens, block_hash>>
              /\ block_table'[s] = block_table[s] /\ token_ids'[s] = token_ids[s]
          BY <3>1 DEF RunsChunk, Ran
        <4>2. \A r \in Seqs \ {s} : Idle(r)
          BY <1>1, <3>1, ChunkInv
        <4> QED
          BY <4>1, <4>2, StillPages
      <3> QED
        BY <2>2, <2>3, <3>1, RunPrefillDoes
    <2>4. CASE RunDecode(s) \/ RunSpeculative(s)
      BY <2>2, <2>4, RunDecodeDoes, RunSpeculativeDoes
    <2>5. CASE \E chunk \in 0 .. prompt_len[s] : Admit(s, chunk)
      BY <2>5, AdmitPages
    <2>6. CASE ScheduleDecode(s, HFLookahead(s))
      BY <2>6, ScheduleDecodePages
    <2>7. CASE \/ \E chunk \in 1 .. prompt_len[s] : SchedulePrefill(s, chunk)
               \/ HFPostprocess(s, FALSE)
      <3>1. \A r \in Seqs \ {s} : Idle(r)
        BY <1>1, <2>7, OthersIdle DEF HFPostprocess
      <3>2. /\ UNCHANGED <<block_tokens, block_hash>>
            /\ block_table'[s] = block_table[s] /\ token_ids'[s] = token_ids[s]
        BY <2>7 DEF SchedulePrefill, HFPostprocess, Postprocess, bmVars, metaVars
      <3> QED
        BY <3>1, <3>2, StillPages
    <2>8. CASE AddRequest(s) \/ Forget(s)
      <3>1. \A r \in Seqs \ {s} : Idle(r)
        BY <1>1, <2>8, OthersIdle
      <3>2. block_table'[s] = <<>> /\ UNCHANGED <<block_tokens, block_hash>>
        <4>1. block_table[s] = <<>>
          BY <2>8 DEF AddRequest, Forget, HFInv, Inv, Accounting
        <4> QED
          BY <2>8, <4>1 DEF AddRequest, Forget, metaVars
      <3> QED
        BY <3>1, <3>2, StillPages
    <2>9. CASE HFPostprocess(s, TRUE) \/ Abort(s) \/ Fail(s, FALSE)
      <3>1. \A r \in Seqs \ {s} : Idle(r)
        BY <1>1, <2>9, OthersIdle DEF HFPostprocess
      <3>2. block_table'[s] = <<>>
        BY <1>1, <2>9 DEF HFPostprocess, Postprocess, Abort, Fail, deallocate, BlockManagerTypeOK
      <3>3. UNCHANGED <<block_tokens, block_hash>>
        BY <2>9 DEF HFPostprocess, Postprocess, Abort, Fail, metaVars
      <3> QED
        BY <3>1, <3>2, <3>3, StillPages
    <2> QED
      BY <2>1, <2>3, <2>4, <2>5, <2>6, <2>7, <2>8, <2>9 DEF HFStep
  <1>3. CASE UNCHANGED hfVars
    <2>1. UNCHANGED <<block_tokens, block_hash, block_table, token_ids>>
      BY <1>3 DEF hfVars, vars, bmVars, metaVars
    <2>2. ASSUME NEW r \in Seqs
          PROVE  PagesOf(r)'
      <3>1. PagesOf(r)
        BY DEF PagesInv
      <3> QED
        BY <2>1, <3>1 DEF PagesOf, PageText
    <2>3. Unshared'
      BY <2>1 DEF PagesInv, Unshared
    <2> QED
      BY <2>2, <2>3 DEF PagesInv
  <1> QED
    BY <1>2, <1>3

\* The slots of the next tokens are reserved, unshared and the next ones of their pages.
LEMMA CanRecordNext ==
    ASSUME HFInv, PagesInv, NEW s \in Seqs, block_table[s] # <<>>, NEW n \in Nat,
           Len(token_ids[s]) + n <= Len(block_table[s]) * BlockSize
    PROVE  ~ RecordRaises(s, n)
  <1>1. TypeOK /\ BlockManagerTypeOK /\ PoolConsistent /\ Unshared /\ PagesOf(s)
    BY DEF HFInv, Inv, TypeOK, PagesInv
  <1>2. PICK text \in Seq(Tokens), old \in Nat, room \in Nat :
            /\ token_ids[s] = text /\ Len(text) = old
            /\ Len(block_table[s]) * BlockSize = room /\ old + n <= room
    <2>1. token_ids[s] \in Seq(Tokens) /\ Len(block_table[s]) * BlockSize \in Nat
      BY <1>1, Tables, Counts
    <2>2. PICK text \in Seq(Tokens) : token_ids[s] = text
      BY <2>1
    <2> QED
      BY <2>1, <2>2
  <1>3. ASSUME NEW pos \in old .. old + n - 1
        PROVE  /\ IsMapped(s, pos)
               /\ EntryOffset(old, pos) = Len(block_tokens[physical_block_id(s, pos)])
               /\ ref_count[physical_block_id(s, pos)] = 1
    <2>1. pos \in Nat /\ pos < Len(block_table[s]) * BlockSize /\ old <= pos
      BY <1>2
    <2>2. IsMapped(s, pos)
      BY <1>1, <2>1, PositionMapped
    <2>3. PICK i \in DOMAIN block_table[s] :
            /\ i \in Nat \ {0}
            /\ physical_block_id(s, pos) = block_table[s][i]
            /\ block_table[s][i] \in Range(block_table[s]) /\ block_table[s][i] \in Pages
            /\ Offset(pos) \in 0 .. BlockSize - 1
            /\ pos = Base(i) + Offset(pos)
      BY <1>1, <2>1, SlotOf
    <2>4. EntryOffset(old, pos) = Filled(old, i)
      BY <2>1, <2>3, EntryIsFilled
    <2>5. Len(block_tokens[block_table[s][i]]) = Filled(old, i)
      <3>1. block_tokens[block_table[s][i]] = BlockSlice(text, i)
        BY <1>1, <1>2 DEF PagesOf, PageText
      <3> QED
        BY <1>2, <2>3, <3>1, SliceProperties
    <2>6. ref_count[block_table[s][i]] = 1
      <3>1. Holders(block_table[s][i]) = {s}
        BY <1>1, <2>3 DEF Holders, Unshared
      <3> QED
        BY <1>1, <2>3, <3>1, FS_Singleton DEF PoolConsistent
    <2> QED
      BY <2>2, <2>3, <2>4, <2>5, <2>6
  <1>4. \A pos \in old .. old + n - 1 :
            /\ IsMapped(s, pos)
            /\ EntryOffset(old, pos) = Len(block_tokens[physical_block_id(s, pos)])
            /\ ~ (ref_count[physical_block_id(s, pos)] > 1)
    BY <1>3
  <1> QED
    BY <1>2, <1>4 DEF RecordRaises

LEMMA NothingRaises == HFInv /\ PagesInv => HFNeverRaises
  <1> SUFFICES ASSUME HFInv, PagesInv, NEW s \in Seqs
               PROVE  /\ ~ DeallocateRaises(s)
                      /\ work[s] = "scheduled" =>
                          IF IsPrefilling(s)
                          THEN /\ num_tokens[s] > 0
                               /\ num_tokens[s] = uncomputed_tokens(s) => ~ RecordRaises(s, 1)
                          ELSE /\ num_generated(s) < MaxTokens
                               /\ ~ RecordRaises(s, Len(DraftsFor(s)) + 1)
    BY DEF HFNeverRaises
  <1>1. Inv /\ TypeOK
    BY DEF HFInv, Inv
  <1>2. ~ DeallocateRaises(s)
    BY <1>1, CanRelease
  <1>3. ASSUME work[s] = "scheduled", IsPrefilling(s)
        PROVE  num_tokens[s] > 0 /\ ~ RecordRaises(s, 1)
    <2>1. num_tokens[s] > 0
      BY <1>3 DEF HFInv, Stage
    <2>2. block_table[s] # <<>> /\ Len(token_ids[s]) + 1 <= Len(block_table[s]) * BlockSize
      BY <1>3, ScheduledRequest
    <2> QED
      BY <2>1, <2>2, CanRecordNext
  <1>4. ASSUME work[s] = "scheduled", ~ IsPrefilling(s)
        PROVE  num_generated(s) < MaxTokens /\ ~ RecordRaises(s, Len(DraftsFor(s)) + 1)
    <2>1. /\ block_table[s] # <<>> /\ num_generated(s) \in Nat /\ num_generated(s) < MaxTokens
          /\ num_tokens[s] = HFLookahead(s)
          /\ Len(token_ids[s]) + num_tokens[s] <= Len(block_table[s]) * BlockSize
      BY <1>4, ScheduledRequest
    <2>2. token_ids[s] \in Seq(Tokens)
      BY <1>1, Tables
    <2>3. DraftsFor(s) \in Seq(Tokens) /\ Len(DraftsFor(s)) + 1 <= HFLookahead(s)
      BY <2>1, <2>2, DraftsBounded
    <2>4. PICK n \in Nat : Len(DraftsFor(s)) + 1 = n
      <3>1. Len(DraftsFor(s)) + 1 \in Nat
        BY <2>3
      <3> QED
        BY <3>1
    <2>5. Len(token_ids[s]) + n <= Len(block_table[s]) * BlockSize
      <3>1. PICK len \in Nat, room \in Nat, m \in Nat :
                /\ Len(token_ids[s]) = len /\ Len(block_table[s]) * BlockSize = room
                /\ num_tokens[s] = m /\ len + m <= room /\ n <= m
        BY <1>1, <2>1, <2>3, <2>4, Counts
      <3> QED
        BY <3>1
    <2>6. ~ RecordRaises(s, n)
      BY <2>1, <2>5, CanRecordNext
    <2> QED
      BY <2>1, <2>4, <2>6
  <1> QED
    BY <1>2, <1>3, <1>4

\* The pages that stand for the caches are never shared, and carry the blocks of each
\* request's text, whatever bursts were recorded in them.
THEOREM PagesFollowTexts == ModelPredictsTokens => (HFSpec => []PagesInv)
  <1>1. HFInit => PagesInv
    <2> SUFFICES ASSUME HFInit
                 PROVE  PagesInv
      OBVIOUS
    <2>1. \A s \in Seqs : block_table[s] = <<>>
      BY DEF HFInit, Init, BlockManagerInit
    <2>2. Range(<<>>) = {}
      BY DEF Range
    <2> QED
      BY <2>1, <2>2 DEF PagesInv, Unshared, PagesOf
  <1>2. HFInv /\ PagesInv /\ [HFNext]_hfVars => PagesInv'
    BY StepPages
  <1> QED
    BY <1>1, <1>2, HFInvariance, PTL DEF HFSpec

\* The allocator's internal errors cannot be raised by this backend: it has reserved
\* unshared slots for every token of a burst, it is never scheduled without tokens to run,
\* and it is never asked for a token beyond max_tokens.
THEOREM BackendNeverRaises == ModelPredictsTokens => (HFSpec => []HFNeverRaises)
  <1>1. HFInv /\ PagesInv => HFNeverRaises
    BY NothingRaises
  <1> QED
    BY <1>1, HFInvariance, PagesFollowTexts, PTL

=============================================================================
