---------------------------- MODULE EngineProofs ----------------------------
(***************************************************************************)
(* Every turn of the engine is a step of the paged runner, so what is      *)
(* proved of PagedRunner holds of the engine.  What the engine adds is its *)
(* queues, its batch, its budget and its loops: the theorems about these   *)
(* are for any modes, limits and number of requests.                       *)
(***************************************************************************)
EXTENDS Engine, QueueLemmas, PagedRunnerProofs

\* What is left to run of a prompt that has no pages yet.
LEMMA AdmitChunk ==
    ASSUME Inv, NEW s \in Seqs, NEW chunk, Admit(s, chunk)
    PROVE  chunk \in 0 .. prompt_len[s]
  <1>1. status[s] = "ACTIVE" /\ chunk \in 0 .. prompt_len[s] - cached_prefix_tokens(s)
    BY DEF Admit
  <1>2. prompt_len[s] \in Nat /\ prompt_len[s] > 0 /\ BlockManagerTypeOK
    BY <1>1, Counts DEF Inv, TypeOK, Accounting
  <1>3. cached_prefix_tokens(s) \in 0 .. prompt_len[s] - 1
    BY <1>2, CachedPrefixShorter
  <1> QED
    BY <1>1, <1>2, <1>3

LEMMA AdmitStep ==
    ASSUME Inv, NEW s \in Seqs, NEW chunk, Admit(s, chunk)
    PROVE  Next
  BY AdmitChunk DEF Next

LEMMA SchedulePrefillStep ==
    ASSUME Inv, NEW s \in Seqs, NEW chunk, SchedulePrefill(s, chunk)
    PROVE  Next
  <1>1. chunk \in 1 .. uncomputed_tokens(s)
    BY DEF SchedulePrefill
  <1>2. prompt_len[s] \in Nat /\ num_computed[s] \in Nat
    BY Counts DEF Inv
  <1>3. chunk \in 1 .. prompt_len[s]
    BY <1>1, <1>2 DEF uncomputed_tokens
  <1> QED
    BY <1>3 DEF Next

LEMMA ScheduleDecodeStep ==
    ASSUME Inv, NEW s \in Seqs, NEW n, ScheduleDecode(s, n)
    PROVE  Next
  <1> DEFINE g == num_generated(s)
             m == Max({1, MaxTokens - g})
  <1>1. n \in {1, Min({1 + MaxDraft, m})}
    BY DEF ScheduleDecode, Lookaheads
  <1>2. g \in Int
    BY Counts DEF Inv, num_generated
  <1>3. MaxDraft \in Nat /\ MaxTokens \in Nat
    BY MaxDraftAssumption, MaxTokensAssumption
  <1> HIDE DEF g
  <1>4. m \in Int /\ m >= 1
    BY <1>2, <1>3, MaxOfTwo
  <1> HIDE DEF m
  <1>5. Min({1 + MaxDraft, m}) \in 1 .. 1 + MaxDraft
    BY <1>3, <1>4, MinOfTwo
  <1>6. n \in 1 .. 1 + MaxDraft
    BY <1>1, <1>3, <1>5
  <1> QED
    BY <1>6 DEF Next

\* Every step of the engine is a step of the paged runner or leaves the requests
\* and the pages alone.
LEMMA EngineStep ==
    ASSUME Inv, [EngineNext]_engineVars
    PROVE  [Next]_vars
  <1>1. CASE UNCHANGED engineVars
    BY <1>1 DEF engineVars
  <1>2. CASE StartStep \/ EndPrefill \/ EndDecode \/ NextGroup \/ EndRun \/ EndStep \/ ModelError
    BY <1>2 DEF StartStep, EndPrefill, EndDecode, NextGroup, EndRun, EndStep, ModelError
  <1>3. ASSUME NEW s \in Seqs, AdmitPrompt(s)
        PROVE  [Next]_vars
    BY <1>3, AdmitStep DEF AdmitPrompt
  <1>4. ASSUME NEW s \in Seqs, PrefillChunk(s)
        PROVE  [Next]_vars
    BY <1>4, AdmitStep, SchedulePrefillStep DEF PrefillChunk
  <1>5. ASSUME NEW s \in Seqs, DecodeTurn(s)
        PROVE  [Next]_vars
    BY <1>5, ScheduleDecodeStep DEF DecodeTurn
  <1>6. ASSUME NEW s \in Seqs, NEW drafts \in Drafts, RunForward(s, drafts)
        PROVE  [Next]_vars
    BY <1>6 DEF RunForward, Next
  <1>7. ASSUME NEW s \in Seqs, RunCommit(s)
        PROVE  [Next]_vars
    BY <1>7 DEF RunCommit, Next
  <1>8. ASSUME NEW s \in Seqs, NEW finish \in BOOLEAN, PostItem(s, finish)
        PROVE  [Next]_vars
    BY <1>8 DEF PostItem, Next
  <1>9. ASSUME NEW s \in Seqs, NEW torn \in BOOLEAN, FailItem(s, torn)
        PROVE  [Next]_vars
    BY <1>9 DEF FailItem, Handle, Next
  <1>10. ASSUME NEW s \in Seqs, Arrive(s) \/ Cancel(s) \/ Drop(s)
         PROVE  [Next]_vars
    BY <1>10 DEF Arrive, Cancel, Drop, Next
  <1> QED
    BY <1>1, <1>2, <1>3, <1>4, <1>5, <1>6, <1>7, <1>8, <1>9, <1>10 DEF EngineNext, Step

LEMMA EngineInvariance == EngineSpec => []Inv
  <1>1. EngineInit => Inv
    BY InitInv DEF EngineInit
  <1>2. Inv /\ [EngineNext]_engineVars => Inv'
    BY EngineStep, StepInv
  <1> QED
    BY <1>1, <1>2, PTL DEF EngineSpec

\* So the engine's behaviours are among those of the paged runner.
LEMMA EngineRefinesRunner == EngineSpec => Spec
  <1>1. EngineInit => Init
    BY DEF EngineInit
  <1>2. Inv /\ [EngineNext]_engineVars => [Next]_vars
    BY EngineStep
  <1> QED
    BY <1>1, <1>2, EngineInvariance, PTL DEF EngineSpec, Spec

\* No schedule and no model error makes the engine leak a page or lose count of
\* its holders.
THEOREM EngineKeepsPool == EngineSpec => [](PoolConsistent /\ PagesReturned)
  BY EngineRefinesRunner, OwnershipConsistent, NoPageLeaks, PTL

\* Nor makes it a request read another's K/V, the prefix index name a page with
\* other contents, a forward pass miss part of its context, or the allocator raise.
THEOREM EngineKeepsContents ==
    EngineSpec => [](NoForeignKV /\ IndexSound /\ ForwardReadsValid /\ NeverRaises)
  BY EngineRefinesRunner, NoRequestReadsForeignKV, IndexAlwaysSound,
     ForwardFindsItsContext, NoInternalError, PTL

\* Under the scheduler too the pages are as good as a cache of its own for each
\* request, and what one request has published no other writes.
THEOREM EngineRefinesPrivateCache ==
    EngineSpec => ImplementsPrivateCache /\ ValidSlotsImmutable
  BY EngineRefinesRunner, RunnerRefinesPrivateCache, ValidSlotsAreImmutable, PTL

-----------------------------------------------------------------------------
(* Queues without repetitions.                                             *)

\* A rotation neither adds nor drops a request.
LEMMA RotatedQueue ==
    ASSUME NEW S, NEW queue \in Seq(S), IsInjective(queue), queue # <<>>
    PROVE  /\ Rotated(queue) \in Seq(S)
           /\ IsInjective(Rotated(queue))
           /\ Range(Rotated(queue)) = Range(queue)
           /\ Len(Rotated(queue)) = Len(queue)
           /\ Rotated(queue)[Len(queue)] = Head(queue)
           /\ \A i \in 1 .. Len(queue) - 1 : Rotated(queue)[i] = queue[i + 1]
  <1> DEFINE rest == Tail(queue)
             first == Head(queue)
  <1>1. /\ first \in S /\ first \in Range(queue)
        /\ rest \in Seq(S) /\ IsInjective(rest)
        /\ Range(rest) = Range(queue) \ {first}
        /\ Len(rest) = Len(queue) - 1
        /\ \A i \in 1 .. Len(queue) - 1 : rest[i] = queue[i + 1]
    BY TailOfQueue
  <1>2. Len(queue) \in Nat /\ Rotated(queue) = Append(rest, first)
    BY DEF Rotated
  <1> HIDE DEF rest, first
  <1>3. first \notin Range(rest)
    BY <1>1
  <1>4. /\ Append(rest, first) \in Seq(S)
        /\ IsInjective(Append(rest, first))
        /\ Range(Append(rest, first)) = Range(rest) \union {first}
        /\ Len(Append(rest, first)) = Len(rest) + 1
    BY <1>1, <1>3, AppendToQueue
  <1>5. /\ Append(rest, first)[Len(rest) + 1] = first
        /\ \A i \in 1 .. Len(rest) : Append(rest, first)[i] = rest[i]
    BY <1>1
  <1>6. Range(rest) \union {first} = Range(queue)
    BY <1>1
  <1>7. Append(rest, first)[Len(queue)] = first
    BY <1>1, <1>2, <1>5
  <1>8. \A i \in 1 .. Len(queue) - 1 : Append(rest, first)[i] = queue[i + 1]
    BY <1>1, <1>2, <1>5
  <1>9. Len(Append(rest, first)) = Len(queue)
    BY <1>1, <1>2, <1>4
  <1> DEFINE r == Append(rest, first)
  <1> HIDE DEF r
  <1> QED
    BY <1>2, <1>4, <1>6, <1>7, <1>8, <1>9 DEF first, r

LEMMA WithoutFromQueue ==
    ASSUME NEW S, NEW queue \in Seq(S), IsInjective(queue), NEW s
    PROVE  /\ Without(queue, s) \in Seq(S)
           /\ IsInjective(Without(queue, s))
           /\ Range(Without(queue, s)) = Range(queue) \ {s}
  BY RemoveFromQueue DEF Without

-----------------------------------------------------------------------------
(* The scheduler's invariant.                                              *)

\* The requests that belong into each queue, and those of the batch.
Waits(s) == status[s] = "ACTIVE" /\ IsPrefilling(s) /\ ~ FinalChunk(s)
Runs(s) == status[s] = "ACTIVE" /\ ~ IsPrefilling(s)
Works(s) == work[s] # "idle"

\* What each loop of the step relies on: a step starts with an empty batch, and
\* the loop over the waiting queue has no more turns than there are requests,
\* whatever it has popped and rotated.
Turns ==
    /\ pc = "idle" => batch = <<>>
    /\ pc = "prefill" => left <= Len(waiting)
    /\ pc = "decode" => left <= Len(running)
    /\ pc # "idle" => report = "none"

SchedulerInv == SchedulerTypeOK /\ Turns /\ QueuesExact /\ BatchAtWork

\* The request's place in the step and in the queues is where it was.
Same(r) ==
    /\ status'[r] = status[r] /\ num_computed'[r] = num_computed[r]
    /\ prompt_len'[r] = prompt_len[r]
    /\ work'[r] = work[r] /\ num_tokens'[r] = num_tokens[r]

\* A queue after a step for s: the others of the queue are those they were.
OthersStay(s, queue, next) ==
    /\ IsInjective(next)
    /\ Range(next) \subseteq Seqs
    /\ \A r \in Seqs \ {s} : r \in Range(next) <=> r \in Range(queue)

LEMMA QueuesAfter ==
    ASSUME QueuesExact, NEW s \in Seqs, \A r \in Seqs \ {s} : Same(r),
           OthersStay(s, waiting, waiting'), OthersStay(s, running, running'),
           s \in Range(waiting') <=> Waits(s)',
           s \in Range(running') <=> Runs(s)'
    PROVE  QueuesExact'
  <1>1. ASSUME NEW r \in Seqs \ {s}
        PROVE  (Waits(r)' <=> Waits(r)) /\ (Runs(r)' <=> Runs(r))
    BY DEF Same, Waits, Runs, FinalChunk, IsPrefilling, uncomputed_tokens
  <1>2. /\ \A r \in Seqs : r \in Range(waiting) <=> Waits(r)
        /\ \A r \in Seqs : r \in Range(running) <=> Runs(r)
    BY DEF QueuesExact, Waits, Runs
  <1>3. /\ \A r \in Seqs : r \in Range(waiting') <=> Waits(r)'
        /\ \A r \in Seqs : r \in Range(running') <=> Runs(r)'
    BY <1>1, <1>2 DEF OthersStay
  <1>4. /\ Range(waiting') \subseteq Seqs /\ IsInjective(waiting')
        /\ Range(running') \subseteq Seqs /\ IsInjective(running')
    BY DEF OthersStay
  <1> HIDE DEF Waits, Runs
  <1>5. /\ Range(waiting)' = {r \in Seqs : Waits(r)}'
        /\ Range(running)' = {r \in Seqs : Runs(r)}'
        /\ IsInjective(waiting)' /\ IsInjective(running)'
    BY <1>3, <1>4 DEF Range, IsInjective
  <1> QED
    BY <1>5 DEF QueuesExact, Waits, Runs

LEMMA BatchAfter ==
    ASSUME BatchAtWork, NEW s \in Seqs, \A r \in Seqs \ {s} : Same(r),
           OthersStay(s, batch, batch'), s \in Range(batch') <=> Works(s)'
    PROVE  BatchAtWork'
  <1>1. \A r \in Seqs \ {s} : Works(r)' <=> Works(r)
    BY DEF Same, Works
  <1>2. \A r \in Seqs : r \in Range(batch) <=> Works(r)
    BY DEF BatchAtWork, Works
  <1>3. \A r \in Seqs : r \in Range(batch') <=> Works(r)'
    BY <1>1, <1>2 DEF OthersStay
  <1>4. Range(batch') \subseteq Seqs /\ IsInjective(batch')
    BY DEF OthersStay
  <1> HIDE DEF Works
  <1>5. Range(batch)' = {r \in Seqs : Works(r)}' /\ IsInjective(batch)'
    BY <1>3, <1>4 DEF Range, IsInjective
  <1> QED
    BY <1>5 DEF BatchAtWork, Works

LEMMA QueueStays ==
    ASSUME NEW queue \in Seq(Seqs), IsInjective(queue), NEW s
    PROVE  OthersStay(s, queue, queue)
  BY RangeOfSeq DEF OthersStay, Range

\* The queues hold the requests that belong there, and the batch those at work.
LEMMA Members ==
    ASSUME QueuesExact, BatchAtWork, NEW s \in Seqs
    PROVE  /\ s \in Range(waiting) <=> Waits(s)
           /\ s \in Range(running) <=> Runs(s)
           /\ s \in Range(batch) <=> Works(s)
           /\ IsInjective(waiting) /\ IsInjective(running) /\ IsInjective(batch)
  BY DEF QueuesExact, BatchAtWork, Waits, Runs, Works


-----------------------------------------------------------------------------
(* What the runner's actions do to a request's place.                      *)

LEMMA AdmitPlaces ==
    ASSUME Inv, NEW s \in Seqs, NEW chunk, Admit(s, chunk)
    PROVE  /\ \A r \in Seqs \ {s} : Same(r)
           /\ Waits(s) /\ ~ Runs(s) /\ ~ Works(s)
           /\ ~ Runs(s)'
           /\ Uncached(s) \in Nat \ {0} /\ chunk \in 0 .. Uncached(s)
           /\ Works(s)' <=> chunk > 0
           /\ Waits(s)' <=> chunk < Uncached(s)
  <1> DEFINE cached == cached_prefix_tokens(s)
  <1>1. TypeOK /\ BlockManagerTypeOK /\ Accounting(s)
    BY DEF Inv, TypeOK
  <1>2. /\ status[s] = "ACTIVE" /\ work[s] = "idle" /\ block_table[s] = <<>>
        /\ prompt_len' = prompt_len /\ status' = status
        /\ chunk \in 0 .. prompt_len[s] - cached
        /\ num_computed' = [num_computed EXCEPT ![s] = cached]
        /\ chunk > 0 => Schedule(s, chunk)
        /\ ~ (chunk > 0) => UNCHANGED runVars
    BY DEF Admit, allocate
  <1>3. /\ num_computed[s] = 0 /\ prompt_len[s] > 0 /\ prompt_len[s] \in Nat
    BY <1>1, <1>2, Counts DEF Accounting
  <1>4. cached \in 0 .. prompt_len[s] - 1
    BY <1>1, <1>3, CachedPrefixShorter
  <1> HIDE DEF cached
  <1>5. Uncached(s) = prompt_len[s] - cached
    BY DEF Uncached, cached
  <1>6. /\ status \in [Seqs -> {"NEW", "ACTIVE", "FINISHED"}] /\ num_computed \in [Seqs -> Nat]
        /\ work \in [Seqs -> {"idle", "scheduled", "forwarded", "done"}]
        /\ num_tokens \in [Seqs -> Nat]
    BY <1>1 DEF TypeOK
  <1>7. Waits(s) /\ ~ Runs(s) /\ ~ Works(s)
    BY <1>2, <1>3 DEF Waits, Runs, Works, IsPrefilling, uncomputed_tokens, FinalChunk
  <1>8. num_computed'[s] = cached /\ \A r \in Seqs \ {s} : num_computed'[r] = num_computed[r]
    BY <1>2, <1>6
  <1>9. CASE chunk > 0
    <2>1. /\ work' = [work EXCEPT ![s] = "scheduled"]
          /\ num_tokens' = [num_tokens EXCEPT ![s] = chunk]
      BY <1>2, <1>9 DEF Schedule
    <2>2. /\ work'[s] = "scheduled" /\ num_tokens'[s] = chunk
          /\ \A r \in Seqs \ {s} : work'[r] = work[r] /\ num_tokens'[r] = num_tokens[r]
      BY <1>6, <2>1
    <2>3. \A r \in Seqs \ {s} : Same(r)
      BY <1>2, <1>8, <2>2 DEF Same
    <2>4. Works(s)' /\ ~ Runs(s)' /\ (Waits(s)' <=> chunk < Uncached(s))
      BY <1>2, <1>3, <1>4, <1>5, <1>8, <2>2
         DEF Waits, Runs, Works, IsPrefilling, uncomputed_tokens, FinalChunk
    <2> QED
      BY <1>2, <1>3, <1>4, <1>5, <1>7, <1>9, <2>3, <2>4
  <1>10. CASE ~ (chunk > 0)
    <2>1. work' = work /\ num_tokens' = num_tokens
      BY <1>2, <1>10 DEF runVars
    <2>2. \A r \in Seqs \ {s} : Same(r)
      BY <1>2, <1>8, <2>1 DEF Same
    <2>3. ~ Works(s)' /\ ~ Runs(s)' /\ Waits(s)'
      BY <1>2, <1>3, <1>4, <1>8, <2>1
         DEF Waits, Runs, Works, IsPrefilling, uncomputed_tokens, FinalChunk
    <2> QED
      BY <1>2, <1>3, <1>4, <1>5, <1>7, <1>10, <2>2, <2>3
  <1> QED
    BY <1>9, <1>10

LEMMA SchedulePrefillPlaces ==
    ASSUME Inv, NEW s \in Seqs, NEW chunk, SchedulePrefill(s, chunk)
    PROVE  /\ \A r \in Seqs \ {s} : Same(r)
           /\ Waits(s) /\ ~ Runs(s) /\ ~ Works(s)
           /\ ~ Runs(s)' /\ Works(s)'
           /\ Waits(s)' <=> chunk < uncomputed_tokens(s)
  <1>1. TypeOK /\ uncomputed_tokens(s) \in Int
    BY Counts DEF Inv
  <1>2. /\ status[s] = "ACTIVE" /\ work[s] = "idle"
        /\ prompt_len' = prompt_len /\ status' = status /\ num_computed' = num_computed
        /\ chunk \in 1 .. uncomputed_tokens(s)
        /\ work' = [work EXCEPT ![s] = "scheduled"]
        /\ num_tokens' = [num_tokens EXCEPT ![s] = chunk]
    BY DEF SchedulePrefill, Schedule, bmVars, reqVars
  <1>3. /\ work \in [Seqs -> {"idle", "scheduled", "forwarded", "done"}]
        /\ num_tokens \in [Seqs -> Nat]
        /\ prompt_len[s] \in Nat /\ num_computed[s] \in Nat
    BY <1>1, Counts DEF TypeOK
  <1>4. /\ work'[s] = "scheduled" /\ num_tokens'[s] = chunk
        /\ \A r \in Seqs \ {s} : work'[r] = work[r] /\ num_tokens'[r] = num_tokens[r]
    BY <1>2, <1>3
  <1>5. \A r \in Seqs \ {s} : Same(r)
    BY <1>2, <1>4 DEF Same
  <1>6. Waits(s) /\ ~ Runs(s) /\ ~ Works(s)
    BY <1>1, <1>2 DEF Waits, Runs, Works, IsPrefilling, FinalChunk
  <1>7. ~ Runs(s)' /\ Works(s)' /\ (Waits(s)' <=> chunk < uncomputed_tokens(s))
    BY <1>2, <1>3, <1>4 DEF Waits, Runs, Works, IsPrefilling, uncomputed_tokens, FinalChunk
  <1> QED
    BY <1>5, <1>6, <1>7

LEMMA ScheduleDecodePlaces ==
    ASSUME Inv, NEW s \in Seqs, NEW n, ScheduleDecode(s, n)
    PROVE  /\ \A r \in Seqs \ {s} : Same(r)
           /\ Runs(s) /\ ~ Waits(s) /\ ~ Works(s)
           /\ Runs(s)' /\ ~ Waits(s)' /\ Works(s)'
  <1>1. TypeOK /\ Accounting(s)
    BY DEF Inv
  <1>2. /\ status[s] = "ACTIVE" /\ work[s] = "idle" /\ num_generated(s) > 0
        /\ prompt_len' = prompt_len /\ status' = status /\ num_computed' = num_computed
        /\ work' = [work EXCEPT ![s] = "scheduled"]
        /\ num_tokens' = [num_tokens EXCEPT ![s] = n]
    BY DEF ScheduleDecode, Schedule, may_append, reqVars
  <1>3. /\ work \in [Seqs -> {"idle", "scheduled", "forwarded", "done"}]
        /\ num_tokens \in [Seqs -> Nat] /\ num_generated(s) \in Nat
    BY <1>1, Counts DEF TypeOK
  <1>4. /\ work'[s] = "scheduled"
        /\ \A r \in Seqs \ {s} : work'[r] = work[r] /\ num_tokens'[r] = num_tokens[r]
    BY <1>2, <1>3
  <1>5. \A r \in Seqs \ {s} : Same(r)
    BY <1>2, <1>4 DEF Same
  <1>6. ~ IsPrefilling(s)
    BY <1>1, <1>2, <1>3 DEF Accounting
  <1>7. Runs(s) /\ ~ Waits(s) /\ ~ Works(s)
    BY <1>2, <1>6 DEF Waits, Runs, Works
  <1>8. Runs(s)' /\ ~ Waits(s)' /\ Works(s)'
    BY <1>2, <1>4, <1>6 DEF Waits, Runs, Works, IsPrefilling, uncomputed_tokens
  <1> QED
    BY <1>5, <1>7, <1>8

\* The model moves a request along inside its step.
LEMMA ModelPlaces ==
    ASSUME Inv, NEW s \in Seqs,
           (\E drafts \in Drafts : Forward(s, drafts)) \/ Commit(s) \/ CommitSpeculative(s)
    PROVE  /\ \A r \in Seqs \ {s} : Same(r)
           /\ Works(s) /\ Works(s)'
           /\ Waits(s)' <=> Waits(s)
           /\ Runs(s)' <=> Runs(s)
           /\ num_tokens' = num_tokens
  <1>1. /\ prompt_len' = prompt_len /\ status' = status /\ num_computed' = num_computed
        /\ num_tokens' = num_tokens
        /\ work[s] \in {"scheduled", "forwarded"}
        /\ \E w \in {"forwarded", "done"} : work' = [work EXCEPT ![s] = w]
    BY DEF Forward, Commit, CommitSpeculative, Committed, append_and_record, bmVars, reqVars
  <1>2. work \in [Seqs -> {"idle", "scheduled", "forwarded", "done"}]
    BY DEF Inv, TypeOK
  <1>3. /\ work'[s] # "idle" /\ \A r \in Seqs \ {s} : work'[r] = work[r]
    BY <1>1, <1>2
  <1>4. \A r \in Seqs \ {s} : Same(r)
    BY <1>1, <1>3 DEF Same
  <1>5. Works(s) /\ Works(s)'
    BY <1>1, <1>3 DEF Works
  <1>6. (Waits(s)' <=> Waits(s)) /\ (Runs(s)' <=> Runs(s))
    BY <1>1, <1>3 DEF Waits, Runs, IsPrefilling, uncomputed_tokens, FinalChunk
  <1> QED
    BY <1>1, <1>4, <1>5, <1>6


\* The request's prompt is through with this step.
Through(s) == IsPrefilling(s) /\ num_computed'[s] >= prompt_len[s]

LEMMA PostprocessPlaces ==
    ASSUME Inv, NEW s \in Seqs, NEW finish \in BOOLEAN, Postprocess(s, finish)
    PROVE  /\ \A r \in Seqs \ {s} : Same(r)
           /\ Works(s) /\ ~ Works(s)'
           /\ finish => ~ Waits(s)' /\ ~ Runs(s)'
           /\ ~ finish => (Waits(s)' <=> Waits(s))
           /\ ~ finish => (Runs(s)' <=> Runs(s) \/ Through(s))
           /\ Through(s) => ~ Runs(s)
  <1> DEFINE computed == IF IsPrefilling(s) THEN num_computed[s] + num_tokens[s]
                                            ELSE num_computed[s]
  <1>1. TypeOK /\ Accounting(s)
    BY DEF Inv
  <1>2. /\ work[s] = "done" /\ prompt_len' = prompt_len
        /\ num_computed' = [num_computed EXCEPT ![s] = computed]
        /\ work' = [work EXCEPT ![s] = "idle"]
        /\ num_tokens' = [num_tokens EXCEPT ![s] = 0]
        /\ finish => status' = [status EXCEPT ![s] = "FINISHED"]
        /\ ~ finish => status' = status
    BY DEF Postprocess, ReleaseSlot
  <1>3. /\ status \in [Seqs -> {"NEW", "ACTIVE", "FINISHED"}] /\ num_computed \in [Seqs -> Nat]
        /\ work \in [Seqs -> {"idle", "scheduled", "forwarded", "done"}]
        /\ num_tokens \in [Seqs -> Nat]
        /\ prompt_len[s] \in Nat /\ num_computed[s] \in Nat /\ num_tokens[s] \in Nat
    BY <1>1, Counts DEF TypeOK
  <1>4. status[s] = "ACTIVE"
    BY <1>1, <1>2, <1>3 DEF Accounting
  <1> HIDE DEF computed
  <1>5. /\ num_computed'[s] = computed /\ work'[s] = "idle" /\ num_tokens'[s] = 0
        /\ finish => status'[s] = "FINISHED"
        /\ \A r \in Seqs \ {s} : /\ num_computed'[r] = num_computed[r] /\ work'[r] = work[r]
                                 /\ num_tokens'[r] = num_tokens[r] /\ status'[r] = status[r]
    BY <1>2, <1>3
  <1>6. \A r \in Seqs \ {s} : Same(r)
    BY <1>2, <1>5 DEF Same
  <1>7. Works(s) /\ ~ Works(s)'
    BY <1>2, <1>5 DEF Works
  <1>8. finish => ~ Waits(s)' /\ ~ Runs(s)'
    BY <1>5 DEF Waits, Runs
  <1>9. ASSUME ~ finish
        PROVE  /\ Waits(s)' <=> Waits(s)
               /\ Runs(s)' <=> Runs(s) \/ Through(s)
    <2>1. status'[s] = "ACTIVE"
      BY <1>2, <1>4, <1>9
    <2>2. CASE IsPrefilling(s)
      <3>1. computed = num_computed[s] + num_tokens[s]
        BY <2>2 DEF computed
      <3> QED
        BY <1>2, <1>3, <1>4, <1>5, <2>1, <2>2, <3>1
           DEF Waits, Runs, Through, IsPrefilling, uncomputed_tokens, FinalChunk
    <2>3. CASE ~ IsPrefilling(s)
      <3>1. computed = num_computed[s]
        BY <2>3 DEF computed
      <3> QED
        BY <1>2, <1>3, <1>4, <1>5, <2>1, <2>3, <3>1
           DEF Waits, Runs, Through, IsPrefilling, uncomputed_tokens, FinalChunk
    <2> QED
      BY <2>2, <2>3
  <1>10. Through(s) => ~ Runs(s)
    BY DEF Through, Runs
  <1> QED
    BY <1>6, <1>7, <1>8, <1>9, <1>10

\* A request that ends leaves the queues and the batch.
LEMMA EndPlaces ==
    ASSUME Inv, NEW s \in Seqs, (\E torn \in BOOLEAN : Fail(s, torn)) \/ Abort(s)
    PROVE  /\ \A r \in Seqs \ {s} : Same(r)
           /\ ~ Works(s)' /\ ~ Waits(s)' /\ ~ Runs(s)'
           /\ Abort(s) => ~ Works(s)
  <1>1. /\ status' = [status EXCEPT ![s] = "FINISHED"]
        /\ prompt_len' = prompt_len /\ num_computed' = num_computed
        /\ \/ /\ work' = [work EXCEPT ![s] = "idle"]
              /\ num_tokens' = [num_tokens EXCEPT ![s] = 0]
           \/ UNCHANGED <<work, num_tokens>> /\ work[s] = "idle"
        /\ Abort(s) => work[s] = "idle"
    BY DEF Fail, Abort, ReleaseSlot, runVars
  <1>2. /\ status \in [Seqs -> {"NEW", "ACTIVE", "FINISHED"}]
        /\ work \in [Seqs -> {"idle", "scheduled", "forwarded", "done"}]
        /\ num_tokens \in [Seqs -> Nat]
    BY DEF Inv, TypeOK
  <1>3. /\ status'[s] = "FINISHED" /\ work'[s] = "idle"
        /\ \A r \in Seqs \ {s} : /\ work'[r] = work[r] /\ num_tokens'[r] = num_tokens[r]
                                 /\ status'[r] = status[r]
    BY <1>1, <1>2
  <1> QED
    BY <1>1, <1>3 DEF Same, Works, Waits, Runs

LEMMA AddRequestPlaces ==
    ASSUME Inv, NEW s \in Seqs, AddRequest(s)
    PROVE  /\ \A r \in Seqs \ {s} : Same(r)
           /\ ~ Works(s) /\ ~ Waits(s) /\ ~ Runs(s)
           /\ ~ Works(s)' /\ Waits(s)' /\ ~ Runs(s)'
           /\ block_table' = block_table
  <1>1. PICK prompt \in Prompts :
            /\ status[s] = "NEW"
            /\ prompt_len' = [prompt_len EXCEPT ![s] = Len(prompt)]
            /\ status' = [status EXCEPT ![s] = "ACTIVE"]
            /\ num_computed' = [num_computed EXCEPT ![s] = 0]
            /\ UNCHANGED <<work, num_tokens, block_table>>
    BY DEF AddRequest, runVars
  <1>2. Len(prompt) \in Nat \ {0}
    <2>1. prompt \in Seq(Tokens) /\ prompt # <<>>
      BY PromptsAssumption
    <2> QED
      BY <2>1, EmptySeq
  <1>3. /\ status \in [Seqs -> {"NEW", "ACTIVE", "FINISHED"}] /\ num_computed \in [Seqs -> Nat]
        /\ prompt_len \in [Seqs -> Nat] /\ Accounting(s)
    BY DEF Inv, TypeOK, BlockManagerTypeOK
  <1>4. /\ status'[s] = "ACTIVE" /\ num_computed'[s] = 0 /\ prompt_len'[s] = Len(prompt)
        /\ \A r \in Seqs \ {s} : /\ num_computed'[r] = num_computed[r]
                                 /\ prompt_len'[r] = prompt_len[r] /\ status'[r] = status[r]
    BY <1>1, <1>3
  <1>5. work[s] = "idle" /\ work'[s] = "idle"
    BY <1>1, <1>3 DEF Accounting
  <1>6. \A r \in Seqs \ {s} : Same(r)
    BY <1>1, <1>4 DEF Same
  <1>7. ~ Works(s) /\ ~ Waits(s) /\ ~ Runs(s)
    BY <1>1, <1>5 DEF Works, Waits, Runs
  <1>8. ~ Works(s)' /\ Waits(s)' /\ ~ Runs(s)'
    BY <1>2, <1>4, <1>5 DEF Works, Waits, Runs, IsPrefilling, uncomputed_tokens, FinalChunk
  <1> QED
    BY <1>1, <1>6, <1>7, <1>8

LEMMA ForgetPlaces ==
    ASSUME Inv, NEW s \in Seqs, Forget(s)
    PROVE  /\ \A r \in Seqs \ {s} : Same(r)
           /\ ~ Works(s) /\ ~ Waits(s) /\ ~ Runs(s)
           /\ ~ Works(s)' /\ ~ Waits(s)' /\ ~ Runs(s)'
  <1>1. /\ status[s] = "FINISHED"
        /\ prompt_len' = [prompt_len EXCEPT ![s] = 0]
        /\ status' = [status EXCEPT ![s] = "NEW"]
        /\ num_computed' = [num_computed EXCEPT ![s] = 0]
        /\ UNCHANGED <<work, num_tokens>>
    BY DEF Forget, runVars
  <1>2. /\ status \in [Seqs -> {"NEW", "ACTIVE", "FINISHED"}] /\ num_computed \in [Seqs -> Nat]
        /\ prompt_len \in [Seqs -> Nat] /\ Accounting(s)
    BY DEF Inv, TypeOK, BlockManagerTypeOK
  <1>3. /\ status'[s] = "NEW"
        /\ \A r \in Seqs \ {s} : /\ num_computed'[r] = num_computed[r]
                                 /\ prompt_len'[r] = prompt_len[r] /\ status'[r] = status[r]
    BY <1>1, <1>2
  <1>4. work[s] = "idle"
    BY <1>1, <1>2 DEF Accounting
  <1> QED
    BY <1>1, <1>3, <1>4 DEF Same, Works, Waits, Runs


-----------------------------------------------------------------------------
(* Each turn of a loop keeps the scheduler's invariant.                    *)

LEMMA AppendStays ==
    ASSUME NEW queue \in Seq(Seqs), IsInjective(queue), NEW s \in Seqs, s \notin Range(queue)
    PROVE  /\ Append(queue, s) \in Seq(Seqs) /\ Len(Append(queue, s)) = Len(queue) + 1
           /\ OthersStay(s, queue, Append(queue, s)) /\ s \in Range(Append(queue, s))
  <1>1. /\ Append(queue, s) \in Seq(Seqs) /\ Len(Append(queue, s)) = Len(queue) + 1
        /\ IsInjective(Append(queue, s))
        /\ Range(Append(queue, s)) = Range(queue) \union {s}
    BY AppendToQueue
  <1>2. Range(queue) \subseteq Seqs
    BY QueueStays DEF OthersStay
  <1> QED
    BY <1>1, <1>2 DEF OthersStay

LEMMA TailStays ==
    ASSUME NEW queue \in Seq(Seqs), IsInjective(queue), queue # <<>>
    PROVE  /\ Head(queue) \in Range(queue) /\ Head(queue) \in Seqs
           /\ Tail(queue) \in Seq(Seqs) /\ Len(Tail(queue)) = Len(queue) - 1
           /\ OthersStay(Head(queue), queue, Tail(queue))
           /\ Head(queue) \notin Range(Tail(queue))
  <1>1. /\ Head(queue) \in Seqs /\ Head(queue) \in Range(queue)
        /\ Tail(queue) \in Seq(Seqs) /\ Len(Tail(queue)) = Len(queue) - 1
        /\ IsInjective(Tail(queue))
        /\ Range(Tail(queue)) = Range(queue) \ {Head(queue)}
    BY TailOfQueue
  <1>2. Range(queue) \subseteq Seqs
    BY QueueStays DEF OthersStay
  <1> QED
    BY <1>1, <1>2 DEF OthersStay

LEMMA RotatedStays ==
    ASSUME NEW queue \in Seq(Seqs), IsInjective(queue), queue # <<>>, NEW s
    PROVE  /\ Rotated(queue) \in Seq(Seqs) /\ Len(Rotated(queue)) = Len(queue)
           /\ OthersStay(s, queue, Rotated(queue))
           /\ s \in Range(Rotated(queue)) <=> s \in Range(queue)
  <1>1. /\ Rotated(queue) \in Seq(Seqs) /\ Len(Rotated(queue)) = Len(queue)
        /\ IsInjective(Rotated(queue))
        /\ Range(Rotated(queue)) = Range(queue)
    BY RotatedQueue
  <1>2. Range(queue) \subseteq Seqs
    BY QueueStays DEF OthersStay
  <1> QED
    BY <1>1, <1>2 DEF OthersStay

LEMMA WithoutStays ==
    ASSUME NEW queue \in Seq(Seqs), IsInjective(queue), NEW s
    PROVE  /\ Without(queue, s) \in Seq(Seqs)
           /\ OthersStay(s, queue, Without(queue, s)) /\ s \notin Range(Without(queue, s))
  <1>1. /\ Without(queue, s) \in Seq(Seqs) /\ IsInjective(Without(queue, s))
        /\ Range(Without(queue, s)) = Range(queue) \ {s}
    BY WithoutFromQueue
  <1>2. Range(queue) \subseteq Seqs
    BY QueueStays DEF OthersStay
  <1> QED
    BY <1>1, <1>2 DEF OthersStay

LEMMA SameEverywhere == ASSUME UNCHANGED vars, NEW s PROVE \A r \in Seqs \ {s} : Same(r)
  BY DEF vars, bmVars, reqVars, runVars, Same

\* The head of the waiting queue, at a turn of the loop over it.
LEMMA HeadWaits ==
    ASSUME SchedulerInv, NEW s \in Seqs, PrefillTurn, s = Head(waiting)
    PROVE  /\ waiting # <<>> /\ Waits(s)
           /\ left \in Nat \ {0} /\ Len(waiting) \in Nat /\ left <= Len(waiting)
  <1>1. /\ left \in Nat /\ left > 0 /\ left <= Len(waiting) /\ waiting \in Seq(Seqs)
    BY DEF SchedulerInv, SchedulerTypeOK, Turns, PrefillTurn
  <1>2. waiting # <<>> /\ Len(waiting) \in Nat
    BY <1>1
  <1>3. IsInjective(waiting)
    BY DEF SchedulerInv, QueuesExact
  <1>4. s \in Range(waiting)
    BY <1>1, <1>2, <1>3, TailStays
  <1> QED
    BY <1>1, <1>2, <1>4, Members DEF SchedulerInv

\* A turn that takes the head of the waiting queue, or another request's.
LEMMA TakeTypes ==
    ASSUME SchedulerInv, NEW s \in Seqs, ~ Works(s), NEW n \in Nat, n <= budget, Take(s, n),
           left > 0
    PROVE  /\ batch' \in Seq(Seqs) /\ budget' \in 0 .. MaxBatchedTokens /\ left' \in Nat
           /\ left' = left - 1
           /\ pc' = pc /\ report' = report
           /\ OthersStay(s, batch, batch') /\ s \in Range(batch')
  <1>1. /\ batch \in Seq(Seqs) /\ budget \in 0 .. MaxBatchedTokens /\ left \in Nat
        /\ IsInjective(batch) /\ s \notin Range(batch)
    BY Members DEF SchedulerInv, SchedulerTypeOK
  <1>2. /\ batch' = Append(batch, s) /\ budget' = budget - n /\ left' = left - 1
        /\ pc' = pc /\ report' = report
    BY DEF Take
  <1>3. MaxBatchedTokens \in Nat
    BY LimitsAssumption
  <1>4. budget' \in 0 .. MaxBatchedTokens /\ left' \in Nat
    BY <1>1, <1>2, <1>3
  <1> QED
    BY <1>1, <1>2, <1>4, AppendStays

\* A turn that passes the request over.
LEMMA PassTypes ==
    ASSUME SchedulerInv, Pass, left > 0, NEW s \in Seqs
    PROVE  /\ batch' \in Seq(Seqs) /\ budget' \in 0 .. MaxBatchedTokens /\ left' \in Nat
           /\ left' = left - 1
           /\ pc' = pc /\ report' = report
           /\ OthersStay(s, batch, batch') /\ (s \in Range(batch') <=> Works(s))
  <1>1. /\ batch \in Seq(Seqs) /\ budget \in 0 .. MaxBatchedTokens /\ left \in Nat
        /\ IsInjective(batch) /\ (s \in Range(batch) <=> Works(s))
    BY Members DEF SchedulerInv, SchedulerTypeOK
  <1>2. /\ batch' = batch /\ budget' = budget /\ left' = left - 1
        /\ pc' = pc /\ report' = report
    BY DEF Pass
  <1> QED
    BY <1>1, <1>2, QueueStays


LEMMA StillPlaced ==
    ASSUME UNCHANGED vars, NEW s
    PROVE  (Waits(s)' <=> Waits(s)) /\ (Runs(s)' <=> Runs(s)) /\ (Works(s)' <=> Works(s))
  BY DEF vars, bmVars, reqVars, runVars, Waits, Runs, Works, IsPrefilling, uncomputed_tokens,
         FinalChunk

LEMMA TurnInv ==
    ASSUME SchedulerInv, NEW s \in Seqs, \A r \in Seqs \ {s} : Same(r),
           pc' = pc, report' = report, pc # "idle",
           waiting' \in Seq(Seqs), running' \in Seq(Seqs), batch' \in Seq(Seqs),
           budget' \in 0 .. MaxBatchedTokens, left' \in Nat,
           pc = "prefill" => left' <= Len(waiting'),
           pc = "decode" => left' <= Len(running'),
           OthersStay(s, waiting, waiting'), s \in Range(waiting') <=> Waits(s)',
           OthersStay(s, running, running'), s \in Range(running') <=> Runs(s)',
           OthersStay(s, batch, batch'), s \in Range(batch') <=> Works(s)'
    PROVE  SchedulerInv'
  <1>1. QueuesExact'
    BY QueuesAfter DEF SchedulerInv
  <1>2. BatchAtWork'
    BY BatchAfter DEF SchedulerInv
  <1>3. SchedulerTypeOK'
    BY DEF SchedulerInv, SchedulerTypeOK
  <1>4. Turns'
    BY DEF SchedulerInv, Turns
  <1> QED
    BY <1>1, <1>2, <1>3, <1>4 DEF SchedulerInv

LEMMA QueueTypes ==
    ASSUME SchedulerInv
    PROVE  /\ waiting \in Seq(Seqs) /\ running \in Seq(Seqs) /\ batch \in Seq(Seqs)
           /\ IsInjective(waiting) /\ IsInjective(running) /\ IsInjective(batch)
           /\ budget \in 0 .. MaxBatchedTokens /\ left \in Nat
           /\ Len(waiting) \in Nat /\ Len(running) \in Nat /\ Len(batch) \in Nat
           /\ MaxBatchedTokens \in Nat \ {0} /\ MaxNumSeqs \in Nat \ {0}
  <1>1. /\ waiting \in Seq(Seqs) /\ running \in Seq(Seqs) /\ batch \in Seq(Seqs)
        /\ budget \in 0 .. MaxBatchedTokens /\ left \in Nat
    BY DEF SchedulerInv, SchedulerTypeOK
  <1>2. IsInjective(waiting) /\ IsInjective(running) /\ IsInjective(batch)
    BY DEF SchedulerInv, QueuesExact, BatchAtWork
  <1>3. MaxBatchedTokens \in Nat \ {0} /\ MaxNumSeqs \in Nat \ {0}
    BY LimitsAssumption
  <1> QED
    BY <1>1, <1>2, <1>3

LEMMA AdmitPromptInv ==
    ASSUME Inv, SchedulerInv, NEW s \in Seqs, AdmitPrompt(s)
    PROVE  SchedulerInv'
  <1>1. /\ PrefillTurn /\ s = Head(waiting) /\ running' = running
        /\ pc = "prefill" /\ left > 0
    BY DEF AdmitPrompt, PrefillTurn
  <1>2. /\ waiting # <<>> /\ Waits(s)
        /\ left \in Nat \ {0} /\ Len(waiting) \in Nat /\ left <= Len(waiting)
    BY <1>1, HeadWaits
  <1>3. /\ waiting \in Seq(Seqs) /\ IsInjective(waiting)
        /\ running \in Seq(Seqs) /\ IsInjective(running)
        /\ budget \in Nat
    BY QueueTypes
  <1>4. OthersStay(s, running, running') /\ (s \in Range(running') <=> Runs(s))
    BY <1>1, <1>3, QueueStays, Members DEF SchedulerInv
  <1>5. CASE Uncached(s) <= budget /\ can_allocate(s, 1)
    <2>1. Admit(s, Uncached(s)) /\ Take(s, Uncached(s)) /\ waiting' = Tail(waiting)
      BY <1>5 DEF AdmitPrompt
    <2>2. /\ \A r \in Seqs \ {s} : Same(r)
          /\ ~ Runs(s) /\ ~ Works(s) /\ ~ Runs(s)'
          /\ Uncached(s) \in Nat \ {0}
          /\ Works(s)' /\ ~ Waits(s)'
      <3>1. /\ Uncached(s) \in Nat \ {0}
            /\ Works(s)' <=> Uncached(s) > 0
            /\ Waits(s)' <=> Uncached(s) < Uncached(s)
        BY <2>1, AdmitPlaces
      <3> QED
        BY <2>1, <3>1, AdmitPlaces
    <2>3. /\ batch' \in Seq(Seqs) /\ budget' \in 0 .. MaxBatchedTokens /\ left' \in Nat
          /\ left' = left - 1
          /\ pc' = pc /\ report' = report
          /\ OthersStay(s, batch, batch') /\ s \in Range(batch')
      BY <1>1, <1>5, <2>1, <2>2, TakeTypes
    <2>4. /\ waiting' \in Seq(Seqs) /\ Len(waiting') = Len(waiting) - 1
          /\ OthersStay(s, waiting, waiting') /\ s \notin Range(waiting')
      BY <1>1, <1>2, <1>3, <2>1, TailStays
    <2>5. left' <= Len(waiting')
      BY <1>2, <2>3, <2>4
    <2> QED
      BY <1>1, <1>3, <1>4, <2>2, <2>3, <2>4, <2>5, TurnInv
  <1>6. CASE ~ (Uncached(s) <= budget /\ can_allocate(s, 1))
    <2>1. Pass /\ waiting' = Rotated(waiting) /\ UNCHANGED vars
      BY <1>6 DEF AdmitPrompt, Blocked
    <2>2. /\ batch' \in Seq(Seqs) /\ budget' \in 0 .. MaxBatchedTokens /\ left' \in Nat
          /\ left' = left - 1
          /\ pc' = pc /\ report' = report
          /\ OthersStay(s, batch, batch') /\ (s \in Range(batch') <=> Works(s))
      BY <1>1, <2>1, PassTypes
    <2>3. /\ waiting' \in Seq(Seqs) /\ Len(waiting') = Len(waiting)
          /\ OthersStay(s, waiting, waiting') /\ (s \in Range(waiting') <=> s \in Range(waiting))
      BY <1>2, <1>3, <2>1, RotatedStays
    <2>4. s \in Range(waiting) <=> Waits(s)
      BY Members DEF SchedulerInv
    <2>5. /\ \A r \in Seqs \ {s} : Same(r)
          /\ (Waits(s)' <=> Waits(s)) /\ (Runs(s)' <=> Runs(s)) /\ (Works(s)' <=> Works(s))
      BY <2>1, SameEverywhere, StillPlaced
    <2>6. left' <= Len(waiting')
      BY <1>2, <2>2, <2>3
    <2> QED
      BY <1>1, <1>3, <1>4, <2>2, <2>3, <2>4, <2>5, <2>6, TurnInv
  <1> QED
    BY <1>5, <1>6


\* A chunk is some of what is left of the prompt and of the budget.
LEMMA ChunkBounds ==
    ASSUME NEW remaining \in Nat \ {0}, budget \in Nat \ {0}
    PROVE  /\ ChunkOf(remaining) \in 1 .. remaining
           /\ ChunkOf(remaining) <= budget
  <1> DEFINE S == {remaining, budget, MaxPrefillChunk}
  <1>1. MaxPrefillChunk \in Nat \ {0}
    BY LimitsAssumption
  <1>2. \E m \in S : \A x \in S : m <= x
    <2>1. CASE remaining <= budget /\ remaining <= MaxPrefillChunk
      BY <1>1, <2>1
    <2>2. CASE budget <= remaining /\ budget <= MaxPrefillChunk
      BY <1>1, <2>2
    <2>3. CASE MaxPrefillChunk <= remaining /\ MaxPrefillChunk <= budget
      BY <1>1, <2>3
    <2> QED
      BY <1>1, <2>1, <2>2, <2>3
  <1>3. ChunkOf(remaining) = CHOOSE m \in S : \A x \in S : m <= x
    BY DEF ChunkOf, Min
  <1>4. ChunkOf(remaining) \in S /\ \A x \in S : ChunkOf(remaining) <= x
    BY <1>2, <1>3
  <1> QED
    BY <1>1, <1>4

\* The four ways a turn over the waiting queue can go with chunked prefill.
ChunkIsDone(s, chunk, remaining) ==
    /\ Take(s, chunk)
    /\ waiting' = AfterChunk(chunk, remaining)

LEMMA ChunkTurn ==
    ASSUME Inv, SchedulerInv, NEW s \in Seqs, PrefillTurn, EnableChunkedPrefill,
           s = Head(waiting), running' = running,
           NEW remaining \in Nat \ {0}, \A r \in Seqs \ {s} : Same(r),
           ChunkIsDone(s, ChunkOf(remaining), remaining),
           ~ Works(s), ~ Runs(s), ~ Runs(s)', Works(s)',
           Waits(s)' <=> ChunkOf(remaining) < remaining
    PROVE  SchedulerInv'
  <1> DEFINE chunk == ChunkOf(remaining)
  <1>1. /\ Take(s, chunk) /\ waiting' = AfterChunk(chunk, remaining)
        /\ pc = "prefill" /\ left > 0 /\ budget > 0
    BY DEF ChunkIsDone, PrefillTurn
  <1>2. /\ waiting # <<>> /\ Waits(s)
        /\ left \in Nat \ {0} /\ Len(waiting) \in Nat /\ left <= Len(waiting)
    BY HeadWaits
  <1>3. /\ waiting \in Seq(Seqs) /\ IsInjective(waiting)
        /\ running \in Seq(Seqs) /\ IsInjective(running)
        /\ budget \in Nat \ {0}
    BY <1>1, QueueTypes
  <1>4. chunk \in 1 .. remaining /\ chunk <= budget
    BY <1>3, ChunkBounds
  <1> HIDE DEF chunk
  <1>5. OthersStay(s, running, running') /\ (s \in Range(running') <=> Runs(s))
    BY <1>3, QueueStays, Members DEF SchedulerInv
  <1>6. /\ batch' \in Seq(Seqs) /\ budget' \in 0 .. MaxBatchedTokens /\ left' \in Nat
        /\ left' = left - 1
        /\ pc' = pc /\ report' = report
        /\ OthersStay(s, batch, batch') /\ s \in Range(batch')
    <2>1. chunk \in Nat
      BY <1>4
    <2> QED
      BY <1>1, <1>4, <2>1, TakeTypes
  <1>7. /\ waiting' \in Seq(Seqs) /\ left' <= Len(waiting')
        /\ OthersStay(s, waiting, waiting') /\ (s \in Range(waiting') <=> Waits(s)')
    <2>1. CASE chunk >= remaining
      <3>1. waiting' = Tail(waiting)
        BY <1>1, <2>1 DEF AfterChunk
      <3>2. ~ Waits(s)'
        BY <1>4, <2>1 DEF chunk
      <3>3. /\ waiting' \in Seq(Seqs) /\ Len(waiting') = Len(waiting) - 1
            /\ OthersStay(s, waiting, waiting') /\ s \notin Range(waiting')
        BY <1>2, <1>3, <3>1, TailStays
      <3> QED
        BY <1>2, <1>6, <3>2, <3>3
    <2>2. CASE ~ (chunk >= remaining)
      <3>1. waiting' = Rotated(waiting)
        BY <1>1, <2>2 DEF AfterChunk
      <3>2. Waits(s)'
        BY <1>4, <2>2 DEF chunk
      <3>3. /\ waiting' \in Seq(Seqs) /\ Len(waiting') = Len(waiting)
            /\ OthersStay(s, waiting, waiting') /\ (s \in Range(waiting') <=> s \in Range(waiting))
        BY <1>2, <1>3, <3>1, RotatedStays
      <3>4. s \in Range(waiting)
        BY <1>2, Members DEF SchedulerInv
      <3> QED
        BY <1>2, <1>6, <3>2, <3>3, <3>4
    <2> QED
      BY <2>1, <2>2
  <1>8. s \in Range(running') <=> Runs(s)'
    BY <1>5
  <1> QED
    BY <1>1, <1>3, <1>5, <1>6, <1>7, <1>8, TurnInv

\* A prompt that gets no chunk goes to the end of the queue, with or without
\* the pages it has just been given.
LEMMA BlockedTurn ==
    ASSUME SchedulerInv, NEW s \in Seqs, PrefillTurn, s = Head(waiting), running' = running,
           Pass, waiting' = Rotated(waiting), \A r \in Seqs \ {s} : Same(r),
           Waits(s)', Runs(s)' <=> Runs(s), Works(s)' <=> Works(s)
    PROVE  SchedulerInv'
  <1>1. /\ waiting # <<>> /\ Waits(s)
        /\ left \in Nat \ {0} /\ Len(waiting) \in Nat /\ left <= Len(waiting)
    BY HeadWaits
  <1>2. /\ waiting \in Seq(Seqs) /\ IsInjective(waiting)
        /\ running \in Seq(Seqs) /\ IsInjective(running)
    BY QueueTypes
  <1>3. OthersStay(s, running, running') /\ (s \in Range(running') <=> Runs(s))
    BY <1>2, QueueStays, Members DEF SchedulerInv
  <1>4. /\ batch' \in Seq(Seqs) /\ budget' \in 0 .. MaxBatchedTokens /\ left' \in Nat
        /\ left' = left - 1
        /\ pc' = pc /\ report' = report
        /\ OthersStay(s, batch, batch') /\ (s \in Range(batch') <=> Works(s))
    BY <1>1, PassTypes
  <1>5. /\ waiting' \in Seq(Seqs) /\ Len(waiting') = Len(waiting)
        /\ OthersStay(s, waiting, waiting') /\ (s \in Range(waiting') <=> s \in Range(waiting))
    BY <1>1, <1>2, RotatedStays
  <1>6. s \in Range(waiting)
    BY <1>1, Members DEF SchedulerInv
  <1>7. left' <= Len(waiting') /\ pc = "prefill"
    BY <1>1, <1>4, <1>5 DEF PrefillTurn
  <1> QED
    BY <1>2, <1>3, <1>4, <1>5, <1>6, <1>7, TurnInv


\* A decode is scheduled for at least one token.
LEMMA ScheduledTokens ==
    ASSUME Inv, NEW s \in Seqs, NEW n, ScheduleDecode(s, n)
    PROVE  n \in Nat \ {0}
  <1> DEFINE m == Max({1, MaxTokens - num_generated(s)})
  <1>1. n \in {1, Min({1 + MaxDraft, m})}
    BY DEF ScheduleDecode, Lookaheads
  <1>2. num_generated(s) \in Nat /\ MaxDraft \in Nat /\ MaxTokens \in Nat
    BY Counts, MaxDraftAssumption, MaxTokensAssumption DEF Inv
  <1>3. m \in Int /\ m >= 1
    <2>1. MaxTokens - num_generated(s) \in Int
      BY <1>2
    <2> QED
      BY <2>1, MaxOfTwo
  <1> HIDE DEF m
  <1>4. Min({1 + MaxDraft, m}) \in Nat \ {0}
    BY <1>2, <1>3, MinOfTwo
  <1> QED
    BY <1>1, <1>4

\* A waiting prompt has something left to run.
LEMMA SomethingLeft ==
    ASSUME Inv, NEW s \in Seqs, Waits(s)
    PROVE  /\ uncomputed_tokens(s) \in Nat \ {0}
           /\ Uncached(s) \in Nat \ {0}
  <1>1. /\ BlockManagerTypeOK /\ status[s] = "ACTIVE" /\ IsPrefilling(s)
        /\ prompt_len[s] > 0 /\ prompt_len[s] \in Nat /\ uncomputed_tokens(s) \in Int
    BY Counts DEF Inv, TypeOK, Accounting, Waits
  <1>2. uncomputed_tokens(s) \in Nat \ {0}
    BY <1>1 DEF IsPrefilling
  <1>3. cached_prefix_tokens(s) \in 0 .. prompt_len[s] - 1
    BY <1>1, CachedPrefixShorter
  <1>4. Uncached(s) \in Nat \ {0}
    BY <1>1, <1>3 DEF Uncached
  <1> QED
    BY <1>2, <1>4

LEMMA PrefillChunkInv ==
    ASSUME Inv, SchedulerInv, NEW s \in Seqs, PrefillChunk(s)
    PROVE  SchedulerInv'
  <1> DEFINE admitted == block_table[s] # <<>>
             remaining == IF admitted THEN uncomputed_tokens(s) ELSE Uncached(s)
             chunk == ChunkOf(remaining)
  <1>1. /\ PrefillTurn /\ EnableChunkedPrefill /\ s = Head(waiting) /\ running' = running
        /\ budget > 0
    BY DEF PrefillChunk, PrefillTurn
  <1>2. Waits(s)
    BY <1>1, HeadWaits
  <1>3. remaining \in Nat \ {0}
    BY <1>2, SomethingLeft
  <1>4. IF ~ admitted /\ ~ can_allocate(s, 1)
        THEN Pass /\ waiting' = Blocked(waiting) /\ UNCHANGED vars
        ELSE IF Fits(chunk)
        THEN /\ IF admitted THEN SchedulePrefill(s, chunk) ELSE Admit(s, chunk)
             /\ Take(s, chunk)
             /\ waiting' = AfterChunk(chunk, remaining)
        ELSE /\ IF admitted THEN UNCHANGED vars ELSE Admit(s, 0)
             /\ Pass
             /\ waiting' = Blocked(waiting)
    <2>1. ~ (remaining <= 0)
      BY <1>3
    <2> QED
      BY <2>1 DEF PrefillChunk
  <1>5. budget \in Nat \ {0}
    BY <1>1, QueueTypes
  <1>6. chunk \in 1 .. remaining /\ chunk > 0
    <2> HIDE DEF remaining
    <2>1. chunk \in 1 .. remaining
      BY <1>3, <1>5, ChunkBounds
    <2> QED
      BY <1>3, <2>1
  <1> HIDE DEF chunk
  <1>7. CASE UNCHANGED vars /\ Pass /\ waiting' = Blocked(waiting)
    <2>1. /\ \A r \in Seqs \ {s} : Same(r)
          /\ (Waits(s)' <=> Waits(s)) /\ (Runs(s)' <=> Runs(s)) /\ (Works(s)' <=> Works(s))
      BY <1>7, SameEverywhere, StillPlaced
    <2> QED
      BY <1>1, <1>2, <1>7, <2>1, BlockedTurn DEF Blocked
  <1>8. CASE ~ admitted /\ Admit(s, 0) /\ Pass /\ waiting' = Blocked(waiting)
    <2>1. /\ \A r \in Seqs \ {s} : Same(r)
          /\ ~ Runs(s) /\ ~ Works(s) /\ ~ Runs(s)'
          /\ Uncached(s) \in Nat \ {0}
          /\ Works(s)' <=> 0 > 0
          /\ Waits(s)' <=> 0 < Uncached(s)
      BY <1>8, AdmitPlaces
    <2>2. ~ Works(s)' /\ Waits(s)'
      BY <2>1
    <2> QED
      BY <1>1, <1>8, <2>1, <2>2, BlockedTurn DEF Blocked
  <1>9. CASE admitted /\ SchedulePrefill(s, chunk) /\ Take(s, chunk)
             /\ waiting' = AfterChunk(chunk, remaining)
    <2>1. remaining = uncomputed_tokens(s)
      BY <1>9
    <2>2. /\ \A r \in Seqs \ {s} : Same(r)
          /\ ~ Runs(s) /\ ~ Works(s) /\ ~ Runs(s)' /\ Works(s)'
          /\ Waits(s)' <=> chunk < uncomputed_tokens(s)
      BY <1>9, SchedulePrefillPlaces
    <2> HIDE DEF remaining
    <2>3. ChunkIsDone(s, ChunkOf(remaining), remaining)
      BY <1>9 DEF ChunkIsDone, chunk
    <2>4. Waits(s)' <=> ChunkOf(remaining) < remaining
      BY <2>1, <2>2 DEF chunk
    <2> QED
      BY <1>1, <1>3, <2>2, <2>3, <2>4, ChunkTurn
  <1>10. CASE ~ admitted /\ Admit(s, chunk) /\ Take(s, chunk)
              /\ waiting' = AfterChunk(chunk, remaining)
    <2>1. remaining = Uncached(s)
      BY <1>10
    <2>2. /\ \A r \in Seqs \ {s} : Same(r)
          /\ ~ Runs(s) /\ ~ Works(s) /\ ~ Runs(s)'
          /\ Works(s)' <=> chunk > 0
          /\ Waits(s)' <=> chunk < Uncached(s)
      BY <1>10, AdmitPlaces
    <2> HIDE DEF remaining
    <2>3. ChunkIsDone(s, ChunkOf(remaining), remaining)
      BY <1>10 DEF ChunkIsDone, chunk
    <2>4. (Waits(s)' <=> ChunkOf(remaining) < remaining) /\ Works(s)'
      BY <1>6, <2>1, <2>2 DEF chunk
    <2> QED
      BY <1>1, <1>3, <2>2, <2>3, <2>4, ChunkTurn
  <1> HIDE DEF admitted, remaining
  <1> QED
    BY <1>4, <1>7, <1>8, <1>9, <1>10

LEMMA DecodeTurnInv ==
    ASSUME Inv, SchedulerInv, NEW s \in Seqs, DecodeTurn(s)
    PROVE  SchedulerInv'
  <1> DEFINE n == Lookahead(s)
  <1>1. /\ pc = "decode" /\ left > 0 /\ waiting' = waiting /\ running' = running
        /\ \/ n <= budget /\ ScheduleDecode(s, n) /\ Take(s, n)
           \/ Pass /\ UNCHANGED vars
    BY DEF DecodeTurn, queueVars, Fits
  <1>2. /\ waiting \in Seq(Seqs) /\ IsInjective(waiting)
        /\ running \in Seq(Seqs) /\ IsInjective(running)
        /\ left \in Nat /\ Len(running) \in Nat
    BY QueueTypes
  <1>3. left <= Len(running)
    BY <1>1 DEF SchedulerInv, Turns
  <1>4. /\ OthersStay(s, waiting, waiting') /\ OthersStay(s, running, running')
        /\ s \in Range(waiting') <=> Waits(s)
        /\ s \in Range(running') <=> Runs(s)
    BY <1>1, <1>2, QueueStays, Members DEF SchedulerInv
  <1>5. CASE n <= budget /\ ScheduleDecode(s, n) /\ Take(s, n)
    <2>1. /\ \A r \in Seqs \ {s} : Same(r)
          /\ Runs(s) /\ ~ Waits(s) /\ ~ Works(s)
          /\ Runs(s)' /\ ~ Waits(s)' /\ Works(s)'
      BY <1>5, ScheduleDecodePlaces
    <2>2. n \in Nat
      BY <1>5, ScheduledTokens
    <2> HIDE DEF n
    <2>3. /\ batch' \in Seq(Seqs) /\ budget' \in 0 .. MaxBatchedTokens /\ left' \in Nat
          /\ left' = left - 1
          /\ pc' = pc /\ report' = report
          /\ OthersStay(s, batch, batch') /\ s \in Range(batch')
      BY <1>1, <1>5, <2>1, <2>2, TakeTypes
    <2>4. left' <= Len(running')
      BY <1>1, <1>2, <1>3, <2>3
    <2> QED
      BY <1>1, <1>2, <1>4, <2>1, <2>3, <2>4, TurnInv
  <1>6. CASE Pass /\ UNCHANGED vars
    <2>1. /\ batch' \in Seq(Seqs) /\ budget' \in 0 .. MaxBatchedTokens /\ left' \in Nat
          /\ left' = left - 1
          /\ pc' = pc /\ report' = report
          /\ OthersStay(s, batch, batch') /\ (s \in Range(batch') <=> Works(s))
      BY <1>1, <1>6, PassTypes
    <2>2. /\ \A r \in Seqs \ {s} : Same(r)
          /\ (Waits(s)' <=> Waits(s)) /\ (Runs(s)' <=> Runs(s)) /\ (Works(s)' <=> Works(s))
      BY <1>6, SameEverywhere, StillPlaced
    <2>3. left' <= Len(running')
      BY <1>1, <1>2, <1>3, <2>1
    <2> QED
      BY <1>1, <1>2, <1>4, <2>1, <2>2, <2>3, TurnInv
  <1> QED
    BY <1>1, <1>5, <1>6


\* The steps that touch no request.
LEMMA QuietInv ==
    ASSUME SchedulerInv,
           StartStep \/ EndPrefill \/ EndDecode \/ NextGroup \/ EndRun \/ ModelError \/ EndStep
    PROVE  SchedulerInv'
  <1>1. UNCHANGED <<vars, queueVars, batch>>
    BY DEF StartStep, EndPrefill, EndDecode, NextGroup, EndRun, ModelError, EndStep
  <1>2. QueuesExact' /\ BatchAtWork'
    <2>1. QueuesExact /\ BatchAtWork
      BY DEF SchedulerInv
    <2> QED
      BY <1>1, <2>1 DEF vars, bmVars, reqVars, runVars, queueVars, QueuesExact, BatchAtWork,
                        IsInjective, Range, FinalChunk, IsPrefilling, uncomputed_tokens
  <1>3. /\ waiting \in Seq(Seqs) /\ running \in Seq(Seqs) /\ batch \in Seq(Seqs)
        /\ waiting' = waiting /\ running' = running /\ batch' = batch
        /\ budget \in 0 .. MaxBatchedTokens /\ left \in Nat
        /\ Len(waiting) \in Nat /\ Len(running) \in Nat
        /\ MaxBatchedTokens \in Nat \ {0}
    BY <1>1, QueueTypes DEF queueVars
  <1>4. budget' \in 0 .. MaxBatchedTokens
    BY <1>3 DEF StartStep, EndPrefill, EndDecode, NextGroup, EndRun, ModelError, EndStep
  <1>5. /\ left' \in Nat
        /\ pc' = "prefill" => left' <= Len(waiting)
        /\ pc' = "decode" => left' <= Len(running)
    <2>1. EnterPrefill \/ EnterDecode \/ Launch \/ (left' = left /\ pc' \notin {"prefill", "decode"})
      BY DEF StartStep, EndPrefill, EndDecode, NextGroup, EndRun, ModelError, EndStep
    <2>2. CASE EnterPrefill \/ EnterDecode
      BY <1>3, <2>2 DEF EnterPrefill, EnterDecode
    <2>3. CASE Launch
      BY <1>3, <2>3 DEF Launch
    <2> QED
      BY <1>3, <2>1, <2>2, <2>3
  <1>6. /\ pc' \in {"idle", "prefill", "decode", "model", "post", "raise"}
        /\ pc' = "idle" => batch = <<>>
    BY DEF StartStep, EndPrefill, EndDecode, NextGroup, EndRun, ModelError, EndStep,
           Launch, EnterPrefill, EnterDecode
  <1>7. /\ report \in {"none", "no progress", "error"}
        /\ pc # "idle" => report = "none"
    BY DEF SchedulerInv, SchedulerTypeOK, Turns
  <1>8. /\ report' \in {"none", "no progress", "error"}
        /\ pc' # "idle" => report' = "none"
    BY <1>7 DEF StartStep, EndPrefill, EndDecode, NextGroup, EndRun, ModelError, EndStep,
                Launch, EnterPrefill, EnterDecode
  <1>9. SchedulerTypeOK' /\ Turns'
    BY <1>3, <1>4, <1>5, <1>6, <1>8 DEF SchedulerTypeOK, Turns
  <1> QED
    BY <1>2, <1>9 DEF SchedulerInv

LEMMA RunInv ==
    ASSUME Inv, SchedulerInv, NEW s \in Seqs,
           (\E drafts \in Drafts : RunForward(s, drafts)) \/ RunCommit(s)
    PROVE  SchedulerInv'
  <1>1. /\ (\E drafts \in Drafts : Forward(s, drafts)) \/ Commit(s) \/ CommitSpeculative(s)
        /\ pc = "model" /\ UNCHANGED <<queueVars, stepVars>>
    BY DEF RunForward, RunCommit
  <1>2. /\ \A r \in Seqs \ {s} : Same(r)
        /\ Works(s) /\ Works(s)'
        /\ Waits(s)' <=> Waits(s)
        /\ Runs(s)' <=> Runs(s)
    BY <1>1, ModelPlaces
  <1>3. /\ waiting' = waiting /\ running' = running /\ batch' = batch /\ pc' = pc
        /\ report' = report /\ budget' = budget /\ left' = left
    BY <1>1 DEF queueVars, stepVars
  <1>4. /\ waiting \in Seq(Seqs) /\ IsInjective(waiting)
        /\ running \in Seq(Seqs) /\ IsInjective(running)
        /\ batch \in Seq(Seqs) /\ IsInjective(batch)
        /\ budget \in 0 .. MaxBatchedTokens /\ left \in Nat
    BY QueueTypes
  <1>5. /\ OthersStay(s, waiting, waiting') /\ OthersStay(s, running, running')
        /\ OthersStay(s, batch, batch')
        /\ s \in Range(waiting') <=> Waits(s)
        /\ s \in Range(running') <=> Runs(s)
        /\ s \in Range(batch') <=> Works(s)
    BY <1>3, <1>4, QueueStays, Members DEF SchedulerInv
  <1> QED
    BY <1>1, <1>2, <1>3, <1>4, <1>5, TurnInv

\* The head of the batch, when its requests are handled one by one.
LEMMA BatchTail ==
    ASSUME SchedulerInv, NEW s \in Seqs, batch # <<>>, s = Head(batch), batch' = Tail(batch)
    PROVE  /\ batch' \in Seq(Seqs) /\ OthersStay(s, batch, batch') /\ s \notin Range(batch')
  BY QueueTypes, TailStays

LEMMA DequeueStays ==
    ASSUME SchedulerInv, NEW s \in Seqs, Dequeue(s)
    PROVE  /\ waiting' \in Seq(Seqs) /\ OthersStay(s, waiting, waiting') /\ s \notin Range(waiting')
           /\ running' \in Seq(Seqs) /\ OthersStay(s, running, running') /\ s \notin Range(running')
  BY QueueTypes, WithoutStays DEF Dequeue

LEMMA PostItemInv ==
    ASSUME Inv, SchedulerInv, NEW s \in Seqs, NEW finish \in BOOLEAN, PostItem(s, finish)
    PROVE  SchedulerInv'
  <1>1. /\ pc = "post" /\ batch # <<>> /\ s = Head(batch) /\ batch' = Tail(batch)
        /\ Postprocess(s, finish)
        /\ finish => Dequeue(s)
        /\ ~ finish => Enqueue(s) /\ waiting' = waiting
        /\ pc' = pc /\ left' = left /\ budget' = budget /\ report' = report
    BY DEF PostItem
  <1>2. /\ \A r \in Seqs \ {s} : Same(r)
        /\ Works(s) /\ ~ Works(s)'
        /\ finish => ~ Waits(s)' /\ ~ Runs(s)'
        /\ ~ finish => (Waits(s)' <=> Waits(s))
        /\ ~ finish => (Runs(s)' <=> Runs(s) \/ Through(s))
        /\ Through(s) => ~ Runs(s)
    BY <1>1, PostprocessPlaces
  <1>3. /\ batch' \in Seq(Seqs) /\ OthersStay(s, batch, batch') /\ s \notin Range(batch')
    BY <1>1, BatchTail
  <1>4. /\ waiting \in Seq(Seqs) /\ IsInjective(waiting)
        /\ running \in Seq(Seqs) /\ IsInjective(running)
        /\ budget \in 0 .. MaxBatchedTokens /\ left \in Nat
        /\ s \in Range(waiting) <=> Waits(s)
        /\ s \in Range(running) <=> Runs(s)
    BY QueueTypes, Members DEF SchedulerInv
  <1>5. CASE finish
    <2>1. /\ waiting' \in Seq(Seqs) /\ OthersStay(s, waiting, waiting') /\ s \notin Range(waiting')
          /\ running' \in Seq(Seqs) /\ OthersStay(s, running, running') /\ s \notin Range(running')
      BY <1>1, <1>5, DequeueStays
    <2> QED
      BY <1>1, <1>2, <1>3, <1>4, <1>5, <2>1, TurnInv
  <1>6. CASE ~ finish
    <2>1. OthersStay(s, waiting, waiting') /\ waiting' = waiting
      BY <1>1, <1>4, <1>6, QueueStays
    <2>2. /\ running' \in Seq(Seqs) /\ OthersStay(s, running, running')
          /\ s \in Range(running') <=> Runs(s) \/ Through(s)
      <3>1. CASE Through(s)
        <4>1. running' = Append(running, s)
          BY <1>1, <1>6, <3>1 DEF Enqueue, Through
        <4> QED
          BY <1>2, <1>4, <3>1, <4>1, AppendStays
      <3>2. CASE ~ Through(s)
        <4>1. running' = running
          BY <1>1, <1>6, <3>2 DEF Enqueue, Through
        <4> QED
          BY <1>4, <3>2, <4>1, QueueStays
      <3> QED
        BY <3>1, <3>2
    <2> QED
      BY <1>1, <1>2, <1>3, <1>4, <1>6, <2>1, <2>2, TurnInv
  <1> QED
    BY <1>5, <1>6

LEMMA FailItemInv ==
    ASSUME Inv, SchedulerInv, NEW s \in Seqs, NEW torn \in BOOLEAN, FailItem(s, torn)
    PROVE  SchedulerInv'
  <1>1. /\ pc = "raise" /\ batch # <<>> /\ s = Head(batch) /\ batch' = Tail(batch)
        /\ Fail(s, torn) /\ Dequeue(s)
        /\ pc' = pc /\ left' = left /\ budget' = budget /\ report' = report
    BY DEF FailItem, Handle
  <1>2. /\ \A r \in Seqs \ {s} : Same(r)
        /\ ~ Works(s)' /\ ~ Waits(s)' /\ ~ Runs(s)'
    BY <1>1, EndPlaces
  <1>3. /\ batch' \in Seq(Seqs) /\ OthersStay(s, batch, batch') /\ s \notin Range(batch')
    BY <1>1, BatchTail
  <1>4. /\ waiting' \in Seq(Seqs) /\ OthersStay(s, waiting, waiting') /\ s \notin Range(waiting')
        /\ running' \in Seq(Seqs) /\ OthersStay(s, running, running') /\ s \notin Range(running')
    BY <1>1, DequeueStays
  <1>5. budget \in 0 .. MaxBatchedTokens /\ left \in Nat
    BY QueueTypes
  <1> QED
    BY <1>1, <1>2, <1>3, <1>4, <1>5, TurnInv

\* What a client does between two steps.
LEMMA ClientInv ==
    ASSUME Inv, SchedulerInv, NEW s \in Seqs, Arrive(s) \/ Cancel(s) \/ Drop(s)
    PROVE  SchedulerInv'
  <1>1. pc = "idle" /\ UNCHANGED stepVars
    BY DEF Arrive, Cancel, Drop
  <1>2. /\ waiting \in Seq(Seqs) /\ IsInjective(waiting)
        /\ running \in Seq(Seqs) /\ IsInjective(running)
        /\ batch \in Seq(Seqs) /\ IsInjective(batch)
        /\ s \in Range(waiting) <=> Waits(s)
        /\ s \in Range(running) <=> Runs(s)
        /\ s \in Range(batch) <=> Works(s)
    BY QueueTypes, Members DEF SchedulerInv
  <1>3. /\ \A r \in Seqs \ {s} : Same(r)
        /\ ~ Works(s) /\ ~ Works(s)'
        /\ waiting' \in Seq(Seqs) /\ OthersStay(s, waiting, waiting')
        /\ s \in Range(waiting') <=> Waits(s)'
        /\ running' \in Seq(Seqs) /\ OthersStay(s, running, running')
        /\ s \in Range(running') <=> Runs(s)'
    <2>1. CASE Arrive(s)
      <3>1. AddRequest(s) /\ waiting' = Append(waiting, s) /\ running' = running
        BY <2>1 DEF Arrive
      <3>2. /\ \A r \in Seqs \ {s} : Same(r)
            /\ ~ Works(s) /\ ~ Waits(s) /\ ~ Runs(s)
            /\ ~ Works(s)' /\ Waits(s)' /\ ~ Runs(s)'
        BY <3>1, AddRequestPlaces
      <3> QED
        BY <1>2, <3>1, <3>2, AppendStays, QueueStays
    <2>2. CASE Cancel(s)
      <3>1. Abort(s) /\ Dequeue(s)
        BY <2>2 DEF Cancel
      <3>2. /\ \A r \in Seqs \ {s} : Same(r)
            /\ ~ Works(s) /\ ~ Works(s)' /\ ~ Waits(s)' /\ ~ Runs(s)'
        BY <3>1, EndPlaces
      <3> QED
        BY <3>1, <3>2, DequeueStays
    <2>3. CASE Drop(s)
      <3>1. Forget(s) /\ waiting' = waiting /\ running' = running
        BY <2>3 DEF Drop, queueVars
      <3>2. /\ \A r \in Seqs \ {s} : Same(r)
            /\ ~ Works(s) /\ ~ Waits(s) /\ ~ Runs(s)
            /\ ~ Works(s)' /\ ~ Waits(s)' /\ ~ Runs(s)'
        BY <3>1, ForgetPlaces
      <3> QED
        BY <1>2, <3>1, <3>2, QueueStays
    <2> QED
      BY <2>1, <2>2, <2>3
  <1>4. OthersStay(s, batch, batch') /\ (s \in Range(batch') <=> Works(s))
    BY <1>1, <1>2, QueueStays DEF stepVars
  <1>5. QueuesExact'
    BY <1>3, QueuesAfter DEF SchedulerInv
  <1>6. BatchAtWork'
    BY <1>3, <1>4, BatchAfter DEF SchedulerInv
  <1>7. SchedulerTypeOK'
    BY <1>1, <1>3 DEF SchedulerInv, SchedulerTypeOK, stepVars
  <1>8. Turns'
    BY <1>1 DEF SchedulerInv, Turns, stepVars
  <1> QED
    BY <1>5, <1>6, <1>7, <1>8 DEF SchedulerInv

LEMMA SchedulerStepInv ==
    ASSUME Inv, SchedulerInv, [EngineNext]_engineVars
    PROVE  SchedulerInv'
  <1>1. CASE UNCHANGED engineVars
    <2>1. UNCHANGED <<vars, queueVars, stepVars>>
      BY <1>1 DEF engineVars
    <2>2. SchedulerTypeOK /\ Turns /\ QueuesExact /\ BatchAtWork
      BY DEF SchedulerInv
    <2>3. SchedulerTypeOK' /\ Turns'
      BY <2>1, <2>2 DEF queueVars, stepVars, SchedulerTypeOK, Turns
    <2>4. QueuesExact' /\ BatchAtWork'
      BY <2>1, <2>2 DEF vars, bmVars, reqVars, runVars, queueVars, stepVars, QueuesExact, BatchAtWork,
                        IsInjective, Range, FinalChunk, IsPrefilling, uncomputed_tokens
    <2> QED
      BY <2>3, <2>4 DEF SchedulerInv
  <1>2. CASE StartStep \/ EndPrefill \/ EndDecode \/ NextGroup \/ EndRun \/ EndStep \/ ModelError
    BY <1>2, QuietInv
  <1>3. ASSUME NEW s \in Seqs, AdmitPrompt(s) \/ PrefillChunk(s) \/ DecodeTurn(s)
        PROVE  SchedulerInv'
    BY <1>3, AdmitPromptInv, PrefillChunkInv, DecodeTurnInv
  <1>4. ASSUME NEW s \in Seqs, (\E drafts \in Drafts : RunForward(s, drafts)) \/ RunCommit(s)
        PROVE  SchedulerInv'
    BY <1>4, RunInv
  <1>5. ASSUME NEW s \in Seqs, NEW finish \in BOOLEAN, PostItem(s, finish)
        PROVE  SchedulerInv'
    BY <1>5, PostItemInv
  <1>6. ASSUME NEW s \in Seqs, NEW torn \in BOOLEAN, FailItem(s, torn)
        PROVE  SchedulerInv'
    BY <1>6, FailItemInv
  <1>7. ASSUME NEW s \in Seqs, Arrive(s) \/ Cancel(s) \/ Drop(s)
        PROVE  SchedulerInv'
    BY <1>7, ClientInv
  <1> QED
    BY <1>1, <1>2, <1>3, <1>4, <1>5, <1>6, <1>7 DEF EngineNext, Step

LEMMA SchedulerInit == EngineInit => SchedulerInv
  <1> SUFFICES ASSUME EngineInit
               PROVE  SchedulerInv
    OBVIOUS
  <1>1. /\ waiting = <<>> /\ running = <<>> /\ pc = "idle" /\ left = 0 /\ budget = 0
        /\ batch = <<>> /\ report = "none"
        /\ status = [s \in Seqs |-> "NEW"] /\ work = [s \in Seqs |-> "idle"]
    BY DEF EngineInit, Init
  <1>2. SchedulerTypeOK /\ Turns
    BY <1>1, LimitsAssumption DEF SchedulerTypeOK, Turns
  <1>3. IsInjective(<<>>) /\ Range(<<>>) = {}
    BY DEF IsInjective, Range
  <1>4. QueuesExact /\ BatchAtWork
    BY <1>1, <1>3 DEF QueuesExact, BatchAtWork
  <1> QED
    BY <1>2, <1>4 DEF SchedulerInv

LEMMA SchedulerInvariance == EngineSpec => []SchedulerInv
  <1>1. Inv /\ SchedulerInv /\ [EngineNext]_engineVars => SchedulerInv'
    BY SchedulerStepInv
  <1> QED
    BY <1>1, SchedulerInit, EngineInvariance, PTL DEF EngineSpec

\* The rotations, removals and moves of the queues lose and duplicate no request,
\* under any budget, number of requests and order of arrivals, errors and ends.
THEOREM QueuesAreExact == EngineSpec => []QueuesExact
  <1>1. SchedulerInv => QueuesExact
    BY DEF SchedulerInv
  <1> QED
    BY <1>1, SchedulerInvariance, PTL

-----------------------------------------------------------------------------
(* The forward passes of a batch.                                          *)

PartUpTo(f, n, queue, S) ==
    f = [i \in 0 .. n |->
            IF i = 0 THEN <<>>
            ELSE IF queue[i] \in S THEN Append(f[i - 1], queue[i]) ELSE f[i - 1]]

LEMMA PartsExist ==
    ASSUME NEW queue, NEW S
    PROVE  \A n \in Nat : \E f : PartUpTo(f, n, queue, S)
  <1> DEFINE B == {n \in Nat : ~ \E f : PartUpTo(f, n, queue, S)}
  <1>1. SUFFICES ASSUME B # {} PROVE FALSE
    OBVIOUS
  <1>2. PICK n \in B : \A m \in B : n <= m
    <2>1. B \in SUBSET Nat
      OBVIOUS
    <2> HIDE DEF B
    <2> QED
      BY <1>1, <2>1, SmallestNat
  <1>3. n # 0
    <2> DEFINE f == [i \in 0 .. 0 |-> <<>>]
    <2>1. f = [i \in 0 .. 0 |->
                 IF i = 0 THEN <<>>
                 ELSE IF queue[i] \in S THEN Append(f[i - 1], queue[i]) ELSE f[i - 1]]
      OBVIOUS
    <2>2. PartUpTo(f, 0, queue, S)
      BY <2>1 DEF PartUpTo
    <2> QED
      BY <1>2, <2>2
  <1>4. n \in Nat /\ n - 1 \in Nat /\ n - 1 \notin B
    BY <1>2, <1>3
  <1>5. PICK f : PartUpTo(f, n - 1, queue, S)
    BY <1>4
  <1>6. \A i \in 0 .. n - 1 :
           f[i] = IF i = 0 THEN <<>>
                  ELSE IF queue[i] \in S THEN Append(f[i - 1], queue[i]) ELSE f[i - 1]
    BY <1>5 DEF PartUpTo
  <1> DEFINE last == IF queue[n] \in S THEN Append(f[n - 1], queue[n]) ELSE f[n - 1]
             g == [i \in 0 .. n |-> IF i = n THEN last ELSE f[i]]
  <1> HIDE DEF last
  <1>7. /\ g[n] = last
        /\ \A i \in 0 .. n - 1 : g[i] = f[i]
        /\ g = [i \in 0 .. n |-> g[i]]
    BY <1>3, <1>4
  <1> HIDE DEF g
  <1>8. g[n] = IF queue[n] \in S THEN Append(f[n - 1], queue[n]) ELSE f[n - 1]
    BY <1>7 DEF last
  <1>9. ASSUME NEW i \in 0 .. n
        PROVE  g[i] = IF i = 0 THEN <<>>
                      ELSE IF queue[i] \in S THEN Append(g[i - 1], queue[i]) ELSE g[i - 1]
    <2>1. CASE i = n
      <3>1. n - 1 \in 0 .. n - 1
        BY <1>4
      <3>2. g[n - 1] = f[n - 1]
        BY <1>7, <3>1
      <3> QED
        BY <1>3, <1>8, <2>1, <3>2
    <2>2. CASE i # n
      <3>1. i \in 0 .. n - 1 /\ (i # 0 => i - 1 \in 0 .. n - 1)
        BY <1>4, <2>2
      <3>2. g[i] = f[i] /\ (i # 0 => g[i - 1] = f[i - 1])
        BY <1>7, <3>1
      <3> QED
        BY <1>6, <3>1, <3>2
    <2> QED
      BY <2>1, <2>2
  <1>10. g = [i \in 0 .. n |->
                IF i = 0 THEN <<>>
                ELSE IF queue[i] \in S THEN Append(g[i - 1], queue[i]) ELSE g[i - 1]]
    BY <1>7, <1>9, Zenon
  <1> QED
    BY <1>2, <1>10 DEF PartUpTo

\* The first r items of the queue, of which t are those in S.
IsPart(t, r, A, queue, S) ==
    /\ t \in Seq(A)
    /\ \A s : s \in Range(t) <=> s \in S /\ \E i \in 1 .. r : s = queue[i]

LEMMA RangeOfAppend ==
    ASSUME NEW A, NEW t \in Seq(A), NEW a \in A, NEW s
    PROVE  s \in Range(Append(t, a)) <=> s \in Range(t) \/ s = a
  <1>1. /\ Append(t, a) \in Seq(A) /\ Len(Append(t, a)) = Len(t) + 1 /\ Len(t) \in Nat
        /\ DOMAIN t = 1 .. Len(t) /\ DOMAIN Append(t, a) = 1 .. Len(t) + 1
        /\ Append(t, a)[Len(t) + 1] = a
        /\ \A i \in 1 .. Len(t) : Append(t, a)[i] = t[i]
    OBVIOUS
  <1>2. \A n \in Nat : /\ \A i \in 1 .. n + 1 : i = n + 1 \/ i \in 1 .. n
                       /\ n + 1 \in 1 .. n + 1
                       /\ \A i \in 1 .. n : i \in 1 .. n + 1
    OBVIOUS
  <1>3. ASSUME s \in Range(Append(t, a)) PROVE s \in Range(t) \/ s = a
    BY <1>1, <1>2, <1>3 DEF Range
  <1>4. ASSUME s \in Range(t) \/ s = a PROVE s \in Range(Append(t, a))
    BY <1>1, <1>2, <1>4 DEF Range
  <1> QED
    BY <1>3, <1>4

LEMMA OneItemMore ==
    ASSUME NEW A, NEW queue \in Seq(A), NEW S, NEW r \in 1 .. Len(queue),
           NEW t, IsPart(t, r - 1, A, queue, S)
    PROVE  IsPart(IF queue[r] \in S THEN Append(t, queue[r]) ELSE t, r, A, queue, S)
  <1>1. queue[r] \in A /\ t \in Seq(A)
    BY DEF IsPart
  <1>2. \A i \in 1 .. r : i = r \/ i \in 1 .. r - 1
    OBVIOUS
  <1>3. r \in 1 .. r /\ \A i \in 1 .. r - 1 : i \in 1 .. r
    OBVIOUS
  <1>4. \A s : (\E i \in 1 .. r : s = queue[i]) <=> s = queue[r] \/ \E i \in 1 .. r - 1 : s = queue[i]
    BY <1>2, <1>3
  <1>5. CASE queue[r] \in S
    <2>1. Append(t, queue[r]) \in Seq(A)
      BY <1>1
    <2>2. \A s : s \in Range(Append(t, queue[r])) <=> s \in Range(t) \/ s = queue[r]
      BY <1>1, RangeOfAppend
    <2>3. \A s : s \in Range(t) <=> s \in S /\ \E i \in 1 .. r - 1 : s = queue[i]
      BY DEF IsPart
    <2>4. \A s : s \in Range(Append(t, queue[r])) <=> s \in S /\ \E i \in 1 .. r : s = queue[i]
      BY <1>4, <1>5, <2>2, <2>3
    <2> QED
      BY <1>5, <2>1, <2>4 DEF IsPart
  <1>6. CASE queue[r] \notin S
    <2>1. \A s : s \in Range(t) <=> s \in S /\ \E i \in 1 .. r - 1 : s = queue[i]
      BY DEF IsPart
    <2>2. \A s : s \in Range(t) <=> s \in S /\ \E i \in 1 .. r : s = queue[i]
      BY <1>4, <1>6, <2>1
    <2> QED
      BY <1>1, <1>6, <2>2 DEF IsPart
  <1> QED
    BY <1>5, <1>6

LEMMA PartIs ==
    ASSUME NEW A, NEW queue \in Seq(A), NEW S
    PROVE  /\ Part(queue, S) \in Seq(A)
           /\ \A s : s \in Range(Part(queue, S)) <=> s \in S /\ s \in Range(queue)
  <1> DEFINE f == CHOOSE f : PartUpTo(f, Len(queue), queue, S)
             B == {r \in Nat : r \in 0 .. Len(queue) /\ ~ IsPart(f[r], r, A, queue, S)}
  <1>1. Len(queue) \in Nat /\ DOMAIN queue = 1 .. Len(queue)
    OBVIOUS
  <1>2. Part(queue, S) = f[Len(queue)]
    BY DEF Part, PartUpTo
  <1>3. PartUpTo(f, Len(queue), queue, S)
    BY <1>1, PartsExist
  <1> HIDE DEF f
  <1>4. \A r \in 0 .. Len(queue) :
           f[r] = IF r = 0 THEN <<>>
                  ELSE IF queue[r] \in S THEN Append(f[r - 1], queue[r]) ELSE f[r - 1]
    BY <1>3 DEF PartUpTo
  <1>5. B = {}
    <2>1. SUFFICES ASSUME B # {} PROVE FALSE
      OBVIOUS
    <2>2. PICK r \in B : \A m \in B : r <= m
      <3>1. B \in SUBSET Nat
        OBVIOUS
      <3> HIDE DEF B
      <3> QED
        BY <2>1, <3>1, SmallestNat
    <2>3. r \in Nat /\ r \in 0 .. Len(queue) /\ ~ IsPart(f[r], r, A, queue, S)
      BY <2>2
    <2>4. CASE r = 0
      <3>1. f[r] = <<>>
        BY <1>4, <2>3, <2>4
      <3>2. Range(<<>>) = {} /\ <<>> \in Seq(A) /\ 1 .. 0 = {}
        BY DEF Range
      <3> QED
        BY <2>3, <2>4, <3>1, <3>2 DEF IsPart
    <2>5. CASE r # 0
      <3>1. r \in 1 .. Len(queue) /\ r - 1 \in Nat /\ r - 1 \in 0 .. Len(queue) /\ ~ (r <= r - 1)
        BY <1>1, <2>3, <2>5
      <3>2. r - 1 \notin B
        <4> HIDE DEF B
        <4> QED
          BY <2>2, <3>1
      <3>3. IsPart(f[r - 1], r - 1, A, queue, S)
        BY <3>1, <3>2
      <3>4. f[r] = IF queue[r] \in S THEN Append(f[r - 1], queue[r]) ELSE f[r - 1]
        BY <1>4, <2>3, <2>5
      <3>5. IsPart(f[r], r, A, queue, S)
        BY <3>1, <3>3, <3>4, OneItemMore
      <3> QED
        BY <2>3, <3>5
    <2> QED
      BY <2>4, <2>5
  <1>6. IsPart(f[Len(queue)], Len(queue), A, queue, S)
    <2>1. Len(queue) \in 0 .. Len(queue)
      BY <1>1
    <2> QED
      BY <1>1, <1>5, <2>1
  <1>7. \A s : s \in Range(queue) <=> \E i \in 1 .. Len(queue) : s = queue[i]
    BY <1>1 DEF Range
  <1> QED
    BY <1>2, <1>6, <1>7 DEF IsPart

InSome(s, list) == \E i \in DOMAIN list : s \in Range(list[i])

LEMMA InJoined ==
    ASSUME NEW A, NEW front \in Seq(A), NEW back \in Seq(A), NEW s,
           InSome(s, front) \/ InSome(s, back)
    PROVE  InSome(s, front \o back)
  <1> DEFINE n == Len(front)
             m == Len(back)
  <1>1. /\ n \in Nat /\ m \in Nat
        /\ DOMAIN front = 1 .. n /\ DOMAIN back = 1 .. m
        /\ DOMAIN (front \o back) = 1 .. n + m
        /\ \A i \in 1 .. n : (front \o back)[i] = front[i]
        /\ \A i \in 1 .. m : (front \o back)[n + i] = back[i]
    OBVIOUS
  <1> DEFINE joined == front \o back
  <1> HIDE DEF n, m, joined
  <1>2. \A i \in 1 .. n : i \in 1 .. n + m
    BY <1>1
  <1>3. \A i \in 1 .. m : n + i \in 1 .. n + m
    BY <1>1
  <1>4. /\ DOMAIN joined = 1 .. n + m
        /\ \A i \in 1 .. n : joined[i] = front[i]
        /\ \A i \in 1 .. m : joined[n + i] = back[i]
    BY <1>1 DEF joined
  <1>5. InSome(s, joined)
    <2>1. CASE InSome(s, front)
      BY <1>1, <1>2, <1>4, <2>1 DEF InSome
    <2>2. CASE InSome(s, back)
      BY <1>1, <1>3, <1>4, <2>2 DEF InSome
    <2> QED
      BY <2>1, <2>2
  <1> QED
    BY <1>5 DEF joined

LEMMA GroupHolds ==
    ASSUME NEW group \in Seq(Seqs)
    PROVE  /\ OneGroup(group) \in Seq(Seq(Seqs))
           /\ \A s \in Range(group) : InSome(s, OneGroup(group))
  <1>1. CASE group = <<>>
    <2>1. OneGroup(group) = <<>> /\ Range(group) = {}
      BY <1>1 DEF OneGroup, Range
    <2> QED
      BY <2>1
  <1>2. CASE group # <<>>
    <2>1. /\ <<group>> \in Seq(Seq(Seqs)) /\ DOMAIN <<group>> = 1 .. 1
          /\ <<group>>[1] = group /\ 1 \in 1 .. 1
      OBVIOUS
    <2> QED
      BY <1>2, <2>1 DEF OneGroup, InSome
  <1> QED
    BY <1>1, <1>2

\* Every item of the batch is in a forward pass.
LEMMA GroupsCover ==
    ASSUME batch \in Seq(Seqs)
    PROVE  /\ Groups \in Seq(Seq(Seqs))
           /\ \A s \in Range(batch) : InSome(s, Groups)
  <1> DEFINE prefilling == {s \in Seqs : IsPrefilling(s)}
             speculating == {s \in Seqs : SpeculatesAlone(s)}
             regular == {s \in Seqs : Regular(s)}
             first == OneGroup(Part(batch, prefilling))
             alone == Part(batch, speculating)
             singles == [i \in DOMAIN alone |-> <<alone[i]>>]
             last == OneGroup(Part(batch, regular))
  <1>1. Groups = first \o singles \o last
    BY DEF Groups
  <1>2. \A s \in Range(batch) : s \in prefilling \/ s \in speculating \/ s \in regular
    BY RangeOfSeq DEF Regular
  <1> HIDE DEF prefilling, speculating, regular
  <1>3. /\ first \in Seq(Seq(Seqs))
        /\ \A s \in Range(batch) : s \in prefilling => InSome(s, first)
    BY PartIs, GroupHolds
  <1>4. /\ last \in Seq(Seq(Seqs))
        /\ \A s \in Range(batch) : s \in regular => InSome(s, last)
    BY PartIs, GroupHolds
  <1>5. alone \in Seq(Seqs) /\ \A s \in Range(batch) : s \in speculating => s \in Range(alone)
    BY PartIs
  <1> HIDE DEF first, alone, last
  <1>6. singles \in Seq(Seq(Seqs))
    <2>1. DOMAIN alone = 1 .. Len(alone) /\ Len(alone) \in Nat
          /\ \A i \in DOMAIN alone : <<alone[i]>> \in Seq(Seqs)
      BY <1>5
    <2> QED
      BY <2>1
  <1>7. \A s \in Range(alone) : InSome(s, singles)
    <2>1. SUFFICES ASSUME NEW i \in DOMAIN alone PROVE InSome(alone[i], singles)
      BY DEF Range
    <2>2. /\ DOMAIN singles = DOMAIN alone /\ singles[i] = <<alone[i]>>
          /\ DOMAIN <<alone[i]>> = 1 .. 1 /\ 1 \in 1 .. 1 /\ <<alone[i]>>[1] = alone[i]
      OBVIOUS
    <2>3. alone[i] \in Range(<<alone[i]>>)
      BY <2>2 DEF Range
    <2> QED
      BY <2>2, <2>3 DEF InSome
  <1> HIDE DEF singles
  <1>8. first \o singles \in Seq(Seq(Seqs))
    BY <1>3, <1>6
  <1>9. ASSUME NEW s \in Range(batch) PROVE InSome(s, first \o singles \o last)
    <2>1. CASE s \in regular
      BY <1>4, <1>8, <2>1, InJoined
    <2>2. CASE s \in prefilling \/ s \in speculating
      <3>1. InSome(s, first \o singles)
        BY <1>3, <1>5, <1>6, <1>7, <2>2, InJoined
      <3> QED
        BY <1>4, <1>8, <3>1, InJoined
    <2> QED
      BY <1>2, <2>1, <2>2
  <1> QED
    BY <1>1, <1>4, <1>8, <1>9

\* While the model runs, each item of the batch has been through it or is in a group
\* that is still to run; behind it, each has been through.
ForwardsInv ==
    /\ groups \in Seq(Seq(Seqs))
    /\ pc = "model" => \A s \in Range(batch) : work[s] = "done" \/ InSome(s, groups)
    /\ pc = "post" => \A s \in Range(batch) : work[s] = "done"

LEMMA GroupsStay ==
    ASSUME ForwardsInv, UNCHANGED <<groups, batch, pc>>,
           \A r \in Range(batch) : work[r] = "done" => work'[r] = "done"
    PROVE  ForwardsInv'
  <1> USE DEF ForwardsInv
  <1>1. groups' = groups /\ Range(batch)' = Range(batch) /\ pc' = pc
    BY DEF Range
  <1> QED
    BY <1>1 DEF InSome, Range

\* A step of the loops over the queues, or of the exception handler.
LEMMA GroupsWait ==
    ASSUME ForwardsInv, groups' = groups, pc' \notin {"model", "post"}
    PROVE  ForwardsInv'
  BY DEF ForwardsInv

LEMMA LaunchGroups ==
    ASSUME SchedulerInv, ForwardsInv, Launch, UNCHANGED batch
    PROVE  ForwardsInv'
  <1>1. CASE batch = <<>>
    BY <1>1, GroupsWait DEF Launch
  <1>2. CASE batch # <<>>
    <2>1. pc' = "model" /\ groups' = Groups
      BY <1>2 DEF Launch
    <2>2. Groups \in Seq(Seq(Seqs)) /\ \A s \in Range(batch) : InSome(s, Groups)
      BY GroupsCover DEF SchedulerInv, SchedulerTypeOK
    <2>3. groups' \in Seq(Seq(Seqs)) /\ \A s \in Range(batch)' : InSome(s, groups)'
      BY <2>1, <2>2 DEF InSome, Range
    <2> QED
      BY <2>1, <2>3 DEF ForwardsInv
  <1> QED
    BY <1>1, <1>2

LEMMA RunGroups ==
    ASSUME Inv, ForwardsInv, NEW s \in Seqs,
           (\E drafts \in Drafts : RunForward(s, drafts)) \/ RunCommit(s)
    PROVE  ForwardsInv'
  <1>1. /\ (\E drafts \in Drafts : Forward(s, drafts)) \/ Commit(s) \/ CommitSpeculative(s)
        /\ UNCHANGED stepVars
    BY DEF RunForward, RunCommit
  <1>2. \A r \in Seqs \ {s} : work'[r] = work[r]
    BY <1>1, ModelPlaces DEF Same
  <1>3. work[s] # "done"
    BY <1>1 DEF Forward, Commit, CommitSpeculative
  <1>4. work \in [Seqs -> {"idle", "scheduled", "forwarded", "done"}]
    BY DEF Inv, TypeOK
  <1>5. \A r : work[r] = "done" => work'[r] = "done"
    <2>1. /\ DOMAIN work = Seqs
          /\ \E w \in {"forwarded", "done"} : work' = [work EXCEPT ![s] = w]
      BY <1>1, <1>4 DEF Forward, Commit, CommitSpeculative, Committed, append_and_record
    <2> QED
      BY <1>3, <2>1
  <1> QED
    BY <1>1, <1>5, GroupsStay DEF stepVars

LEMMA NextGroups ==
    ASSUME Inv, SchedulerInv, ForwardsInv, NextGroup
    PROVE  ForwardsInv'
  <1>1. /\ pc = "model" /\ groups # <<>> /\ groups' = Tail(groups)
        /\ InGroup("scheduled") = <<>> /\ InGroup("forwarded") = <<>>
        /\ pc' = pc /\ batch' = batch /\ work' = work
    BY DEF NextGroup, vars, runVars
  <1>2. groups \in Seq(Seq(Seqs)) /\ Head(groups) \in Seq(Seqs) /\ Tail(groups) \in Seq(Seq(Seqs))
    BY <1>1 DEF ForwardsInv
  <1>3. Range(<<>>) = {}
    BY DEF Range
  <1>4. ASSUME NEW s \in Seqs, s \in Range(Head(groups))
        PROVE  work[s] \notin {"scheduled", "forwarded"}
    <2>1. ASSUME NEW stage, InGroup(stage) = <<>>
          PROVE  work[s] # stage
      <3> DEFINE there == {r \in Seqs : work[r] = stage}
      <3>1. Part(Head(groups), there) = <<>>
        BY <2>1 DEF InGroup
      <3>2. s \in there <=> work[s] = stage
        OBVIOUS
      <3> HIDE DEF there
      <3>3. s \in Range(Part(Head(groups), there)) <=> s \in there
        BY <1>2, <1>4, PartIs
      <3> QED
        BY <1>3, <3>1, <3>2, <3>3
    <2> QED
      BY <1>1, <2>1
  <1>5. ASSUME NEW s \in Range(batch), work[s] # "done"
        PROVE  InSome(s, Tail(groups))
    <2>1. s \in Seqs /\ work[s] # "idle"
      BY <1>5, RangeOfSeq DEF SchedulerInv, SchedulerTypeOK, BatchAtWork
    <2>2. work[s] \in {"scheduled", "forwarded"}
      BY <1>5, <2>1 DEF Inv, TypeOK
    <2>3. PICK i \in DOMAIN groups : s \in Range(groups[i])
      BY <1>1, <1>5 DEF ForwardsInv, InSome
    <2>4. /\ DOMAIN groups = 1 .. Len(groups) /\ Head(groups) = groups[1] /\ Len(groups) \in Nat
          /\ DOMAIN Tail(groups) = 1 .. Len(groups) - 1
          /\ \A j \in 1 .. Len(groups) - 1 : Tail(groups)[j] = groups[j + 1]
      BY <1>1, <1>2
    <2>5. i # 1
      BY <1>4, <2>1, <2>2, <2>3, <2>4
    <2>6. i - 1 \in 1 .. Len(groups) - 1 /\ (i - 1) + 1 = i
      BY <2>3, <2>4, <2>5
    <2>7. Tail(groups)[i - 1] = groups[i] /\ i - 1 \in DOMAIN Tail(groups)
      BY <2>4, <2>6
    <2> QED
      BY <2>3, <2>7 DEF InSome
  <1>6. \A s \in Range(batch)' : work'[s] = "done" \/ InSome(s, groups)'
    BY <1>1, <1>5 DEF Range, InSome
  <1> QED
    BY <1>1, <1>2, <1>6 DEF ForwardsInv

LEMMA PostGroups ==
    ASSUME Inv, SchedulerInv, ForwardsInv, NEW s \in Seqs, NEW finish \in BOOLEAN,
           PostItem(s, finish)
    PROVE  ForwardsInv'
  <1>1. /\ pc = "post" /\ batch # <<>> /\ s = Head(batch) /\ batch' = Tail(batch)
        /\ Postprocess(s, finish) /\ pc' = pc /\ groups' = groups
    BY DEF PostItem
  <1>2. \A r \in Seqs \ {s} : work'[r] = work[r]
    BY <1>1, PostprocessPlaces DEF Same
  <1>3. OthersStay(s, batch, batch') /\ s \notin Range(batch')
    BY <1>1, BatchTail
  <1>4. \A r \in Range(batch') : r \in Seqs \ {s} /\ r \in Range(batch)
    BY <1>3 DEF OthersStay
  <1>5. \A r \in Range(batch)' : work'[r] = "done"
    BY <1>1, <1>2, <1>4 DEF ForwardsInv, Range
  <1> QED
    BY <1>1, <1>5 DEF ForwardsInv

LEMMA ForwardsStepInv ==
    ASSUME Inv, SchedulerInv, ForwardsInv, [EngineNext]_engineVars
    PROVE  ForwardsInv'
  <1>1. CASE UNCHANGED engineVars
    BY <1>1, GroupsStay DEF engineVars, vars, runVars, stepVars
  <1>2. CASE StartStep
    BY <1>2, GroupsWait DEF StartStep, EnterPrefill, EnterDecode
  <1>3. CASE EndPrefill
    BY <1>3, GroupsWait, LaunchGroups DEF EndPrefill, EnterDecode
  <1>4. CASE EndDecode
    BY <1>4, GroupsWait, LaunchGroups DEF EndDecode, EnterPrefill
  <1>5. CASE NextGroup
    BY <1>5, NextGroups
  <1>6. CASE EndRun
    <2>1. /\ pc = "model" /\ pc' = "post" /\ groups = <<>> /\ groups' = groups
          /\ batch' = batch /\ work' = work
      BY <1>6 DEF EndRun, vars, runVars
    <2>2. \A s : ~ InSome(s, groups)
      BY <2>1 DEF InSome
    <2>3. \A s \in Range(batch)' : work'[s] = "done"
      BY <2>1, <2>2 DEF ForwardsInv, Range
    <2> QED
      BY <2>1, <2>3 DEF ForwardsInv
  <1>7. CASE EndStep
    BY <1>7 DEF EndStep, ForwardsInv
  <1>8. CASE ModelError
    BY <1>8, GroupsWait DEF ModelError
  <1>9. ASSUME NEW s \in Seqs, AdmitPrompt(s) \/ PrefillChunk(s) \/ DecodeTurn(s)
        PROVE  ForwardsInv'
    BY <1>9, GroupsWait DEF AdmitPrompt, PrefillChunk, DecodeTurn, PrefillTurn, Take, Pass
  <1>10. ASSUME NEW s \in Seqs, (\E drafts \in Drafts : RunForward(s, drafts)) \/ RunCommit(s)
         PROVE  ForwardsInv'
    BY <1>10, RunGroups
  <1>11. ASSUME NEW s \in Seqs, NEW finish \in BOOLEAN, PostItem(s, finish)
         PROVE  ForwardsInv'
    BY <1>11, PostGroups
  <1>12. ASSUME NEW s \in Seqs, NEW torn \in BOOLEAN, FailItem(s, torn)
         PROVE  ForwardsInv'
    BY <1>12, GroupsWait DEF FailItem
  <1>13. ASSUME NEW s \in Seqs, Arrive(s) \/ Cancel(s) \/ Drop(s)
         PROVE  ForwardsInv'
    BY <1>13, GroupsWait DEF Arrive, Cancel, Drop, stepVars
  <1> QED
    BY <1>1, <1>2, <1>3, <1>4, <1>5, <1>6, <1>7, <1>8, <1>9, <1>10, <1>11, <1>12, <1>13
    DEF EngineNext, Step

LEMMA ForwardsInvariance == EngineSpec => []ForwardsInv
  <1>1. EngineInit => ForwardsInv
    BY DEF EngineInit, ForwardsInv
  <1>2. Inv /\ SchedulerInv /\ ForwardsInv /\ [EngineNext]_engineVars => ForwardsInv'
    BY ForwardsStepInv
  <1> QED
    BY <1>1, <1>2, SchedulerInvariance, EngineInvariance, PTL DEF EngineSpec

\* No step ends, with or without an error, with a request left half-way through, and
\* no request is looked at for its results that a forward pass has left out.
THEOREM BatchIsTheWork == EngineSpec => []BatchIsWork
  <1>1. SchedulerInv /\ ForwardsInv => BatchIsWork
    BY DEF SchedulerInv, ForwardsInv, BatchIsWork
  <1> QED
    BY <1>1, SchedulerInvariance, ForwardsInvariance, PTL

\* The queues, the batch, its groups and the budget keep their types: no charge
\* overdraws the budget, and what goes to the model is lists of requests.
THEOREM EngineTypeCorrectness == EngineSpec => []EngineTypeOK
  <1>1. SchedulerInv /\ ForwardsInv => EngineTypeOK
    BY DEF SchedulerInv, ForwardsInv, EngineTypeOK
  <1> QED
    BY <1>1, SchedulerInvariance, ForwardsInvariance, PTL

-----------------------------------------------------------------------------
(* The limits of a batch.                                                  *)

\* What the batch has been charged.
Charged == SumFunctionOnSet(num_tokens, Range(batch))

\* BatchWithinLimits holds while the batch is put together and run.
InLimits ==
    /\ Charged + budget = MaxBatchedTokens
    /\ Len(batch) <= MaxNumSeqs

LEMMA SetOfBatch ==
    ASSUME SchedulerInv, TypeOK
    PROVE  /\ IsFiniteSet(Range(batch)) /\ Range(batch) \subseteq Seqs
           /\ \A s \in Seqs : num_tokens[s] \in Int
           /\ Charged \in Int
  <1>1. batch \in Seq(Seqs) /\ Len(batch) \in Nat /\ DOMAIN batch = 1 .. Len(batch)
    BY QueueTypes
  <1>2. Range(batch) \subseteq Seqs
    BY <1>1, QueueTypes, QueueStays DEF OthersStay
  <1>3. IsFiniteSet(Range(batch))
    <2>1. IsFiniteSet(1 .. Len(batch))
      BY <1>1, FS_Interval
    <2>2. Range(batch) = {batch[i] : i \in 1 .. Len(batch)}
      BY <1>1 DEF Range
    <2>3. batch \in [1 .. Len(batch) -> Seqs]
      BY <1>1
    <2> DEFINE I == 1 .. Len(batch)
               R == {batch[i] : i \in I}
    <2>4. batch \in Surjection(I, R)
      BY <2>3 DEF Surjection
    <2> HIDE DEF I, R
    <2>5. IsFiniteSet(R)
      BY <2>1, <2>4, FS_Surjection DEF ExistsSurjection, I
    <2> QED
      BY <2>2, <2>5 DEF I, R
  <1>4. \A s \in Seqs : num_tokens[s] \in Int
    BY DEF TypeOK
  <1>5. Charged \in Int
    <2>1. \A s \in Range(batch) : num_tokens[s] \in Int
      BY <1>2, <1>4
    <2>2. PICK g \in [SUBSET Range(batch) -> Int] : Charged = g[Range(batch)]
      BY <1>3, <2>1, SumWitness DEF Charged
    <2> QED
      BY <2>2
  <1> QED
    BY <1>2, <1>3, <1>4, <1>5


\* An item joins the batch, and its tokens come out of the budget.
LEMMA TakeInLimits ==
    ASSUME SchedulerInv, TypeOK, InLimits, NEW s \in Seqs, ~ Works(s), NEW n \in Nat,
           Take(s, n), Len(batch) < MaxNumSeqs,
           num_tokens' = [num_tokens EXCEPT ![s] = n]
    PROVE  InLimits'
  <1> DEFINE R == Range(batch)
  <1>1. /\ IsFiniteSet(R) /\ R \subseteq Seqs
        /\ \A r \in Seqs : num_tokens[r] \in Int
        /\ Charged \in Int
    BY SetOfBatch
  <1>2. /\ batch \in Seq(Seqs) /\ IsInjective(batch) /\ Len(batch) \in Nat
        /\ MaxNumSeqs \in Nat /\ MaxBatchedTokens \in Nat /\ budget \in Int
        /\ s \notin R
    BY QueueTypes, Members DEF SchedulerInv
  <1>3. batch' = Append(batch, s) /\ budget' = budget - n
    BY DEF Take
  <1>4. Range(batch') = R \union {s} /\ Len(batch') = Len(batch) + 1
    BY <1>2, <1>3, AppendToQueue
  <1>5. /\ num_tokens'[s] = n
        /\ \A r \in Seqs \ {s} : num_tokens'[r] = num_tokens[r]
    BY DEF TypeOK
  <1>6. \A r \in R : num_tokens[r] = num_tokens'[r]
    BY <1>1, <1>2, <1>5
  <1> HIDE DEF R
  <1>7. SumFunctionOnSet(num_tokens, R) = SumFunctionOnSet(num_tokens', R)
    BY <1>1, <1>6, SumOfSame
  <1>8. \A r \in R \union {s} : num_tokens'[r] \in Int
    BY <1>1, <1>5, <1>6
  <1>9. SumFunctionOnSet(num_tokens', R \union {s}) = num_tokens'[s] + SumFunctionOnSet(num_tokens', R)
    BY <1>1, <1>2, <1>8, SumWithOne
  <1>10. Charged' = n + Charged
    BY <1>4, <1>5, <1>7, <1>9 DEF Charged, R
  <1> QED
    BY <1>1, <1>2, <1>3, <1>4, <1>10 DEF InLimits

LEMMA SameInLimits ==
    ASSUME InLimits, UNCHANGED <<batch, budget, num_tokens>>
    PROVE  InLimits'
  <1>1. Charged' = Charged
    BY DEF Charged
  <1> QED
    BY <1>1 DEF InLimits

LEMMA LimitsStep ==
    ASSUME Inv, SchedulerInv, BatchWithinLimits, [EngineNext]_engineVars
    PROVE  BatchWithinLimits'
  <1> DEFINE busy == {"prefill", "decode", "model"}
  <1>1. pc \in busy => InLimits
    BY DEF BatchWithinLimits, InLimits, Charged
  <1>2. SUFFICES ASSUME pc' \in busy
                 PROVE  InLimits'
    BY DEF BatchWithinLimits, InLimits, Charged
  <1>3. TypeOK
    BY DEF Inv
  <1>4. CASE UNCHANGED engineVars
    <2>1. UNCHANGED <<batch, budget, num_tokens, pc>>
      BY <1>4 DEF engineVars, vars, runVars, stepVars
    <2> QED
      BY <1>1, <1>2, <2>1, SameInLimits
  <1>5. CASE StartStep
    <2>1. batch' = <<>> /\ budget' = MaxBatchedTokens
      BY <1>5 DEF StartStep, SchedulerInv, Turns
    <2>2. Range(<<>>) = {} /\ Len(<<>>) = 0
      BY DEF Range
    <2>3. Charged' = 0
      BY <2>1, <2>2, SumOfNone DEF Charged
    <2>4. MaxBatchedTokens \in Nat /\ MaxNumSeqs \in Nat
      BY LimitsAssumption
    <2> QED
      BY <2>1, <2>2, <2>3, <2>4 DEF InLimits
  <1>6. CASE EndPrefill \/ EndDecode \/ NextGroup \/ EndRun \/ ModelError \/ EndStep
    <2>1. CASE EndPrefill \/ EndDecode \/ NextGroup
      <3>1. UNCHANGED <<batch, budget, num_tokens>> /\ pc \in busy
        BY <2>1 DEF EndPrefill, EndDecode, NextGroup, vars, runVars
      <3> QED
        BY <1>1, <3>1, SameInLimits
    <2>2. CASE EndRun \/ ModelError \/ EndStep
      BY <1>2, <2>2 DEF EndRun, ModelError, EndStep
    <2> QED
      BY <1>6, <2>1, <2>2
  <1>7. ASSUME NEW s \in Seqs, NEW chunk, Admit(s, chunk), chunk > 0,
               Take(s, chunk), Len(batch) < MaxNumSeqs, pc \in busy
        PROVE  InLimits'
    <2>1. ~ Works(s) /\ Uncached(s) \in Nat /\ chunk \in 0 .. Uncached(s)
      BY <1>7, AdmitPlaces
    <2>2. num_tokens' = [num_tokens EXCEPT ![s] = chunk]
      BY <1>7 DEF Admit, Schedule
    <2>3. chunk \in Nat
      BY <2>1
    <2> QED
      BY <1>1, <1>3, <1>7, <2>1, <2>2, <2>3, TakeInLimits
  <1>8. ASSUME NEW s \in Seqs, AdmitPrompt(s)
        PROVE  InLimits'
    <2>1. pc = "prefill" /\ Len(batch) < MaxNumSeqs
      BY <1>8 DEF AdmitPrompt, PrefillTurn
    <2>2. CASE Pass /\ UNCHANGED vars
      BY <1>1, <2>1, <2>2, SameInLimits DEF Pass, vars, runVars
    <2>3. CASE Admit(s, Uncached(s)) /\ Take(s, Uncached(s))
      <3>1. Uncached(s) \in Nat \ {0}
        BY <2>3, AdmitPlaces
      <3>2. Uncached(s) > 0
        BY <3>1
      <3> QED
        BY <1>7, <2>1, <2>3, <3>2
    <2> QED
      BY <1>8, <2>2, <2>3 DEF AdmitPrompt
  <1>9. ASSUME NEW s \in Seqs, PrefillChunk(s)
        PROVE  InLimits'
    <2> DEFINE admitted == block_table[s] # <<>>
               remaining == IF admitted THEN uncomputed_tokens(s) ELSE Uncached(s)
               chunk == ChunkOf(remaining)
    <2>1. /\ PrefillTurn /\ s = Head(waiting) /\ pc = "prefill" /\ budget > 0
      BY <1>9 DEF PrefillChunk, PrefillTurn
    <2>2. remaining \in Nat \ {0}
      BY <2>1, HeadWaits, SomethingLeft
    <2>3. budget \in Nat \ {0}
      BY <2>1, QueueTypes
    <2>4. \/ Pass /\ UNCHANGED vars
          \/ Pass /\ Admit(s, 0)
          \/ /\ Take(s, chunk) /\ Len(batch) < MaxNumSeqs
             /\ SchedulePrefill(s, chunk) \/ Admit(s, chunk)
      BY <1>9 DEF PrefillChunk, Fits
    <2> HIDE DEF remaining
    <2>5. chunk \in 1 .. remaining
      BY <2>2, <2>3, ChunkBounds
    <2>6. chunk > 0 /\ chunk \in Nat
      BY <2>2, <2>5
    <2> HIDE DEF chunk
    <2>7. CASE Pass /\ UNCHANGED vars
      BY <1>1, <2>1, <2>7, SameInLimits DEF Pass, vars, runVars
    <2>8. CASE Pass /\ Admit(s, 0)
      <3>1. num_tokens' = num_tokens
        BY <2>8 DEF Admit, runVars
      <3> QED
        BY <1>1, <2>1, <2>8, <3>1, SameInLimits DEF Pass
    <2>9. CASE Take(s, chunk) /\ Len(batch) < MaxNumSeqs /\ SchedulePrefill(s, chunk)
      <3>1. ~ Works(s)
        BY <2>9, SchedulePrefillPlaces
      <3>2. num_tokens' = [num_tokens EXCEPT ![s] = chunk]
        BY <2>9 DEF SchedulePrefill, Schedule
      <3> QED
        BY <1>1, <1>3, <2>1, <2>6, <2>9, <3>1, <3>2, TakeInLimits
    <2>10. CASE Take(s, chunk) /\ Len(batch) < MaxNumSeqs /\ Admit(s, chunk)
      BY <1>7, <2>1, <2>6, <2>10
    <2> QED
      BY <2>4, <2>7, <2>8, <2>9, <2>10
  <1>10. ASSUME NEW s \in Seqs, DecodeTurn(s)
         PROVE  InLimits'
    <2> DEFINE n == Lookahead(s)
    <2>1. /\ pc = "decode"
          /\ \/ Len(batch) < MaxNumSeqs /\ ScheduleDecode(s, n) /\ Take(s, n)
             \/ Pass /\ UNCHANGED vars
      BY <1>10 DEF DecodeTurn, Fits
    <2> HIDE DEF n
    <2>2. CASE Pass /\ UNCHANGED vars
      BY <1>1, <2>1, <2>2, SameInLimits DEF Pass, vars, runVars
    <2>3. CASE Len(batch) < MaxNumSeqs /\ ScheduleDecode(s, n) /\ Take(s, n)
      <3>1. ~ Works(s)
        BY <2>3, ScheduleDecodePlaces
      <3>2. n \in Nat
        BY <2>3, ScheduledTokens
      <3>3. num_tokens' = [num_tokens EXCEPT ![s] = n]
        BY <2>3 DEF ScheduleDecode, Schedule
      <3> QED
        BY <1>1, <1>3, <2>1, <2>3, <3>1, <3>2, <3>3, TakeInLimits
    <2> QED
      BY <2>1, <2>2, <2>3
  <1>11. ASSUME NEW s \in Seqs, (\E drafts \in Drafts : RunForward(s, drafts)) \/ RunCommit(s)
         PROVE  InLimits'
    <2>1. /\ (\E drafts \in Drafts : Forward(s, drafts)) \/ Commit(s) \/ CommitSpeculative(s)
          /\ pc = "model" /\ UNCHANGED stepVars
      BY <1>11 DEF RunForward, RunCommit
    <2>2. num_tokens' = num_tokens
      BY <2>1, ModelPlaces
    <2> QED
      BY <1>1, <2>1, <2>2, SameInLimits DEF stepVars
  <1>12. ASSUME NEW s \in Seqs, \/ \E finish \in BOOLEAN : PostItem(s, finish)
                                \/ \E torn \in BOOLEAN : FailItem(s, torn)
                                \/ Arrive(s) \/ Cancel(s) \/ Drop(s)
         PROVE  InLimits'
    BY <1>2, <1>12 DEF PostItem, FailItem, Arrive, Cancel, Drop, stepVars
  <1> QED
    BY <1>4, <1>5, <1>6, <1>8, <1>9, <1>10, <1>11, <1>12 DEF EngineNext, Step

\* Prompt chunks and speculative bursts together stay in the step's token budget,
\* and the batch in its number of requests, whatever the loops pick.
THEOREM BatchIsWithinLimits == EngineSpec => []BatchWithinLimits
  <1>1. EngineInit => BatchWithinLimits
    BY DEF EngineInit, BatchWithinLimits
  <1>2. Inv /\ SchedulerInv /\ BatchWithinLimits /\ [EngineNext]_engineVars => BatchWithinLimits'
    BY LimitsStep
  <1> QED
    BY <1>1, <1>2, EngineInvariance, SchedulerInvariance, PTL DEF EngineSpec


-----------------------------------------------------------------------------
(* The report of a pool that is too small.                                 *)

\* Without chunks a prompt is within the budget when it arrives, and has no pages
\* while it waits.
Prompted(s) ==
    /\ status[s] = "ACTIVE" => prompt_len[s] <= MaxBatchedTokens
    /\ Waits(s) => block_table[s] = <<>>

WholePrompts == ~ EnableChunkedPrefill => \A s \in Seqs : Prompted(s)

LEMMA PromptedAfter ==
    ASSUME \A r \in Seqs : Prompted(r), NEW s \in Seqs,
           \A r \in Seqs \ {s} : Same(r) /\ block_table'[r] = block_table[r],
           Prompted(s)'
    PROVE  \A r \in Seqs : Prompted(r)'
  <1>1. ASSUME NEW r \in Seqs \ {s}
        PROVE  Prompted(r)'
    BY DEF Same, Prompted, Waits, FinalChunk, IsPrefilling, uncomputed_tokens
  <1> QED
    BY <1>1

LEMMA WholePromptsStep ==
    ASSUME Inv, SchedulerInv, WholePrompts, [EngineNext]_engineVars
    PROVE  WholePrompts'
  <1> SUFFICES ASSUME ~ EnableChunkedPrefill
               PROVE  \A s \in Seqs : Prompted(s)'
    BY DEF WholePrompts
  <1>1. \A s \in Seqs : Prompted(s)
    BY DEF WholePrompts
  <1>2. block_table \in [Seqs -> Seq(Pages)] /\ status \in [Seqs -> {"NEW", "ACTIVE", "FINISHED"}]
    BY DEF Inv, TypeOK, BlockManagerTypeOK
  <1>3. CASE UNCHANGED vars
    <2>1. ASSUME NEW s \in Seqs
          PROVE  Prompted(s)'
      <3>1. Waits(s)' <=> Waits(s)
        BY <1>3, StillPlaced
      <3> QED
        BY <1>1, <1>3, <3>1 DEF Prompted, vars, bmVars, reqVars
    <2> QED
      BY <2>1
  <1>4. ASSUME NEW s \in Seqs, AdmitPrompt(s), ~ UNCHANGED vars
        PROVE  \A r \in Seqs : Prompted(r)'
    <2>1. Admit(s, Uncached(s))
      BY <1>4 DEF AdmitPrompt
    <2>2. /\ status' = status /\ prompt_len' = prompt_len
          /\ \A r \in Seqs \ {s} : block_table'[r] = block_table[r]
      BY <1>2, <2>1 DEF Admit, allocate
    <2>3. /\ \A r \in Seqs \ {s} : Same(r)
          /\ Uncached(s) \in Nat \ {0}
          /\ Waits(s)' <=> Uncached(s) < Uncached(s)
      BY <2>1, AdmitPlaces
    <2>4. ~ Waits(s)'
      BY <2>3
    <2>5. Prompted(s)'
      BY <1>1, <2>2, <2>4 DEF Prompted
    <2> QED
      BY <1>1, <2>2, <2>3, <2>5, PromptedAfter
  <1>5. ASSUME NEW s \in Seqs, DecodeTurn(s), ~ UNCHANGED vars
        PROVE  \A r \in Seqs : Prompted(r)'
    <2>1. ScheduleDecode(s, Lookahead(s))
      BY <1>5 DEF DecodeTurn
    <2>2. /\ status' = status /\ prompt_len' = prompt_len
          /\ \A r \in Seqs \ {s} : block_table'[r] = block_table[r]
      BY <1>2, <2>1 DEF ScheduleDecode, may_append, reqVars
    <2>3. (\A r \in Seqs \ {s} : Same(r)) /\ ~ Waits(s)'
      BY <2>1, ScheduleDecodePlaces
    <2>4. Prompted(s)'
      BY <1>1, <2>2, <2>3 DEF Prompted
    <2> QED
      BY <1>1, <2>2, <2>3, <2>4, PromptedAfter
  <1>6. ASSUME NEW s \in Seqs, (\E drafts \in Drafts : RunForward(s, drafts)) \/ RunCommit(s)
        PROVE  \A r \in Seqs : Prompted(r)'
    <2>1. (\E drafts \in Drafts : Forward(s, drafts)) \/ Commit(s) \/ CommitSpeculative(s)
      BY <1>6 DEF RunForward, RunCommit
    <2>2. /\ status' = status /\ prompt_len' = prompt_len /\ block_table' = block_table
      BY <2>1 DEF Forward, Commit, CommitSpeculative, Committed, append_and_record, bmVars, reqVars
    <2>3. (\A r \in Seqs \ {s} : Same(r)) /\ (Waits(s)' <=> Waits(s))
      BY <2>1, ModelPlaces
    <2>4. Prompted(s)'
      BY <1>1, <2>2, <2>3 DEF Prompted
    <2> QED
      BY <1>1, <2>2, <2>3, <2>4, PromptedAfter
  <1>7. ASSUME NEW s \in Seqs, NEW finish \in BOOLEAN, PostItem(s, finish)
        PROVE  \A r \in Seqs : Prompted(r)'
    <2>1. Postprocess(s, finish)
      BY <1>7 DEF PostItem
    <2>2. /\ prompt_len' = prompt_len
          /\ finish => status' = [status EXCEPT ![s] = "FINISHED"]
          /\ finish => \A r \in Seqs \ {s} : block_table'[r] = block_table[r]
          /\ ~ finish => status' = status /\ block_table' = block_table
      BY <1>2, <2>1 DEF Postprocess, deallocate
    <2>3. /\ \A r \in Seqs \ {s} : Same(r)
          /\ finish => ~ Waits(s)'
          /\ ~ finish => (Waits(s)' <=> Waits(s))
      BY <2>1, PostprocessPlaces
    <2>4. Prompted(s)'
      BY <1>1, <1>2, <2>2, <2>3 DEF Prompted
    <2> QED
      BY <1>1, <2>2, <2>3, <2>4, PromptedAfter
  <1>8. ASSUME NEW s \in Seqs, (\E torn \in BOOLEAN : Fail(s, torn)) \/ Abort(s)
        PROVE  \A r \in Seqs : Prompted(r)'
    <2>1. /\ status' = [status EXCEPT ![s] = "FINISHED"]
          /\ \A r \in Seqs \ {s} : block_table'[r] = block_table[r]
      BY <1>2, <1>8 DEF Fail, Abort, deallocate
    <2>2. (\A r \in Seqs \ {s} : Same(r)) /\ ~ Waits(s)'
      BY <1>8, EndPlaces
    <2>3. Prompted(s)'
      BY <1>2, <2>1, <2>2 DEF Prompted
    <2> QED
      BY <1>1, <2>1, <2>2, <2>3, PromptedAfter
  <1>9. ASSUME NEW s \in Seqs, Arrive(s)
        PROVE  \A r \in Seqs : Prompted(r)'
    <2>1. AddRequest(s) /\ prompt_len'[s] <= MaxBatchedTokens
      BY <1>9 DEF Arrive
    <2>2. (\A r \in Seqs \ {s} : Same(r)) /\ block_table' = block_table
      BY <2>1, AddRequestPlaces
    <2>3. block_table[s] = <<>>
      BY <1>2, <2>1 DEF AddRequest, Inv, Accounting
    <2>4. Prompted(s)'
      BY <2>1, <2>2, <2>3 DEF Prompted
    <2> QED
      BY <1>1, <2>2, <2>4, PromptedAfter
  <1>10. ASSUME NEW s \in Seqs, Drop(s)
         PROVE  \A r \in Seqs : Prompted(r)'
    <2>1. Forget(s)
      BY <1>10 DEF Drop
    <2>2. status'[s] = "NEW" /\ block_table' = block_table
      BY <1>2, <2>1 DEF Forget
    <2>3. (\A r \in Seqs \ {s} : Same(r)) /\ ~ Waits(s)'
      BY <2>1, ForgetPlaces
    <2>4. Prompted(s)'
      BY <2>2, <2>3 DEF Prompted
    <2> QED
      BY <1>1, <2>2, <2>3, <2>4, PromptedAfter
  <1>11. UNCHANGED engineVars => UNCHANGED vars
    BY DEF engineVars
  <1>12. StartStep \/ EndPrefill \/ EndDecode \/ NextGroup \/ EndRun \/ ModelError \/ EndStep
            => UNCHANGED vars
    BY DEF StartStep, EndPrefill, EndDecode, NextGroup, EndRun, ModelError, EndStep
  <1>13. \A s : ~ PrefillChunk(s)
    BY DEF PrefillChunk
  <1>14. ASSUME NEW s \in Seqs, (\E torn \in BOOLEAN : FailItem(s, torn)) \/ Cancel(s)
         PROVE  (\E torn \in BOOLEAN : Fail(s, torn)) \/ Abort(s)
    BY <1>14 DEF FailItem, Handle, Cancel
  <1> QED
    BY <1>3, <1>4, <1>5, <1>6, <1>7, <1>8, <1>9, <1>10, <1>11, <1>12, <1>13, <1>14
       DEF EngineNext, Step


DecodesFirst == EnableChunkedPrefill /\ DecodePriority

\* The requests that the pool has no room for.
Out == {s \in Seqs : OutOfPages(s)}

\* While the batch is empty, every request that has had its turn was passed over
\* because the pool has no room for it.
Tried ==
    batch = <<>> =>
        /\ pc = "prefill" =>
            /\ \A i \in 1 .. Len(waiting) : i > left => waiting[i] \in Out
            /\ DecodesFirst => Range(running) \subseteq Out
        /\ pc = "decode" =>
            /\ \A i \in 1 .. Len(running) : i <= Len(running) - left => running[i] \in Out
            /\ ~ DecodesFirst => Range(waiting) \subseteq Out

LEMMA StillOut == ASSUME UNCHANGED vars PROVE Out' = Out
  BY DEF vars, bmVars, poolVars, metaVars, reqVars, Out, OutOfPages, IsPrefilling,
         uncomputed_tokens, can_append, MissingPages, can_allocate, reusable_prefix_block_ids,
         ReusableBlocks, IsReusable, MaxReusable, Prompt

\* An empty batch has been charged nothing.
LEMMA NothingCharged ==
    ASSUME SchedulerInv, BatchWithinLimits, batch = <<>>, pc \in {"prefill", "decode"}
    PROVE  /\ budget = MaxBatchedTokens /\ budget \in Nat \ {0}
           /\ Len(batch) = 0 /\ Len(batch) < MaxNumSeqs
  <1>1. /\ MaxBatchedTokens \in Nat \ {0} /\ MaxNumSeqs \in Nat \ {0}
        /\ budget \in 0 .. MaxBatchedTokens
    BY QueueTypes
  <1>2. Range(<<>>) = {} /\ Len(<<>>) = 0
    BY DEF Range
  <1>3. SumFunctionOnSet(num_tokens, {}) = 0
    BY SumOfNone
  <1>4. SumFunctionOnSet(num_tokens, Range(batch)) + budget = MaxBatchedTokens
    BY DEF BatchWithinLimits
  <1>5. 0 + budget = MaxBatchedTokens
    BY <1>2, <1>3, <1>4
  <1>6. budget = MaxBatchedTokens
    BY <1>1, <1>5
  <1> QED
    BY <1>1, <1>2, <1>6

LEMMA FullAfterTake ==
    ASSUME SchedulerInv, NEW s \in Seqs, NEW n, Take(s, n)
    PROVE  Tried'
  <1>1. batch' = Append(batch, s) /\ batch \in Seq(Seqs)
    BY QueueTypes DEF Take
  <1>2. Len(batch') = Len(batch) + 1 /\ Len(batch) \in Nat
    BY <1>1
  <1>3. batch' # <<>>
    BY <1>2
  <1> QED
    BY <1>3 DEF Tried

\* A prompt that is passed over while the batch is empty.
LEMMA PassedPrompt ==
    ASSUME SchedulerInv, Tried, batch = <<>>, PrefillTurn, Pass, UNCHANGED vars,
           running' = running, waiting' = Rotated(waiting),
           NEW s \in Seqs, s = Head(waiting), OutOfPages(s)
    PROVE  Tried'
  <1>1. /\ pc = "prefill" /\ pc' = "prefill" /\ left' = left - 1
        /\ waiting \in Seq(Seqs) /\ IsInjective(waiting)
    BY QueueTypes DEF PrefillTurn, Pass
  <1>2. waiting # <<>> /\ left \in Nat \ {0} /\ Len(waiting) \in Nat \ {0}
    BY <1>1, HeadWaits
  <1>3. /\ Len(waiting') = Len(waiting) /\ waiting'[Len(waiting)] = s
        /\ \A i \in 1 .. Len(waiting) - 1 : waiting'[i] = waiting[i + 1]
    BY <1>1, <1>2, RotatedQueue
  <1>4. /\ \A i \in 1 .. Len(waiting) : i > left => waiting[i] \in Out
        /\ DecodesFirst => Range(running) \subseteq Out
    BY <1>1 DEF Tried
  <1>5. ASSUME NEW i \in 1 .. Len(waiting), i > left - 1
        PROVE  waiting'[i] \in Out
    <2>1. CASE i = Len(waiting)
      BY <1>3, <2>1 DEF Out
    <2>2. CASE i # Len(waiting)
      <3>1. i \in 1 .. Len(waiting) - 1 /\ i + 1 \in 1 .. Len(waiting) /\ i + 1 > left
        BY <1>2, <1>5, <2>2
      <3> QED
        BY <1>3, <1>4, <3>1
    <2> QED
      BY <2>1, <2>2
  <1>6. Out' = Out
    BY StillOut
  <1>7. \A i \in 1 .. Len(waiting') : i > left' => waiting'[i] \in Out'
    BY <1>1, <1>3, <1>5, <1>6
  <1>8. DecodesFirst => Range(running') \subseteq Out'
    BY <1>4, <1>6
  <1> QED
    BY <1>1, <1>7, <1>8 DEF Tried, DecodesFirst


\* A running request that is passed over while the batch is empty.
LEMMA PassedDecode ==
    ASSUME SchedulerInv, Tried, batch = <<>>, pc = "decode", left > 0, Pass, UNCHANGED vars,
           UNCHANGED queueVars,
           NEW s \in Seqs, s = running[Len(running) - left + 1], OutOfPages(s)
    PROVE  Tried'
  <1>1. /\ pc' = "decode" /\ left' = left - 1 /\ running' = running /\ waiting' = waiting
        /\ left \in Nat /\ Len(running) \in Nat /\ left <= Len(running)
    BY QueueTypes DEF Pass, queueVars, SchedulerInv, Turns
  <1>2. /\ \A i \in 1 .. Len(running) : i <= Len(running) - left => running[i] \in Out
        /\ ~ DecodesFirst => Range(waiting) \subseteq Out
    BY DEF Tried
  <1>3. ASSUME NEW i \in 1 .. Len(running), i <= Len(running) - (left - 1)
        PROVE  running[i] \in Out
    <2>1. CASE i = Len(running) - left + 1
      BY <2>1 DEF Out
    <2>2. CASE i # Len(running) - left + 1
      <3>1. i <= Len(running) - left
        BY <1>1, <1>3, <2>2
      <3> QED
        BY <1>2, <3>1
    <2> QED
      BY <2>1, <2>2
  <1>4. Out' = Out
    BY StillOut
  <1>5. \A i \in 1 .. Len(running') : i <= Len(running') - left' => running'[i] \in Out'
    BY <1>1, <1>3, <1>4
  <1>6. ~ DecodesFirst => Range(waiting') \subseteq Out'
    BY <1>1, <1>2, <1>4
  <1> QED
    BY <1>1, <1>5, <1>6 DEF Tried, DecodesFirst

\* A loop over a queue starts, when the other one is through or needs no turn.
LEMMA EntersPrefill ==
    ASSUME SchedulerInv, EnterPrefill, UNCHANGED <<vars, queueVars>>,
           DecodesFirst => Range(running) \subseteq Out
    PROVE  Tried'
  <1>1. /\ pc' = "prefill" /\ left' = Len(waiting) /\ waiting' = waiting /\ running' = running
        /\ Len(waiting) \in Nat
    BY QueueTypes DEF EnterPrefill, queueVars
  <1>2. Out' = Out
    BY StillOut
  <1>3. DecodesFirst => Range(running') \subseteq Out'
    BY <1>1, <1>2
  <1>4. \A i \in 1 .. Len(waiting') : i > left' => waiting'[i] \in Out'
    BY <1>1
  <1> QED
    BY <1>1, <1>3, <1>4 DEF Tried, DecodesFirst

LEMMA EntersDecode ==
    ASSUME SchedulerInv, EnterDecode, UNCHANGED <<vars, queueVars>>,
           ~ DecodesFirst => Range(waiting) \subseteq Out
    PROVE  Tried'
  <1>1. /\ pc' = "decode" /\ left' = Len(running) /\ waiting' = waiting /\ running' = running
        /\ Len(running) \in Nat
    BY QueueTypes DEF EnterDecode, queueVars
  <1>2. Out' = Out
    BY StillOut
  <1>3. ~ DecodesFirst => Range(waiting') \subseteq Out'
    BY <1>1, <1>2
  <1>4. \A i \in 1 .. Len(running') : i <= Len(running') - left' => running'[i] \in Out'
    BY <1>1
  <1> QED
    BY <1>1, <1>3, <1>4 DEF Tried, DecodesFirst

\* What a loop has tried when it ends with an empty batch: its whole queue.
LEMMA TriedThem ==
    ASSUME SchedulerInv, BatchWithinLimits, Tried, batch = <<>>
    PROVE  /\ pc = "prefill" /\ ~ PrefillTurn => Range(waiting) \subseteq Out
           /\ pc = "decode" /\ left = 0 => Range(running) \subseteq Out
  <1>1. /\ waiting \in Seq(Seqs) /\ running \in Seq(Seqs) /\ left \in Nat
        /\ Len(waiting) \in Nat /\ Len(running) \in Nat
    BY QueueTypes
  <1>2. ASSUME pc = "prefill", ~ PrefillTurn
        PROVE  Range(waiting) \subseteq Out
    <2>1. left = 0
      BY <1>1, <1>2, NothingCharged DEF PrefillTurn
    <2>2. \A i \in 1 .. Len(waiting) : waiting[i] \in Out
      BY <1>2, <2>1 DEF Tried
    <2> QED
      BY <1>1, <2>2 DEF Range
  <1>3. ASSUME pc = "decode", left = 0
        PROVE  Range(running) \subseteq Out
    <2>1. \A i \in 1 .. Len(running) : running[i] \in Out
      BY <1>1, <1>3 DEF Tried
    <2> QED
      BY <1>1, <2>1 DEF Range
  <1> QED
    BY <1>2, <1>3


\* Without drafts a decode asks for one token, which an empty batch has room for.
LEMMA OneToken == ASSUME MaxDraft = 0 PROVE \A s : Lookahead(s) = 1
  <1>1. ~ (MaxDraft > 0)
    OBVIOUS
  <1> QED
    BY <1>1 DEF Lookahead

LEMMA TriedStep ==
    ASSUME MaxDraft = 0, Inv, SchedulerInv, BatchWithinLimits, WholePrompts, Tried,
           [EngineNext]_engineVars
    PROVE  Tried'
  <1>1. SUFFICES ASSUME batch' = <<>>, pc' \in {"prefill", "decode"}
                 PROVE  Tried'
    BY DEF Tried
  <1>2. CASE UNCHANGED engineVars
    <2>1. /\ UNCHANGED <<vars, waiting, running, batch, pc, left>>
      BY <1>2 DEF engineVars, queueVars, stepVars
    <2>2. Out' = Out
      BY <2>1, StillOut
    <2> QED
      BY <2>1, <2>2 DEF Tried, DecodesFirst
  <1>3. CASE StartStep
    <2>1. UNCHANGED <<vars, queueVars>>
      BY <1>3 DEF StartStep
    <2>2. CASE DecodesFirst \/ waiting = <<>>
      <3>1. EnterDecode
        BY <1>3, <2>2 DEF StartStep, DecodesFirst
      <3>2. ~ DecodesFirst => Range(waiting) \subseteq Out
        BY <2>2 DEF Range
      <3> QED
        BY <2>1, <3>1, <3>2, EntersDecode
    <2>3. CASE ~ (DecodesFirst \/ waiting = <<>>)
      <3>1. EnterPrefill
        BY <1>3, <2>3 DEF StartStep, DecodesFirst
      <3> QED
        BY <2>1, <2>3, <3>1, EntersPrefill
    <2> QED
      BY <2>2, <2>3
  <1>4. CASE EndPrefill
    <2>1. /\ UNCHANGED <<vars, queueVars>> /\ batch = <<>> /\ pc = "prefill" /\ ~ PrefillTurn
      BY <1>1, <1>4 DEF EndPrefill
    <2>2. EnterDecode
      BY <1>1, <1>4 DEF EndPrefill, Launch
    <2>3. Range(waiting) \subseteq Out
      BY <2>1, TriedThem
    <2> QED
      BY <2>1, <2>2, <2>3, EntersDecode
  <1>5. CASE EndDecode
    <2>1. /\ UNCHANGED <<vars, queueVars>> /\ batch = <<>> /\ pc = "decode" /\ left = 0
      BY <1>1, <1>5 DEF EndDecode
    <2>2. EnterPrefill
      BY <1>1, <1>5 DEF EndDecode, Launch
    <2>3. Range(running) \subseteq Out
      BY <2>1, TriedThem
    <2> QED
      BY <2>1, <2>2, <2>3, EntersPrefill
  <1>6. CASE NextGroup \/ EndRun \/ ModelError \/ EndStep
    BY <1>1, <1>6 DEF NextGroup, EndRun, ModelError, EndStep
  <1>7. ASSUME NEW s \in Seqs, AdmitPrompt(s)
        PROVE  Tried'
    <2>1. PrefillTurn /\ ~ EnableChunkedPrefill /\ s = Head(waiting) /\ running' = running
      BY <1>7 DEF AdmitPrompt
    <2>2. CASE Take(s, Uncached(s))
      BY <2>2, FullAfterTake
    <2>3. CASE /\ ~ (Uncached(s) <= budget /\ can_allocate(s, 1))
               /\ Pass /\ waiting' = Blocked(waiting) /\ UNCHANGED vars
      <3>1. batch = <<>> /\ pc = "prefill"
        BY <1>1, <2>1, <2>3 DEF Pass, PrefillTurn
      <3>2. Waits(s)
        BY <2>1, HeadWaits
      <3>3. /\ prompt_len[s] <= MaxBatchedTokens /\ block_table[s] = <<>>
            /\ status[s] = "ACTIVE" /\ IsPrefilling(s)
        BY <2>1, <3>2 DEF WholePrompts, Prompted, Waits
      <3>4. Uncached(s) <= prompt_len[s]
        <4>1. BlockManagerTypeOK /\ prompt_len[s] \in Nat /\ prompt_len[s] > 0
          BY <3>3, Counts DEF Inv, TypeOK, Accounting
        <4>2. cached_prefix_tokens(s) \in 0 .. prompt_len[s] - 1
          BY <4>1, CachedPrefixShorter
        <4> QED
          BY <4>1, <4>2 DEF Uncached
      <3>5. budget = MaxBatchedTokens /\ MaxBatchedTokens \in Nat
        BY <3>1, NothingCharged
      <3>6. Uncached(s) <= budget
        <4>1. prompt_len[s] \in Nat /\ Uncached(s) \in Nat
          BY <3>2, SomethingLeft, Counts DEF Inv
        <4> QED
          BY <3>3, <3>4, <3>5, <4>1
      <3>7. OutOfPages(s)
        BY <2>3, <3>3, <3>6 DEF OutOfPages
      <3>8. waiting' = Rotated(waiting)
        BY <2>3 DEF Blocked
      <3> QED
        BY <2>1, <2>3, <3>1, <3>7, <3>8, PassedPrompt
    <2> QED
      BY <1>7, <2>2, <2>3 DEF AdmitPrompt
  <1>8. ASSUME NEW s \in Seqs, PrefillChunk(s)
        PROVE  Tried'
    <2> DEFINE admitted == block_table[s] # <<>>
               remaining == IF admitted THEN uncomputed_tokens(s) ELSE Uncached(s)
               chunk == ChunkOf(remaining)
    <2>1. PrefillTurn /\ s = Head(waiting) /\ running' = running /\ pc = "prefill"
      BY <1>8 DEF PrefillChunk, PrefillTurn
    <2>2. Waits(s)
      BY <2>1, HeadWaits
    <2>3. remaining \in Nat \ {0}
      BY <2>2, SomethingLeft
    <2>4. \/ ~ admitted /\ ~ can_allocate(s, 1) /\ Pass /\ waiting' = Blocked(waiting) /\ UNCHANGED vars
          \/ Take(s, chunk)
          \/ ~ Fits(chunk) /\ Pass
      <3>1. ~ (remaining <= 0)
        BY <2>3
      <3> QED
        BY <1>8, <3>1 DEF PrefillChunk
    <2> HIDE DEF remaining
    <2>5. CASE ~ admitted /\ ~ can_allocate(s, 1) /\ Pass /\ waiting' = Blocked(waiting)
               /\ UNCHANGED vars
      <3>1. batch = <<>>
        BY <1>1, <2>5 DEF Pass
      <3>2. OutOfPages(s)
        BY <2>2, <2>5 DEF OutOfPages, Waits
      <3>3. waiting' = Rotated(waiting)
        BY <2>5 DEF Blocked
      <3> QED
        BY <2>1, <2>5, <3>1, <3>2, <3>3, PassedPrompt
    <2>6. CASE Take(s, chunk)
      <3> HIDE DEF chunk
      <3> QED
        BY <2>6, FullAfterTake
    <2>7. CASE ~ Fits(chunk) /\ Pass
      <3>1. batch = <<>>
        BY <1>1, <2>7 DEF Pass
      <3>2. budget \in Nat \ {0} /\ Len(batch) < MaxNumSeqs
        BY <2>1, <3>1, NothingCharged
      <3>3. chunk <= budget
        BY <2>3, <3>2, ChunkBounds
      <3> QED
        BY <2>7, <3>2, <3>3 DEF Fits
    <2> QED
      BY <2>4, <2>5, <2>6, <2>7
  <1>9. ASSUME NEW s \in Seqs, DecodeTurn(s)
        PROVE  Tried'
    <2>1. /\ pc = "decode" /\ left > 0 /\ s = running[Len(running) - left + 1]
          /\ UNCHANGED queueVars
      BY <1>9 DEF DecodeTurn
    <2>2. \/ Take(s, 1)
          \/ ~ (Fits(1) /\ can_append(s, 1)) /\ Pass /\ UNCHANGED vars
      BY <1>9, OneToken DEF DecodeTurn
    <2>3. CASE Take(s, 1)
      BY <2>3, FullAfterTake
    <2>4. CASE ~ (Fits(1) /\ can_append(s, 1)) /\ Pass /\ UNCHANGED vars
      <3>1. batch = <<>>
        BY <1>1, <2>4 DEF Pass
      <3>2. budget \in Nat \ {0} /\ Len(batch) < MaxNumSeqs
        BY <2>1, <3>1, NothingCharged
      <3>3. Fits(1)
        BY <3>2 DEF Fits
      <3>4. ~ IsPrefilling(s)
        <4>1. left \in Nat /\ Len(running) \in Nat /\ left <= Len(running) /\ running \in Seq(Seqs)
          BY <2>1, QueueTypes DEF SchedulerInv, Turns
        <4>2. Len(running) - left + 1 \in 1 .. Len(running)
          BY <2>1, <4>1
        <4>3. s \in Range(running)
          BY <2>1, <4>1, <4>2 DEF Range
        <4> QED
          BY <4>3, Members DEF SchedulerInv, Runs
      <3>5. OutOfPages(s)
        BY <2>4, <3>3, <3>4 DEF OutOfPages
      <3> QED
        BY <2>1, <2>4, <3>1, <3>5, PassedDecode
    <2> QED
      BY <2>2, <2>3, <2>4
  <1>10. ASSUME NEW s \in Seqs, \/ \E drafts \in Drafts : RunForward(s, drafts)
                                \/ RunCommit(s)
                                \/ \E finish \in BOOLEAN : PostItem(s, finish)
                                \/ \E torn \in BOOLEAN : FailItem(s, torn)
                                \/ Arrive(s) \/ Cancel(s) \/ Drop(s)
         PROVE  Tried'
    BY <1>1, <1>10 DEF RunForward, RunCommit, PostItem, FailItem, Arrive, Cancel, Drop, stepVars
  <1> QED
    BY <1>2, <1>3, <1>4, <1>5, <1>6, <1>7, <1>8, <1>9, <1>10 DEF EngineNext, Step


LEMMA NothingInRange == Range(<<>>) = {}
  <1>1. DOMAIN <<>> = {}
    OBVIOUS
  <1> QED
    BY <1>1 DEF Range

LEMMA GenuineReport ==
    ASSUME Inv, SchedulerInv, BatchWithinLimits, Tried, [EngineNext]_engineVars,
           pc # "idle", report' = "no progress"
    PROVE  \A s \in Seqs : status[s] = "ACTIVE" => OutOfPages(s)
  <1>1. report = "none"
    BY DEF SchedulerInv, Turns
  <1>2. report' # report
    BY <1>1
  <1>3. EndPrefill \/ EndDecode
    <2>1. ~ UNCHANGED stepVars
      BY <1>2 DEF stepVars
    <2>2. ~ UNCHANGED engineVars
      BY <2>1 DEF engineVars
    <2>3. ~ (StartStep \/ NextGroup \/ EndRun \/ ModelError \/ EndStep)
      BY <1>2 DEF StartStep, NextGroup, EndRun, ModelError, EndStep
    <2>4. ASSUME NEW s \in Seqs
          PROVE  ~ \/ AdmitPrompt(s) \/ PrefillChunk(s) \/ DecodeTurn(s)
                   \/ \E drafts \in Drafts : RunForward(s, drafts)
                   \/ RunCommit(s)
                   \/ \E finish \in BOOLEAN : PostItem(s, finish)
                   \/ \E torn \in BOOLEAN : FailItem(s, torn)
                   \/ Arrive(s) \/ Cancel(s) \/ Drop(s)
      BY <1>2, <2>1 DEF AdmitPrompt, PrefillChunk, DecodeTurn, Take, Pass, RunForward, RunCommit,
                        PostItem, FailItem, Arrive, Cancel, Drop
    <2> QED
      BY <2>2, <2>3, <2>4 DEF EngineNext, Step
  <1>4. batch = <<>> /\ Range(waiting) \subseteq Out /\ Range(running) \subseteq Out
    <2>1. CASE EndPrefill
      <3>1. /\ batch = <<>> /\ ~ DecodeFollows /\ pc = "prefill" /\ ~ PrefillTurn
        BY <1>2, <2>1 DEF EndPrefill, Launch
      <3>2. DecodesFirst
        BY <3>1, ModeAssumption DEF DecodeFollows, DecodesFirst
      <3> QED
        BY <3>1, <3>2, TriedThem DEF Tried
    <2>2. CASE EndDecode
      <3>1. /\ batch = <<>> /\ pc = "decode" /\ left = 0 /\ ~ DecodesFirst
        BY <1>2, <2>2 DEF EndDecode, Launch, DecodesFirst
      <3> QED
        BY <3>1, TriedThem DEF Tried
    <2> QED
      BY <1>3, <2>1, <2>2
  <1>5. ASSUME NEW s \in Seqs, status[s] = "ACTIVE"
        PROVE  OutOfPages(s)
    <2>1. ~ Works(s)
      <3>1. s \notin Range(batch)
        BY <1>4, NothingInRange
      <3> QED
        BY <3>1, Members DEF SchedulerInv
    <2>2. Waits(s) \/ Runs(s)
      BY <1>5, <2>1 DEF Waits, Runs, Works, FinalChunk
    <2>3. s \in Range(waiting) \/ s \in Range(running)
      BY <2>2, Members DEF SchedulerInv
    <2> QED
      BY <1>4, <2>3 DEF Out
  <1> QED
    BY <1>5

\* What the report relies on, in an engine that drafts nothing.
NothingMissed == MaxDraft = 0 /\ WholePrompts /\ Tried

LEMMA NothingMissedInvariance == MaxDraft = 0 => (EngineSpec => []NothingMissed)
  <1>1. ASSUME MaxDraft = 0, EngineInit
        PROVE  NothingMissed
    <2>1. pc = "idle"
      BY <1>1 DEF EngineInit
    <2>2. \A s \in Seqs : status[s] = "NEW"
      BY <1>1 DEF EngineInit, Init
    <2> QED
      BY <1>1, <2>1, <2>2 DEF NothingMissed, WholePrompts, Tried, Prompted, Waits
  <1>2. Inv /\ SchedulerInv /\ BatchWithinLimits /\ NothingMissed /\ [EngineNext]_engineVars
            => NothingMissed'
    BY WholePromptsStep, TriedStep DEF NothingMissed
  <1>3. MaxDraft = 0 /\ EngineInit => NothingMissed
    BY <1>1
  <1> QED
    BY <1>2, <1>3, EngineInvariance, SchedulerInvariance, BatchIsWithinLimits, PTL DEF EngineSpec

\* The docs' "genuine no-progress pool shortage": without drafts, an engine
\* reports it only when no live request could have computed a single token.
THEOREM ReportIsGenuine == MaxDraft = 0 => (EngineSpec => NoProgressIsGenuine)
  <1>1. Inv /\ SchedulerInv /\ BatchWithinLimits /\ NothingMissed /\ [EngineNext]_engineVars
            => [pc # "idle" /\ report' = "no progress" =>
                    \A s \in Seqs : status[s] = "ACTIVE" => OutOfPages(s)]_engineVars
    BY GenuineReport DEF NothingMissed
  <1> QED
    BY <1>1, NothingMissedInvariance, EngineInvariance, SchedulerInvariance,
       BatchIsWithinLimits, PTL DEF EngineSpec, NoProgressIsGenuine

-----------------------------------------------------------------------------
(* The turns that a step has still to take.                                *)

\* What a loop has not come to yet is not at work; nor is anything in the queue
\* of the loop that comes second.
StillToCome ==
    /\ pc = "prefill" =>
        /\ \A i \in 1 .. Len(waiting) : i <= left => ~ Works(waiting[i])
        /\ ~ DecodesFirst => \A s \in Seqs : ~ (Works(s) /\ Runs(s))
    /\ pc = "decode" =>
        /\ \A i \in 1 .. Len(running) : i > Len(running) - left => ~ Works(running[i])
        /\ DecodesFirst => \A s \in Seqs : ~ (Works(s) /\ Waits(s))

\* A turn moves what is behind the head of a queue forward by one place.
LEMMA NextInLine ==
    ASSUME NEW queue \in Seq(Seqs), IsInjective(queue), queue # <<>>,
           NEW next, next \in {Tail(queue), Rotated(queue)},
           NEW i \in Nat, 1 <= i, i < Len(queue)
    PROVE  /\ next[i] = queue[i + 1] /\ queue[i + 1] \in Seqs
           /\ queue[i + 1] # Head(queue)
  <1>1. /\ Tail(queue) \in Seq(Seqs) /\ Len(Tail(queue)) = Len(queue) - 1
        /\ Len(queue) \in Nat /\ Head(queue) = queue[1] /\ Head(queue) \in Seqs
        /\ Tail(queue)[i] = queue[i + 1]
    BY TailStays
  <1>2. Rotated(queue)[i] = Tail(queue)[i]
    <2>1. i \in 1 .. Len(Tail(queue))
      BY <1>1
    <2>2. \A tail \in Seq(Seqs), h \in Seqs : i \in 1 .. Len(tail) => Append(tail, h)[i] = tail[i]
      OBVIOUS
    <2> QED
      BY <1>1, <2>1, <2>2 DEF Rotated
  <1>3. 1 \in DOMAIN queue /\ i + 1 \in DOMAIN queue /\ i + 1 # 1
    BY <1>1
  <1>4. queue[i + 1] \in Seqs /\ queue[i + 1] # queue[1]
    BY <1>3 DEF IsInjective
  <1> QED
    BY <1>1, <1>2, <1>4

\* Requests other than the one whose turn it is keep their places.
LEMMA OthersPlaced ==
    ASSUME NEW s \in Seqs, \A r \in Seqs \ {s} : Same(r), NEW r \in Seqs, r # s
    PROVE  (Works(r)' <=> Works(r)) /\ (Waits(r)' <=> Waits(r)) /\ (Runs(r)' <=> Runs(r))
  BY DEF Same, Works, Waits, Runs, FinalChunk, IsPrefilling, uncomputed_tokens

LEMMA PrefillTurnLeft ==
    ASSUME SchedulerInv, StillToCome, NEW s \in Seqs, PrefillTurn, s = Head(waiting),
           \A r \in Seqs \ {s} : Same(r), ~ Runs(s)',
           waiting' \in {Tail(waiting), Rotated(waiting)}, pc' = pc, left' = left - 1
    PROVE  StillToCome'
  <1>1. /\ waiting # <<>> /\ left \in Nat \ {0} /\ Len(waiting) \in Nat /\ left <= Len(waiting)
        /\ waiting \in Seq(Seqs) /\ IsInjective(waiting) /\ pc = "prefill"
    BY HeadWaits, QueueTypes DEF PrefillTurn
  <1>2. ASSUME NEW i \in 1 .. Len(waiting'), i <= left - 1
        PROVE  ~ Works(waiting[i])'
    <2>1. i \in Nat /\ 1 <= i /\ i < Len(waiting)
      BY <1>1, <1>2
    <2>2. PICK r : r = waiting[i + 1]
      OBVIOUS
    <2>3. waiting'[i] = r /\ r \in Seqs /\ r # s
      BY <1>1, <2>1, <2>2, NextInLine
    <2>4. i + 1 \in 1 .. Len(waiting) /\ i + 1 <= left
      BY <1>1, <1>2, <2>1
    <2>5. ~ Works(r)
      BY <1>1, <2>2, <2>4 DEF StillToCome
    <2>6. ~ Works(r)'
      BY <2>3, <2>5, OthersPlaced
    <2> QED
      BY <2>3, <2>6 DEF Works
  <1>3. ASSUME ~ DecodesFirst, NEW r \in Seqs
        PROVE  ~ (Works(r)' /\ Runs(r)')
    <2>1. r # s => ~ (Works(r) /\ Runs(r))
      BY <1>1, <1>3 DEF StillToCome
    <2> QED
      BY <2>1, OthersPlaced
  <1> QED
    BY <1>1, <1>2, <1>3 DEF StillToCome, DecodesFirst

LEMMA DecodeTurnLeft ==
    ASSUME Inv, SchedulerInv, StillToCome, NEW s \in Seqs, DecodeTurn(s)
    PROVE  StillToCome'
  <1>1. /\ pc = "decode" /\ left > 0 /\ s = running[Len(running) - left + 1]
        /\ running' = running /\ waiting' = waiting /\ pc' = pc /\ left' = left - 1
        /\ ScheduleDecode(s, Lookahead(s)) \/ UNCHANGED vars
    BY DEF DecodeTurn, Take, Pass, queueVars
  <1>2. /\ running \in Seq(Seqs) /\ IsInjective(running) /\ left \in Nat
        /\ Len(running) \in Nat /\ left <= Len(running)
    BY <1>1, QueueTypes DEF SchedulerInv, Turns
  <1>3. Runs(s) /\ ~ Waits(s)
    <2>1. Len(running) - left + 1 \in DOMAIN running
      BY <1>1, <1>2
    <2>2. s \in Range(running)
      BY <1>1, <2>1 DEF Range
    <2>3. Runs(s)
      BY <2>2, Members DEF SchedulerInv
    <2> QED
      BY <2>3 DEF Runs, Waits
  <1>4. /\ \A r \in Seqs \ {s} : Same(r)
        /\ ~ Waits(s)'
    <2>1. CASE ScheduleDecode(s, Lookahead(s))
      <3>1. PICK n : n = Lookahead(s)
        OBVIOUS
      <3>2. ScheduleDecode(s, n)
        BY <2>1, <3>1
      <3> QED
        BY <3>2, ScheduleDecodePlaces
    <2>2. CASE UNCHANGED vars
      BY <1>3, <2>2, SameEverywhere, StillPlaced
    <2> QED
      BY <1>1, <2>1, <2>2
  <1>5. ASSUME NEW i \in 1 .. Len(running), i > Len(running) - (left - 1)
        PROVE  ~ Works(running[i])'
    <2>1. PICK r : r = running[i]
      OBVIOUS
    <2>2. /\ i \in DOMAIN running /\ Len(running) - left + 1 \in DOMAIN running
          /\ i # Len(running) - left + 1 /\ i > Len(running) - left
      BY <1>1, <1>2, <1>5
    <2>3. r \in Seqs /\ r # s
      BY <1>1, <1>2, <2>1, <2>2 DEF IsInjective
    <2>4. ~ Works(r)
      BY <1>1, <2>1, <2>2 DEF StillToCome
    <2>5. ~ Works(r)'
      BY <1>4, <2>3, <2>4, OthersPlaced
    <2>6. running'[i] = r
      BY <1>1, <2>1
    <2> QED
      BY <2>5, <2>6 DEF Works
  <1>6. ASSUME DecodesFirst, NEW r \in Seqs
        PROVE  ~ (Works(r)' /\ Waits(r)')
    <2>1. r # s => ~ (Works(r) /\ Waits(r))
      BY <1>1, <1>6 DEF StillToCome
    <2> QED
      BY <1>4, <2>1, OthersPlaced
  <1> QED
    BY <1>1, <1>2, <1>5, <1>6 DEF StillToCome, DecodesFirst

LEMMA PromptTurnLeft ==
    ASSUME Inv, SchedulerInv, StillToCome, NEW s \in Seqs, AdmitPrompt(s) \/ PrefillChunk(s)
    PROVE  StillToCome'
  <1>1. /\ PrefillTurn /\ s = Head(waiting)
        /\ waiting' \in {Tail(waiting), Rotated(waiting)}
        /\ pc' = pc /\ left' = left - 1
        /\ \/ UNCHANGED vars
           \/ \E chunk : Admit(s, chunk) \/ SchedulePrefill(s, chunk)
    BY DEF AdmitPrompt, PrefillChunk, Take, Pass, Blocked, AfterChunk
  <1>2. ~ Runs(s)
    <2>1. Waits(s)
      BY <1>1, HeadWaits
    <2> QED
      BY <2>1 DEF Waits, Runs
  <1>3. (\A r \in Seqs \ {s} : Same(r)) /\ ~ Runs(s)'
    <2>1. CASE UNCHANGED vars
      BY <1>2, <2>1, SameEverywhere, StillPlaced
    <2>2. ASSUME NEW chunk, Admit(s, chunk) \/ SchedulePrefill(s, chunk)
          PROVE  (\A r \in Seqs \ {s} : Same(r)) /\ ~ Runs(s)'
      BY <2>2, AdmitPlaces, SchedulePrefillPlaces
    <2> QED
      BY <1>1, <2>1, <2>2
  <1> QED
    BY <1>1, <1>3, PrefillTurnLeft

\* A loop begins when its queue holds nothing that is at work.
LEMMA LoopEntered ==
    ASSUME SchedulerInv, StillToCome, StartStep \/ EndPrefill \/ EndDecode
    PROVE  StillToCome'
  <1>1. /\ UNCHANGED vars /\ waiting' = waiting /\ running' = running
        /\ waiting \in Seq(Seqs) /\ running \in Seq(Seqs)
    BY QueueTypes DEF StartStep, EndPrefill, EndDecode, queueVars
  <1>2. ASSUME NEW i \in 1 .. Len(waiting)
        PROVE  waiting[i] \in Seqs /\ Waits(waiting[i])
    BY <1>1, Members DEF SchedulerInv, Range
  <1>3. ASSUME NEW i \in 1 .. Len(running)
        PROVE  running[i] \in Seqs /\ Runs(running[i])
    BY <1>1, Members DEF SchedulerInv, Range
  <1>4. \A s \in Seqs : /\ Works(s)' <=> Works(s)
                        /\ Waits(s)' <=> Waits(s)
                        /\ Runs(s)' <=> Runs(s)
    BY <1>1, StillPlaced
  <1>5. /\ pc' = "prefill" => \A s \in Seqs : ~ (Works(s) /\ Waits(s))
        /\ pc' = "prefill" /\ ~ DecodesFirst => \A s \in Seqs : ~ (Works(s) /\ Runs(s))
        /\ pc' = "decode" => \A s \in Seqs : ~ (Works(s) /\ Runs(s))
        /\ pc' = "decode" /\ DecodesFirst => \A s \in Seqs : ~ (Works(s) /\ Waits(s))
    <2>1. CASE StartStep
      <3>1. batch = <<>>
        BY <2>1 DEF StartStep, SchedulerInv, Turns
      <3>2. Range(batch) = {}
        BY <3>1 DEF Range
      <3> QED
        BY <3>2, Members DEF SchedulerInv
    <2>2. CASE EndPrefill
      <3>1. /\ pc = "prefill" /\ pc' # "prefill"
            /\ pc' = "decode" => DecodeFollows
        BY <2>2 DEF EndPrefill, EnterDecode, Launch
      <3>2. CASE batch = <<>>
        <4>1. Range(batch) = {}
          BY <3>2 DEF Range
        <4> QED
          BY <4>1, Members DEF SchedulerInv
      <3>3. CASE batch # <<>>
        BY <3>1, <3>3 DEF DecodeFollows, DecodesFirst, StillToCome
      <3> QED
        BY <3>2, <3>3
    <2>3. CASE EndDecode
      BY <2>3 DEF EndDecode, EnterPrefill, Launch, DecodesFirst, StillToCome
    <2> QED
      BY <2>1, <2>2, <2>3
  <1>6. \A i \in 1 .. Len(waiting) : pc' = "prefill" => ~ Works(waiting[i])'
    <2> SUFFICES ASSUME NEW i \in 1 .. Len(waiting), pc' = "prefill"
                 PROVE  ~ Works(waiting[i])'
      OBVIOUS
    <2>1. PICK r \in Seqs : r = waiting[i]
      BY <1>2
    <2>2. ~ Works(r)'
      BY <1>2, <1>4, <1>5, <2>1
    <2>3. waiting'[i] = r
      BY <1>1, <2>1
    <2> QED
      BY <2>2, <2>3 DEF Works
  <1>7. \A i \in 1 .. Len(running) : pc' = "decode" => ~ Works(running[i])'
    <2> SUFFICES ASSUME NEW i \in 1 .. Len(running), pc' = "decode"
                 PROVE  ~ Works(running[i])'
      OBVIOUS
    <2>1. PICK r \in Seqs : r = running[i]
      BY <1>3
    <2>2. ~ Works(r)'
      BY <1>3, <1>4, <1>5, <2>1
    <2>3. running'[i] = r
      BY <1>1, <2>1
    <2> QED
      BY <2>2, <2>3 DEF Works
  <1> QED
    BY <1>1, <1>4, <1>5, <1>6, <1>7 DEF StillToCome, DecodesFirst

LEMMA StillToComeStep ==
    ASSUME Inv, SchedulerInv, StillToCome, [EngineNext]_engineVars
    PROVE  StillToCome'
  <1>1. CASE UNCHANGED engineVars
    BY <1>1 DEF engineVars, vars, bmVars, reqVars, runVars, queueVars, stepVars, StillToCome,
                DecodesFirst, Works, Waits, Runs, FinalChunk, IsPrefilling, uncomputed_tokens
  <1>2. CASE StartStep \/ EndPrefill \/ EndDecode
    BY <1>2, LoopEntered
  <1>3. CASE \/ NextGroup \/ EndRun \/ EndStep \/ ModelError
             \/ \E s \in Seqs : \/ \E drafts \in Drafts : RunForward(s, drafts)
                                \/ RunCommit(s)
                                \/ \E finish \in BOOLEAN : PostItem(s, finish)
                                \/ \E torn \in BOOLEAN : FailItem(s, torn)
                                \/ Arrive(s) \/ Cancel(s) \/ Drop(s)
    <2>1. pc' \notin {"prefill", "decode"}
      BY <1>3 DEF NextGroup, EndRun, EndStep, ModelError, RunForward, RunCommit, PostItem,
                  FailItem, Arrive, Cancel, Drop, stepVars
    <2> QED
      BY <2>1 DEF StillToCome
  <1>4. ASSUME NEW s \in Seqs, AdmitPrompt(s) \/ PrefillChunk(s)
        PROVE  StillToCome'
    BY <1>4, PromptTurnLeft
  <1>5. ASSUME NEW s \in Seqs, DecodeTurn(s)
        PROVE  StillToCome'
    BY <1>5, DecodeTurnLeft
  <1> QED
    BY <1>1, <1>2, <1>3, <1>4, <1>5 DEF EngineNext, Step

LEMMA WaitingMayPrefill ==
    ASSUME Inv, WholePrompts, NEW s \in Seqs, Waits(s), ~ Works(s)
    PROVE  MayPrefill(s)
  <1>1. uncomputed_tokens(s) \in Nat \ {0} /\ Uncached(s) \in Nat \ {0}
    BY SomethingLeft
  <1>2. block_table[s] # <<>> => EnableChunkedPrefill
    BY ModeAssumption DEF WholePrompts, Prompted
  <1> QED
    BY <1>1, <1>2 DEF MayPrefill, Waits, Works

LEMMA RunningMayDecode ==
    ASSUME Inv, NEW s \in Seqs, Runs(s), ~ Works(s)
    PROVE  MayDecode(s)
  <1>1. /\ prompt_len[s] \in Nat /\ num_computed[s] \in Nat /\ num_generated(s) \in Nat
        /\ Accounting(s) /\ status[s] = "ACTIVE" /\ ~ IsPrefilling(s) /\ work[s] = "idle"
    BY Counts DEF Inv, Runs, Works
  <1>2. num_generated(s) > 0
    BY <1>1 DEF Accounting
  <1>3. block_table[s] # <<>>
    BY <1>1 DEF Accounting, IsPrefilling, uncomputed_tokens
  <1> QED
    BY <1>1, <1>2, <1>3 DEF MayDecode

\* Whatever the modes, the budgets and the rotations, no loop of a step comes to a
\* request that the step has scheduled already, to a prompt with nothing to run, to
\* a waiting request that must not have pages or a running one that must have them.
THEOREM TurnsAreLegal == EngineSpec => []TurnsLegal
  <1>1. EngineInit => StillToCome /\ WholePrompts
    BY DEF EngineInit, Init, StillToCome, WholePrompts, Prompted, Waits
  <1>2. Inv /\ SchedulerInv /\ WholePrompts /\ [EngineNext]_engineVars => WholePrompts'
    BY WholePromptsStep
  <1>3. Inv /\ SchedulerInv /\ StillToCome /\ [EngineNext]_engineVars => StillToCome'
    BY StillToComeStep
  <1>4. Inv /\ SchedulerInv /\ WholePrompts /\ StillToCome => TurnsLegal
    <2> SUFFICES ASSUME Inv, SchedulerInv, WholePrompts, StillToCome
                 PROVE  TurnsLegal
      OBVIOUS
    <2>1. /\ waiting \in Seq(Seqs) /\ running \in Seq(Seqs) /\ left \in Nat
          /\ Len(waiting) \in Nat /\ Len(running) \in Nat
      BY QueueTypes
    <2>2. /\ pc = "prefill" => left <= Len(waiting)
          /\ pc = "decode" => left <= Len(running)
      BY DEF SchedulerInv, Turns
    <2>3. ASSUME pc = "prefill", NEW i \in 1 .. left
          PROVE  MayPrefill(waiting[i])
      <3>1. i \in 1 .. Len(waiting) /\ i <= left
        BY <2>1, <2>2, <2>3
      <3>2. waiting[i] \in Seqs /\ waiting[i] \in Range(waiting)
        BY <2>1, <3>1 DEF Range
      <3>3. Waits(waiting[i])
        BY <3>2, Members DEF SchedulerInv
      <3>4. ~ Works(waiting[i])
        BY <2>3, <3>1 DEF StillToCome
      <3> QED
        BY <3>2, <3>3, <3>4, WaitingMayPrefill
    <2>4. ASSUME pc = "decode", NEW i \in 1 .. Len(running), i > Len(running) - left
          PROVE  MayDecode(running[i])
      <3>1. running[i] \in Seqs /\ running[i] \in Range(running)
        BY <2>1, <2>4 DEF Range
      <3>2. Runs(running[i])
        BY <3>1, Members DEF SchedulerInv
      <3>3. ~ Works(running[i])
        BY <2>4 DEF StillToCome
      <3> QED
        BY <3>1, <3>2, <3>3, RunningMayDecode
    <2> QED
      BY <2>2, <2>3, <2>4 DEF TurnsLegal
  <1> QED
    BY <1>1, <1>2, <1>3, <1>4, EngineInvariance, SchedulerInvariance, PTL DEF EngineSpec

=============================================================================
