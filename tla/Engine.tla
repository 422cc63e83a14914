------------------------------- MODULE Engine -------------------------------
(***************************************************************************)
(* One engine: nanovllm_pp/engine/scheduler.py, scheduling/*.py and        *)
(* LLMEngine.step, composed with the requests and pages of PagedRunner.    *)
(*                                                                         *)
(* A step of the engine considers its two queues request by request, runs  *)
(* the batch it has put together through the model group by group and      *)
(* post-processes it, or handles the model's exception.  Every action here *)
(* is one turn of one of those loops: an action of PagedRunner for the     *)
(* request concerned, conjoined with what the loop does to the scheduler.  *)
(* Clients add, cancel and forget requests between steps only, because the *)
(* step and each client call hold the same lock.                           *)
(***************************************************************************)
EXTENDS PagedRunner, SequencesExt

CONSTANTS
    MaxNumSeqs,            \* EngineConfig.max_num_seqs
    MaxBatchedTokens,      \* EngineConfig.max_num_batched_tokens
    MaxPrefillChunk,       \* EngineConfig.max_prefill_chunk_size
    EnableChunkedPrefill,  \* EngineConfig.enable_chunked_prefill
    DecodePriority,        \* EngineConfig.decode_priority
    Greedy,                \* requests with temperature 0
    WithStops              \* requests with stop strings

\* EngineConfig.__post_init__
ASSUME LimitsAssumption ==
    /\ MaxNumSeqs \in Nat \ {0}
    /\ MaxBatchedTokens \in Nat \ {0}
    /\ MaxPrefillChunk \in Nat \ {0}
    /\ MaxDraft > 0 => MaxBatchedTokens >= 2
ASSUME ModeAssumption == EnableChunkedPrefill \in BOOLEAN /\ DecodePriority \in BOOLEAN
ASSUME GreedyAssumption == Greedy \subseteq Seqs /\ WithStops \subseteq Seqs

VARIABLES
    waiting,   \* Scheduler.waiting
    running,   \* Scheduler.running
    pc,        \* the loop that LLMEngine.step is in
    left,      \* turns that the queue loop has left
    budget,    \* TokenBudget.remaining
    batch,     \* the items of the batch that are still to be handled
    groups,    \* the forward passes of the batch that are still to run
    report     \* what the last step raised

queueVars == <<waiting, running>>
stepVars == <<pc, left, budget, batch, groups, report>>
engineVars == <<vars, queueVars, stepVars>>

EngineInit ==
    /\ Init
    /\ waiting = <<>> /\ running = <<>>
    /\ pc = "idle"
    /\ left = 0 /\ budget = 0
    /\ batch = <<>> /\ groups = <<>>
    /\ report = "none"

Rotated(queue) == Append(Tail(queue), Head(queue))
Without(queue, s) == RemoveFirst(queue, s)

\* Mutants: a blocked prompt is popped; it stays in front.
Blocked_Pop(queue) == Tail(queue)
Blocked_Stay(queue) == queue

\* A request that cannot run in this step lets the others of the queue try.
Blocked(queue) == Rotated(queue)

-----------------------------------------------------------------------------
(* Between steps.                                                          *)

\* LLMEngine.add_request and Scheduler.add.  A prompt over the token budget is
\* refused unless it can be prefilled in chunks.
Arrive(s) ==
    /\ pc = "idle"
    /\ AddRequest(s)
    /\ EnableChunkedPrefill \/ prompt_len'[s] <= MaxBatchedTokens
    /\ waiting' = Append(waiting, s)
    /\ UNCHANGED <<running, stepVars>>

\* Mutant: a cancelled request stays in the running queue.
Dequeue_WaitingOnly(s) ==
    /\ waiting' = Without(waiting, s)
    /\ UNCHANGED running

\* Scheduler._finish
Dequeue(s) ==
    /\ waiting' = Without(waiting, s)
    /\ running' = Without(running, s)

\* LLMEngine.abort_request by a client.
Cancel(s) ==
    /\ pc = "idle"
    /\ Abort(s)
    /\ Dequeue(s)
    /\ UNCHANGED stepVars

Drop(s) ==
    /\ pc = "idle"
    /\ Forget(s)
    /\ UNCHANGED <<queueVars, stepVars>>

-----------------------------------------------------------------------------
(* Scheduler.schedule.                                                     *)

EnterPrefill ==
    /\ pc' = "prefill"
    /\ left' = Len(waiting)

EnterDecode ==
    /\ pc' = "decode"
    /\ left' = Len(running)

\* Mutant: prompts go first whenever there are any.
StartStep_PrefillFirst ==
    /\ pc = "idle"
    /\ waiting # <<>> \/ running # <<>>
    /\ IF waiting = <<>> THEN EnterDecode ELSE EnterPrefill
    /\ budget' = MaxBatchedTokens
    /\ report' = "none"
    /\ UNCHANGED <<vars, queueVars, batch, groups>>

\* Chunked prefill shares one budget between the two loops and runs both;
\* otherwise decode runs when nothing waits or nothing that waits fits.
StartStep ==
    /\ pc = "idle"
    /\ waiting # <<>> \/ running # <<>>
    /\ IF (EnableChunkedPrefill /\ DecodePriority) \/ waiting = <<>>
       THEN EnterDecode
       ELSE EnterPrefill
    /\ budget' = MaxBatchedTokens
    /\ report' = "none"
    /\ UNCHANGED <<vars, queueVars, batch, groups>>

\* Mutants: only the tokens, or only the requests, are counted.
Fits_AnyRequests(n) == n <= budget
Fits_AnyTokens(n) == Len(batch) < MaxNumSeqs

Fits(n) == n <= budget /\ Len(batch) < MaxNumSeqs

\* One item of n tokens joins the batch.
Take(s, n) ==
    /\ batch' = Append(batch, s)
    /\ budget' = budget - n
    /\ left' = left - 1
    /\ UNCHANGED <<pc, groups, report>>

Pass ==
    /\ left' = left - 1
    /\ UNCHANGED <<pc, budget, batch, groups, report>>

\* The tokens of a prompt that has no pages yet which a prefill has to run.
Uncached(s) == prompt_len[s] - cached_prefix_tokens(s)

\* The loops over the waiting queue stop early, one when the batch is full and
\* the other when the budget is spent.
PrefillTurn ==
    /\ pc = "prefill" /\ left > 0
    /\ IF EnableChunkedPrefill THEN budget > 0 ELSE Len(batch) < MaxNumSeqs

\* _schedule_prefill_only, with its rotations.
AdmitPrompt(s) ==
    /\ PrefillTurn /\ ~ EnableChunkedPrefill
    /\ s = Head(waiting)
    /\ IF Uncached(s) <= budget /\ can_allocate(s, 1)
       THEN /\ Admit(s, Uncached(s))
            /\ Take(s, Uncached(s))
            /\ waiting' = Tail(waiting)
       ELSE /\ Pass
            /\ waiting' = Blocked(waiting)
            /\ UNCHANGED vars
    /\ UNCHANGED running

ChunkOf(remaining) == Min({remaining, budget, MaxPrefillChunk})

\* Mutant: a request leaves the queue with its first chunk.
AfterChunk_Pop(chunk, remaining) == Tail(waiting)

\* Mutant: a request that got part of its prompt stays in front.
AfterChunk_Stay(chunk, remaining) ==
    IF chunk >= remaining THEN Tail(waiting) ELSE waiting

\* Where the request goes that got a chunk: the last one takes it off the queue.
AfterChunk(chunk, remaining) ==
    IF chunk >= remaining THEN Tail(waiting) ELSE Rotated(waiting)

\* _schedule_prefill_chunks.  A prompt that finds room in the pool keeps its
\* pages even when the batch has no slot left for its chunk.
PrefillChunk(s) ==
    /\ PrefillTurn /\ EnableChunkedPrefill
    /\ s = Head(waiting)
    /\ LET admitted == block_table[s] # <<>>
           remaining == IF admitted THEN uncomputed_tokens(s) ELSE Uncached(s)
           chunk == ChunkOf(remaining)
       IN  IF remaining <= 0
           THEN Pass /\ waiting' = Tail(waiting) /\ UNCHANGED vars
           ELSE IF ~ admitted /\ ~ can_allocate(s, 1)
           THEN Pass /\ waiting' = Blocked(waiting) /\ UNCHANGED vars
           ELSE IF Fits(chunk)
           THEN /\ IF admitted THEN SchedulePrefill(s, chunk) ELSE Admit(s, chunk)
                /\ Take(s, chunk)
                /\ waiting' = AfterChunk(chunk, remaining)
           ELSE /\ IF admitted THEN UNCHANGED vars ELSE Admit(s, 0)
                /\ Pass
                /\ waiting' = Blocked(waiting)
    /\ UNCHANGED running

\* Drafts are for greedy requests without stop strings.
Lookahead(s) ==
    IF MaxDraft > 0 /\ s \in Greedy \ WithStops
    THEN Min({1 + MaxDraft, Max({1, MaxTokens - num_generated(s)})})
    ELSE 1

\* _schedule_decode_only and _schedule_decode.
DecodeTurn(s) ==
    /\ pc = "decode" /\ left > 0
    /\ s = running[Len(running) - left + 1]
    /\ LET n == Lookahead(s)
       IN  IF Fits(n) /\ can_append(s, n)
           THEN ScheduleDecode(s, n) /\ Take(s, n)
           ELSE Pass /\ UNCHANGED vars
    /\ UNCHANGED queueVars

-----------------------------------------------------------------------------
(* PagedModelRunner.run.                                                   *)

\* The manager steps every greedy request, also one that it drafts nothing for.
SpeculatesAlone(s) == ~ IsPrefilling(s) /\ MaxDraft > 0 /\ s \in Greedy

\* Mutant: with a speculative manager every decode counts as speculative.
Regular_NoManager(s) == ~ IsPrefilling(s) /\ MaxDraft = 0

Regular(s) == ~ IsPrefilling(s) /\ ~ SpeculatesAlone(s)

\* The items of a batch that belong to S, in their order.
Part(queue, S) ==
    LET upTo[i \in 0 .. Len(queue)] ==
            IF i = 0 THEN <<>>
            ELSE IF queue[i] \in S THEN Append(upTo[i - 1], queue[i]) ELSE upTo[i - 1]
    IN  upTo[Len(queue)]

OneGroup(group) == IF group = <<>> THEN <<>> ELSE <<group>>

\* The forward passes of a batch: all its prompt chunks in one, every
\* speculative request by itself, and the other decodes in one.
Groups ==
    LET prefilling == {s \in Seqs : IsPrefilling(s)}
        speculating == {s \in Seqs : SpeculatesAlone(s)}
        regular == {s \in Seqs : Regular(s)}
        alone == Part(batch, speculating)
    IN  OneGroup(Part(batch, prefilling))
            \o [i \in DOMAIN alone |-> <<alone[i]>>]
            \o OneGroup(Part(batch, regular))

\* The batch goes to the model; an empty one is reported as an error.
Launch ==
    /\ left' = 0
    /\ IF batch = <<>>
       THEN /\ pc' = "idle"
            /\ report' = "no progress"
            /\ UNCHANGED groups
       ELSE /\ pc' = "model"
            /\ groups' = Groups
            /\ UNCHANGED report

\* Mutant: decode does not run in place of an empty prefill batch.
DecodeFollows_IfChunked == EnableChunkedPrefill /\ ~ DecodePriority

\* "A waiting prompt may need pages owned by a running request.  Let decode
\* finish that request instead of reporting false deadlock."
DecodeFollows ==
    IF EnableChunkedPrefill THEN ~ DecodePriority ELSE batch = <<>>

EndPrefill ==
    /\ pc = "prefill" /\ ~ PrefillTurn
    /\ IF DecodeFollows THEN EnterDecode /\ UNCHANGED <<groups, report>> ELSE Launch
    /\ UNCHANGED <<vars, queueVars, budget, batch>>

EndDecode ==
    /\ pc = "decode" /\ left = 0
    /\ IF EnableChunkedPrefill /\ DecodePriority
       THEN EnterPrefill /\ UNCHANGED <<groups, report>>
       ELSE Launch
    /\ UNCHANGED <<vars, queueVars, budget, batch>>

InGroup(stage) == Part(Head(groups), {s \in Seqs : work[s] = stage})

\* The group's forward, request by request.
RunForward(s, drafts) ==
    /\ pc = "model" /\ groups # <<>>
    /\ InGroup("scheduled") # <<>>
    /\ s = Head(InGroup("scheduled"))
    /\ Forward(s, drafts)
    /\ UNCHANGED <<queueVars, stepVars>>

\* Its rows, in the same order, once the whole forward is through.
RunCommit(s) ==
    /\ pc = "model" /\ groups # <<>>
    /\ InGroup("scheduled") = <<>> /\ InGroup("forwarded") # <<>>
    /\ s = Head(InGroup("forwarded"))
    /\ Commit(s) \/ CommitSpeculative(s)
    /\ UNCHANGED <<queueVars, stepVars>>

NextGroup ==
    /\ pc = "model" /\ groups # <<>>
    /\ InGroup("scheduled") = <<>> /\ InGroup("forwarded") = <<>>
    /\ groups' = Tail(groups)
    /\ UNCHANGED <<vars, queueVars, pc, left, budget, batch, report>>

EndRun ==
    /\ pc = "model" /\ groups = <<>>
    /\ pc' = "post"
    /\ UNCHANGED <<vars, queueVars, left, budget, batch, groups, report>>

\* model_runner.run or _mark_stop_strings raises, at any point.
ModelError ==
    /\ pc = "model"
    /\ pc' = "raise"
    /\ UNCHANGED <<vars, queueVars, left, budget, batch, groups, report>>

-----------------------------------------------------------------------------
(* The end of the step.                                                    *)

\* Mutant: a request whose prompt is through is not moved to `running`.
Enqueue_Not(s) == UNCHANGED running

\* Scheduler.postprocess: a prompt that is through starts to decode.
Enqueue(s) ==
    running' = IF IsPrefilling(s) /\ num_computed'[s] >= prompt_len[s]
               THEN Append(running, s)
               ELSE running

\* Scheduler.postprocess, for one item.
PostItem(s, finish) ==
    /\ pc = "post" /\ batch # <<>>
    /\ s = Head(batch)
    /\ Postprocess(s, finish)
    /\ IF finish THEN Dequeue(s) ELSE Enqueue(s) /\ UNCHANGED waiting
    /\ batch' = Tail(batch)
    /\ UNCHANGED <<pc, left, budget, groups, report>>

\* Mutant: the handler aborts the requests of the failed forward only.
Handle_Group(s, torn) ==
    IF \E i \in DOMAIN groups : s \in Range(groups[i])
    THEN Fail(s, torn) /\ Dequeue(s)
    ELSE UNCHANGED <<vars, queueVars>>

\* The exception handler of LLMEngine.step, for one request of the batch.  Only
\* the forward pass that was running can have left slots half written.
Handle(s, torn) ==
    /\ torn => groups # <<>> /\ s \in Range(Head(groups))
    /\ Fail(s, torn)
    /\ Dequeue(s)

FailItem(s, torn) ==
    /\ pc = "raise" /\ batch # <<>>
    /\ s = Head(batch)
    /\ Handle(s, torn)
    /\ batch' = Tail(batch)
    /\ UNCHANGED <<pc, left, budget, groups, report>>

EndStep ==
    /\ pc \in {"post", "raise"} /\ batch = <<>>
    /\ report' = IF pc = "raise" THEN "error" ELSE report
    /\ pc' = "idle"
    /\ budget' = 0
    /\ groups' = <<>>
    /\ UNCHANGED <<vars, queueVars, left, batch>>

-----------------------------------------------------------------------------

\* What LLMEngine.step does by itself, once a caller has called it.
Step ==
    \/ StartStep \/ EndPrefill \/ EndDecode \/ NextGroup \/ EndRun \/ EndStep
    \/ \E s \in Seqs :
        \/ AdmitPrompt(s)
        \/ PrefillChunk(s)
        \/ DecodeTurn(s)
        \/ \E drafts \in Drafts : RunForward(s, drafts)
        \/ RunCommit(s)
        \/ \E finish \in BOOLEAN : PostItem(s, finish)
        \/ \E torn \in BOOLEAN : FailItem(s, torn)

EngineNext ==
    \/ Step
    \/ ModelError
    \/ \E s \in Seqs : Arrive(s) \/ Cancel(s) \/ Drop(s)

EngineSpec == EngineInit /\ [][EngineNext]_engineVars

\* generate() and drive() call step again until their requests have finished,
\* and the step itself runs to its end.
FairEngineSpec == EngineSpec /\ WF_engineVars(Step)

-----------------------------------------------------------------------------
(* Properties.                                                             *)

SchedulerTypeOK ==
    /\ waiting \in Seq(Seqs) /\ running \in Seq(Seqs)
    /\ pc \in {"idle", "prefill", "decode", "model", "post", "raise"}
    /\ left \in Nat
    /\ budget \in 0 .. MaxBatchedTokens
    /\ batch \in Seq(Seqs)
    /\ report \in {"none", "no progress", "error"}

\* The type invariant of the scheduler and the step.
EngineTypeOK == SchedulerTypeOK /\ groups \in Seq(Seq(Seqs))

\* The work of a step is its last over the request's prompt.
FinalChunk(s) == work[s] # "idle" /\ num_computed[s] + num_tokens[s] >= prompt_len[s]

\* The rotations, removals and moves of the queues lose and duplicate no
\* request: at every point of a step, a live request waits while its prompt is
\* incomplete and runs from then on, except that the last chunk of a prompt in
\* flight is in neither queue.
QueuesExact ==
    /\ IsInjective(waiting) /\ IsInjective(running)
    /\ Range(running) = {s \in Seqs : status[s] = "ACTIVE" /\ ~ IsPrefilling(s)}
    /\ Range(waiting) = {s \in Seqs : /\ status[s] = "ACTIVE" /\ IsPrefilling(s)
                                      /\ ~ FinalChunk(s)}

\* The requests at work are those of the batch, once each.
BatchAtWork ==
    /\ IsInjective(batch)
    /\ Range(batch) = {s \in Seqs : work[s] # "idle"}

\* None of them is left half-way through a step that has ended, with or without an
\* error, and a forward pass has run every one before its results are looked at.
BatchIsWork ==
    /\ BatchAtWork
    /\ pc = "post" => \A s \in Range(batch) : work[s] = "done"

\* Prompt chunks and speculative bursts together stay in the step's token
\* budget, and the batch in its number of requests.
BatchWithinLimits ==
    pc \in {"prefill", "decode", "model"} =>
        /\ SumFunctionOnSet(num_tokens, Range(batch)) + budget = MaxBatchedTokens
        /\ Len(batch) <= MaxNumSeqs

\* A prompt may be prefilled: it has tokens to run, and pages only if it may be in
\* the middle of its chunks.
MayPrefill(s) ==
    /\ status[s] = "ACTIVE" /\ work[s] = "idle"
    /\ IF block_table[s] = <<>>
       THEN Uncached(s) > 0
       ELSE EnableChunkedPrefill /\ uncomputed_tokens(s) > 0

\* A request may decode: it has a last token to run, and pages.
MayDecode(s) ==
    /\ status[s] = "ACTIVE" /\ work[s] = "idle"
    /\ ~ IsPrefilling(s) /\ num_generated(s) > 0
    /\ block_table[s] # <<>>

\* "Consider every waiting sequence at most once per engine iteration"
\* (chunked_prefill.py:62): however the loops rotate, pop and follow each other,
\* the requests that a loop is still to come to in this step have not been
\* scheduled in it, and are such that neither the allocator ("cannot allocate an
\* already-allocated sequence") nor the runner ("prefill scheduled with no
\* uncomputed prompt tokens") has to refuse them.
TurnsLegal ==
    /\ pc = "prefill" =>
        /\ left <= Len(waiting)
        /\ \A i \in 1 .. left : MayPrefill(waiting[i])
    /\ pc = "decode" =>
        /\ left <= Len(running)
        /\ \A i \in 1 .. Len(running) : i > Len(running) - left => MayDecode(running[i])

\* The pool has no room for one more token of the request.
OutOfPages(s) ==
    IF IsPrefilling(s) THEN block_table[s] = <<>> /\ ~ can_allocate(s, 1)
                       ELSE ~ can_append(s, 1)

\* "A genuine no-progress pool shortage raises a diagnostic error"
\* (docs/RUNTIME_EVIDENCE.md:118): the error comes only when no live request
\* could have computed a single token.
NoProgressIsGenuine ==
    [][pc # "idle" /\ report' = "no progress" =>
        \A s \in Seqs : status[s] = "ACTIVE" => OutOfPages(s)]_engineVars

\* A prompt that holds pages gets through, or its request ends, even if clients
\* keep sending others: no order of rotations, budgets and slots starves it.
AdmittedPromptRuns ==
    \A s \in Seqs :
        status[s] = "ACTIVE" /\ IsPrefilling(s) /\ block_table[s] # <<>>
            ~> ~ (status[s] = "ACTIVE" /\ IsPrefilling(s))

\* "Decode gets priority on the token budget" (scheduler.py:59): a decoding
\* request finishes even if clients keep sending prompts, unless a step finds
\* that the pool has no room for anybody.
RunningFinishes ==
    \A s \in Seqs :
        s \in Range(running) ~> status[s] # "ACTIVE" \/ report = "no progress"

\* Once clients stop sending requests, each one that is left ends or the engine
\* reports that it cannot make progress: steps never go round without effect.
Termination ==
    <>[][~ \E s \in Seqs : Arrive(s)]_engineVars =>
        \A s \in Seqs :
            status[s] = "ACTIVE" ~> status[s] # "ACTIVE" \/ report = "no progress"

=============================================================================
