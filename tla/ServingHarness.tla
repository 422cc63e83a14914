--------------------------- MODULE ServingHarness ---------------------------
(***************************************************************************)
(* The benchmark harness over a real engine: run_serving_workload and      *)
(* _warm_engine in nanovllm_pp/benchmarks/serving_harness.py, the loop of  *)
(* LLMEngine.generate that warms the engine up, and what the engine        *)
(* records of a run: the RequestTracker of observability/profiler.py and   *)
(* the counters of BlockManager.stats.                                     *)
(*                                                                         *)
(* One thread drives the engine: it sends the requests that are due while  *)
(* it has a slot for them, steps the engine, looks at every request it has *)
(* sent, and forgets those that have finished.  An exception of step ends  *)
(* it.  The clock only decides when a request is due.                      *)
(***************************************************************************)
EXTENDS Engine

CONSTANTS
    Warmups,         \* the prompts of workload.warmup_requests
    Workload,        \* the prompts of workload.requests
    MaxConcurrency   \* max_concurrency

ASSUME WorkloadAssumption == Warmups \in Seq(Prompts) /\ Workload \in Seq(Prompts) \ {<<>>}
ASSUME ConcurrencyAssumption == MaxConcurrency \in Nat \ {0}

VARIABLES
    cold,          \* prefix_cache_state = "cold"
    phase,         \* "warm-up" in generate, then "measured"
    stage,         \* where the driver is in its loop
    next_request,  \* prompts of the phase that have been sent
    due,           \* requests whose arrival offset has passed
    records,       \* RequestRecord, by index
    tracker,       \* RequestTracker.requests, by the index of the request
    num_cached,    \* Sequence.num_cached_tokens
    stats,         \* BlockManager.admitted_requests and prefix_tokens_reused
    sampled,       \* last_schedule_stats["used_blocks"]
    maximum_pages  \* maximum_pages_used

driverVars == <<cold, phase, stage, next_request, due, records, maximum_pages>>
telemetryVars == <<tracker, num_cached, stats, sampled>>
harnessVars == <<engineVars, driverVars, telemetryVars>>

NoStats == [admitted |-> 0, reused |-> 0]

HarnessInit ==
    /\ EngineInit
    /\ cold \in BOOLEAN
    /\ phase = "warm-up" /\ stage = "loop"
    /\ next_request = 0 /\ due = 0
    /\ records = <<>> /\ tracker = <<>>
    /\ num_cached = [s \in Seqs |-> 0]
    /\ stats = NoStats
    /\ sampled = 0 /\ maximum_pages = 0

Active == {i \in DOMAIN records : records[i].state = "active"}
HasUnfinished == waiting # <<>> \/ running # <<>>

-----------------------------------------------------------------------------
(* What the engine records of a step.                                      *)

\* BlockManager.allocate counts its admissions.
CountAdmissions ==
    LET admitted == {s \in Seqs : block_table[s] = <<>> /\ block_table'[s] # <<>>}
    IN  /\ num_cached' = [s \in Seqs |-> IF s \in admitted THEN num_computed'[s] ELSE num_cached[s]]
        /\ stats' = [admitted |-> stats.admitted + Cardinality(admitted),
                     reused |-> stats.reused + SumFunctionOnSet(num_computed', admitted)]

\* last_schedule_stats is taken when the batch has been put together.
Sample == sampled' = IF pc # "model" /\ pc' = "model" THEN Cardinality(used_block_ids') ELSE sampled

\* record_first_token and record_completion after postprocess; abort_request
\* drops the record of a request that a model error has ended.
Track ==
    tracker' = [i \in DOMAIN tracker |->
        IF i \notin Active \/ batch = <<>> \/ records[i].id # Head(batch) THEN tracker[i]
        ELSE IF pc = "raise" THEN "dropped"
        ELSE IF pc # "post" THEN tracker[i]
        ELSE IF status'[Head(batch)] = "FINISHED" THEN "complete"
        ELSE IF num_generated(Head(batch)) > 0 THEN "first token"
        ELSE tracker[i]]

-----------------------------------------------------------------------------
(* Calls of the engine.                                                    *)

\* add_request for a fresh Sequence.
Add(s, prompt) ==
    /\ s = CHOOSE r \in Seqs : status[r] = "NEW"
    /\ Arrive(s)
    /\ token_ids'[s] = prompt
    /\ num_cached' = [num_cached EXCEPT ![s] = 0]
    /\ next_request' = next_request + 1

CallStep ==
    /\ StartStep
    /\ stage' = "step"
    /\ UNCHANGED <<cold, phase, next_request, due, records, maximum_pages, telemetryVars>>

\* One turn of LLMEngine.step.  The benchmark's requests ignore the end-of-text
\* token and have no stop strings: they finish at their output length.
Turn ==
    /\ stage = "step" /\ pc # "idle"
    /\ Step \/ ModelError
    /\ pc = "post" /\ batch # <<>> =>
        (status'[Head(batch)] = "FINISHED" <=> num_generated(Head(batch)) >= MaxTokens)
    /\ Track
    /\ CountAdmissions
    /\ Sample
    /\ stage' = IF pc' # "idle" THEN "step"
                ELSE IF report' # "none" THEN "raised"
                ELSE IF phase = "warm-up" THEN "loop" ELSE "observe"
    /\ UNCHANGED <<cold, phase, next_request, due, records, maximum_pages>>

-----------------------------------------------------------------------------
(* The warm-up: LLMEngine.generate.                                        *)

WarmUp ==
    /\ phase = "warm-up" /\ stage = "loop"
    /\ next_request < Len(Warmups)
    /\ \E s \in Seqs : Add(s, Warmups[next_request + 1])
    /\ UNCHANGED <<cold, phase, stage, due, records, maximum_pages, tracker, stats, sampled>>

GenerateStep ==
    /\ phase = "warm-up" /\ stage = "loop"
    /\ next_request = Len(Warmups)
    /\ CallStep

\* The outputs are read and forgotten when the scheduler is empty.
Collect(s) ==
    /\ phase = "warm-up" /\ stage = "loop"
    /\ next_request = Len(Warmups) /\ ~ HasUnfinished
    /\ Drop(s)
    /\ UNCHANGED <<driverVars, telemetryVars>>

\* Mutant: the counters go on from the warm-up.
Measured_KeepStats == UNCHANGED stats

\* reset_metrics
Measured == stats' = NoStats

\* Back in the harness: a cold start clears the prefix index, the counters and
\* the tracker start anew, and the first request is due at once.
StartMeasurement ==
    /\ phase = "warm-up" /\ stage = "loop"
    /\ next_request = Len(Warmups) /\ ~ HasUnfinished
    /\ \A s \in Seqs : status[s] = "NEW"
    /\ hash_to_block_id' = IF cold THEN <<>> ELSE hash_to_block_id
    /\ Measured
    /\ phase' = "measured"
    /\ next_request' = 0 /\ due' = 1
    /\ UNCHANGED <<poolVars, block_hash, block_tokens, computed_tokens, block_table, token_ids,
                   prompt_len, reqVars, runVars, queueVars, stepVars, cold, stage, records, maximum_pages,
                   tracker, num_cached, sampled>>

-----------------------------------------------------------------------------
(* The measured loop.                                                      *)

\* Time passes until the next request is due.
Tick ==
    /\ phase = "measured" /\ stage = "loop"
    /\ due < Len(Workload)
    /\ due' = due + 1
    /\ UNCHANGED <<engineVars, cold, phase, stage, next_request, records, maximum_pages, telemetryVars>>

MaySend == next_request < due /\ Cardinality(Active) < MaxConcurrency

Send ==
    /\ phase = "measured" /\ stage = "loop"
    /\ MaySend
    /\ \E s \in Seqs :
        /\ Add(s, Workload[next_request + 1])
        /\ records' = Append(records, [id |-> s, state |-> "active", cached |-> 0, tokens |-> 0])
    /\ tracker' = Append(tracker, "enqueued")
    /\ UNCHANGED <<cold, phase, stage, due, maximum_pages, stats, sampled>>

MeasuredStep ==
    /\ phase = "measured" /\ stage = "loop"
    /\ ~ MaySend
    /\ CallStep

\* Mutants: a finished request is not looked at for its last tokens; a request
\* that has finished stays in active_ids.
Look_Finished(r) ==
    IF status[r.id] = "FINISHED" THEN [r EXCEPT !.state = "finished"]
    ELSE [r EXCEPT !.cached = Max({@, num_cached[r.id]}), !.tokens = Max({@, num_generated(r.id)})]
Look_StaysActive(r) ==
    [r EXCEPT !.cached = Max({@, num_cached[r.id]}), !.tokens = Max({@, num_generated(r.id)})]

\* What the harness notes of one active request after a step.
Look(r) ==
    [r EXCEPT !.cached = Max({@, num_cached[r.id]}),
              !.tokens = Max({@, num_generated(r.id)}),
              !.state = IF status[r.id] = "FINISHED" THEN "finished" ELSE @]

Observe ==
    /\ stage = "observe"
    /\ records' = [i \in DOMAIN records |-> IF i \in Active THEN Look(records[i]) ELSE records[i]]
    /\ maximum_pages' = Max({maximum_pages, sampled})
    /\ stage' = "forget"
    /\ UNCHANGED <<engineVars, cold, phase, next_request, due, telemetryVars>>

\* The finished requests leave active_ids and the engine, one by one.
ForgetFinished ==
    LET finished == {i \in DOMAIN records : records[i].state = "finished"}
    IN  /\ stage = "forget"
        /\ IF finished = {}
           THEN /\ stage' = "loop"
                /\ UNCHANGED <<engineVars, records>>
           ELSE LET i == Min(finished)
                IN  /\ Drop(records[i].id)
                    /\ records' = [records EXCEPT ![i].state = "completed"]
                    /\ UNCHANGED stage
        /\ UNCHANGED <<cold, phase, next_request, due, maximum_pages, telemetryVars>>

Finish ==
    /\ phase = "measured" /\ stage = "loop"
    /\ next_request = Len(Workload) /\ Active = {}
    /\ stage' = "done"
    /\ UNCHANGED <<engineVars, cold, phase, next_request, due, records, maximum_pages, telemetryVars>>

Driver ==
    \/ Turn
    \/ WarmUp \/ GenerateStep \/ StartMeasurement \/ \E s \in Seqs : Collect(s)
    \/ Send \/ MeasuredStep \/ Observe \/ ForgetFinished \/ Finish

HarnessNext == Driver \/ Tick

\* The driver is one thread that never waits but for the next arrival.
HarnessSpec == HarnessInit /\ [][HarnessNext]_harnessVars
                           /\ WF_harnessVars(Driver) /\ WF_harnessVars(Tick)

-----------------------------------------------------------------------------
(* Properties.                                                             *)

BetweenSteps == phase = "measured" /\ stage \in {"loop", "done"}

\* Between steps the harness, the engine and its tracker tell the same story of
\* every request, whatever finished in the step before, in a burst or not: the
\* engine knows the active requests and no others, all their tokens have been
\* observed, a completed record has its whole output, and "active requests
\* remain but the engine has no work" (serving_harness.py:280) is never raised.
RecordsExact ==
    BetweenSteps =>
        /\ {records[i].id : i \in Active} = {s \in Seqs : status[s] # "NEW"}
        /\ \A i \in Active :
            /\ records[i].id \in Range(waiting) \union Range(running)
            /\ records[i].tokens = num_generated(records[i].id)
            /\ tracker[i] = IF records[i].tokens = 0 THEN "enqueued" ELSE "first token"
        /\ \A i \in DOMAIN records \ Active :
            records[i].tokens = MaxTokens /\ tracker[i] = "complete"

\* "warmup is excluded in benchmarks" (docs/USAGE.md:122): the counters reported
\* with the records are those of the records, a cold start has nothing to reuse
\* for the first prompt it admits, and the peak of pages is no less than what any
\* completed request held when its last token was computed.
MetricsExact ==
    BetweenSteps =>
        /\ stats.admitted = Cardinality({i \in DOMAIN records :
                i \in Active => block_table[records[i].id] # <<>>})
        /\ stats.reused = SumFunction([i \in DOMAIN records |-> records[i].cached])
        /\ cold /\ stats.admitted = 1 => stats.reused = 0
        /\ \A i \in DOMAIN records \ Active :
            maximum_pages >= required_blocks(Len(Workload[i]) + MaxTokens - 1)

\* Every request is sent, finishes and is recorded, in whatever order their
\* arrivals and the slots of the clients let them in, unless a step raises.
HarnessEnds == <>(stage = "raised" \/ (stage = "done" /\ Len(records) = Len(Workload)))

=============================================================================
