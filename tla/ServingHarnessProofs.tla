------------------------ MODULE ServingHarnessProofs ------------------------
(***************************************************************************)
(* Proofs about module ServingHarness, for any engine, workload and number *)
(* of clients.                                                             *)
(*                                                                         *)
(* The driver's actions are those of an engine with its clients, except    *)
(* for the cold start, which empties the prefix index between two steps.   *)
(* What is proved of the engine and of its pages is carried over that      *)
(* step, and the records, the tracker and the counters are then followed   *)
(* through the turns of a step.                                            *)
(***************************************************************************)
EXTENDS ServingHarness, EngineProofs

-----------------------------------------------------------------------------
(* The invariant.                                                          *)

Records == [id : Seqs, state : {"active", "finished", "completed"}, cached : Nat, tokens : Nat]

TrackerStates == {"enqueued", "first token", "complete", "dropped"}

\* Where the driver is, and what it keeps.
DriverShape ==
    /\ phase \in {"warm-up", "measured"}
    /\ stage \in {"loop", "step", "observe", "forget", "done", "raised"}
    /\ next_request \in Nat
    /\ records \in Seq(Records)
    /\ tracker \in Seq(TrackerStates) /\ Len(tracker) = Len(records)
    /\ num_cached \in [Seqs -> Nat]
    /\ phase = "warm-up" => records = <<>> /\ stage \in {"loop", "step", "raised"}
    /\ stage = "step" <=> pc # "idle"

\* The records of requests that the engine still knows.
Live == {i \in DOMAIN records : records[i].state # "completed"}

\* They are those of the engine's requests, one each.
OneRecordEach ==
    phase = "measured" =>
        /\ \A i, j \in Live : records[i].id = records[j].id => i = j
        /\ {records[i].id : i \in Live} = {s \in Seqs : status[s] # "NEW"}

\* No step has raised, or is about to.
Sound == stage # "raised" /\ pc # "raise"

\* What record and tracker say of an active request.
TellsActive(i) ==
    LET s == records[i].id
    IN  /\ records[i].tokens <= num_generated(s)
        /\ tracker[i] = "first token" => num_generated(s) > 0
        /\ status[s] = "FINISHED" =>
            /\ pc = "post" \/ stage = "observe"
            /\ tracker[i] = "complete" /\ num_generated(s) = MaxTokens
        /\ status[s] # "FINISHED" =>
            /\ tracker[i] \in {"enqueued", "first token"}
            /\ work[s] = "idle" /\ num_generated(s) > 0 => tracker[i] = "first token"
        /\ stage \in {"loop", "forget", "done"} => records[i].tokens = num_generated(s)

\* What they say of one that is not active any more.
TellsEnded(i) ==
    /\ records[i].tokens = MaxTokens
    /\ tracker[i] = "complete"
    /\ records[i].state = "finished" => stage = "forget" /\ status[records[i].id] = "FINISHED"

RecordsTell ==
    Sound => \A i \in DOMAIN records :
        IF records[i].state = "active" THEN TellsActive(i) ELSE TellsEnded(i)

\* The request has had its pages, if it has not ended.
HasPages(s) == status[s] = "ACTIVE" => block_table[s] # <<>>

\* The requests sent so far that have had pages, and the cached tokens of each,
\* noted already or not.
Admitted == {i \in DOMAIN records : records[i].state = "active" => HasPages(records[i].id)}
CachedOf(i) == IF records[i].state = "active" THEN num_cached[records[i].id] ELSE records[i].cached
CachedTokens == [i \in DOMAIN records |-> CachedOf(i)]

\* The counters are those of the records.
Tally ==
    /\ stats.admitted = Cardinality(Admitted)
    /\ stats.reused = SumFunctionOnSet(CachedTokens, DOMAIN records)

\* What is known of the cached tokens of one active request.
Noted(i) ==
    records[i].state = "active" =>
        /\ records[i].cached <= num_cached[records[i].id]
        /\ stage \in {"loop", "forget", "done"} => records[i].cached = num_cached[records[i].id]
        /\ ~ HasPages(records[i].id) => num_cached[records[i].id] = 0

\* After a cold start the first admission finds the index empty.
NothingToReuse ==
    cold => /\ stats.admitted = 0 => DOMAIN hash_to_block_id = {}
            /\ stats.admitted <= 1 => stats.reused = 0

Counted == Tally /\ NothingToReuse /\ \A i \in DOMAIN records : Noted(i)

\* The records are those of the first requests of the workload.
SentInOrder ==
    /\ Len(records) = next_request /\ next_request <= due /\ due <= Len(Workload)
    /\ \A i \in Live : prompt_len[records[i].id] = Len(Workload[i])

\* The pages that the i-th request holds when its last token is computed.
PeakOf(i) == required_blocks(Len(Workload[i]) + MaxTokens - 1)

\* No request of the batch holds more pages than the sample, and none that ended
\* held more than the sample or, once that has been looked at, than the peak.
Peaks ==
    /\ pc \in {"model", "post"} =>
        \A s \in Seqs : work[s] # "idle" => Len(block_table[s]) <= sampled
    /\ \A i \in DOMAIN records :
        IF records[i].state = "active"
        THEN status[records[i].id] = "FINISHED" => PeakOf(i) <= sampled
        ELSE PeakOf(i) <= maximum_pages

Gauges == due \in Nat /\ sampled \in Nat /\ maximum_pages \in Nat

MetricsTell == phase = "measured" /\ Sound => SentInOrder /\ Counted /\ Peaks

-----------------------------------------------------------------------------
(* The engine under the driver.                                            *)

\* What is known of the engine in every state.
EngineKept == KVInv /\ SchedulerInv /\ OutputsBounded

LEMMA KeptStep ==
    ASSUME EngineKept, [EngineNext]_engineVars
    PROVE  EngineKept'
  <1>1. Inv /\ KVInv /\ SchedulerInv /\ OutputsBounded
    BY DEF EngineKept, KVInv
  <1>2. [Next]_vars
    BY <1>1, EngineStep
  <1>3. KVInv'
    BY <1>1, <1>2, StepKV
  <1>4. SchedulerInv'
    BY <1>1, SchedulerStepInv
  <1>5. OutputsBounded'
    BY <1>1, <1>2, OutputsStep
  <1> QED
    BY <1>3, <1>4, <1>5 DEF EngineKept

\* An output is no longer than it may be.
LEMMA Generated ==
    EngineKept => /\ \A r \in Seqs : num_generated(r) \in Nat
                  /\ \A r \in Seqs : num_generated(r) <= MaxTokens
  BY Counts DEF EngineKept, KVInv, Inv, OutputsBounded, OutputFits

\* The finished requests that are still to be forgotten.
ToForget == {i \in DOMAIN records : records[i].state = "finished"}

LEMMA FirstToForget ==
    ASSUME DriverShape, ToForget # {}
    PROVE  Min(ToForget) \in ToForget
  <1>1. Len(records) \in Nat /\ ToForget \in SUBSET (1 .. Len(records))
    BY DEF DriverShape, ToForget
  <1> QED
    BY <1>1, MinOfPositions

\* All that the driver does to the engine is what a client may do, but for the
\* cold start.
LEMMA DriverSteps ==
    ASSUME DriverShape, [HarnessNext]_harnessVars
    PROVE  [EngineNext]_engineVars \/ StartMeasurement
  <1>1. CASE UNCHANGED harnessVars
    BY <1>1 DEF harnessVars
  <1>2. CASE Turn
    BY <1>2 DEF Turn, EngineNext
  <1>3. CASE WarmUp \/ Send
    BY <1>3 DEF WarmUp, Send, Add, EngineNext
  <1>4. CASE GenerateStep \/ MeasuredStep
    BY <1>4 DEF GenerateStep, MeasuredStep, CallStep, EngineNext, Step
  <1>5. ASSUME NEW s \in Seqs, Collect(s)
        PROVE  EngineNext
    BY <1>5 DEF Collect, EngineNext
  <1>6. CASE Observe \/ Finish \/ Tick
    BY <1>6 DEF Observe, Finish, Tick
  <1>7. CASE ForgetFinished
    <2>1. CASE ToForget = {}
      BY <1>7, <2>1 DEF ForgetFinished, ToForget
    <2>2. CASE ToForget # {}
      <3> DEFINE i == Min(ToForget)
      <3>1. Drop(records[i].id)
        BY <1>7, <2>2 DEF ForgetFinished, ToForget
      <3>2. i \in DOMAIN records
        BY <2>2, FirstToForget DEF ToForget
      <3>3. records[i] \in Records
        BY <3>2 DEF DriverShape
      <3>4. records[i].id \in Seqs
        BY <3>3 DEF Records
      <3> QED
        BY <3>1, <3>4 DEF EngineNext
    <2> QED
      BY <2>1, <2>2
  <1> QED
    BY <1>1, <1>2, <1>3, <1>4, <1>5, <1>6, <1>7 DEF HarnessNext, Driver

\* A cold start makes the prefix index forget, which breaks nothing.
LEMMA ColdStartKept ==
    ASSUME EngineKept, StartMeasurement
    PROVE  EngineKept'
  <1>1. /\ UNCHANGED <<ref_count, free_block_ids, used_block_ids>>
        /\ UNCHANGED <<block_hash, block_tokens, computed_tokens, block_table>>
        /\ UNCHANGED <<token_ids, prompt_len, status, num_computed>>
        /\ UNCHANGED <<work, num_tokens, query, kv>>
        /\ UNCHANGED <<waiting, running, pc, left, budget, batch, groups, report>>
        /\ hash_to_block_id' = <<>> \/ hash_to_block_id' = hash_to_block_id
    BY DEF StartMeasurement, poolVars, reqVars, runVars, queueVars, stepVars
  <1>2. CASE hash_to_block_id' = hash_to_block_id
    <2>1. UNCHANGED engineVars
      BY <1>1, <1>2 DEF engineVars, vars, bmVars, metaVars, poolVars, reqVars, runVars,
                        queueVars, stepVars
    <2> QED
      BY <2>1, KeptStep
  <1>3. CASE hash_to_block_id' = <<>>
    <2>1. DOMAIN hash_to_block_id' = {}
      BY <1>3
    <2>2. TypeOK'
      BY <1>1, <2>1 DEF EngineKept, KVInv, Inv, TypeOK, BlockManagerTypeOK
    <2>3. PoolConsistent'
      BY <1>1 DEF EngineKept, KVInv, Inv, PoolConsistent, Holders
    <2>4. \A s \in Seqs : Accounting(s)'
      BY <1>1 DEF EngineKept, KVInv, Inv, Accounting, IsPrefilling, uncomputed_tokens,
                  num_generated
    <2>5. ValidBehindTokens' /\ SharedFull'
      BY <1>1 DEF EngineKept, KVInv, ValidBehindTokens, SharedFull
    <2>6. IndexSound'
      BY <2>1 DEF IndexSound
    <2>7. \A s \in Seqs : Contents(s)'
      BY <1>1 DEF EngineKept, KVInv, Contents, PageHolds, ValidEnd, Start, IsPrefilling,
                  uncomputed_tokens
    <2>8. \A s \in Seqs : InFlight(s)'
      BY <1>1 DEF EngineKept, KVInv, InFlight, Fed, Start, IsPrefilling, uncomputed_tokens,
                  num_generated, physical_block_id
    <2>9. SchedulerInv'
      BY <1>1 DEF EngineKept, SchedulerInv, SchedulerTypeOK, Turns, QueuesExact, BatchAtWork,
                  IsPrefilling, uncomputed_tokens, FinalChunk
    <2>10. OutputsBounded'
      BY <1>1 DEF EngineKept, OutputsBounded, OutputFits, IsPrefilling, uncomputed_tokens,
                  num_generated
    <2> QED
      BY <2>2, <2>3, <2>4, <2>5, <2>6, <2>7, <2>8, <2>9, <2>10 DEF EngineKept, KVInv, Inv
  <1> QED
    BY <1>1, <1>2, <1>3

LEMMA HarnessKept ==
    ASSUME EngineKept, DriverShape, [HarnessNext]_harnessVars
    PROVE  EngineKept'
  BY DriverSteps, KeptStep, ColdStartKept

LEMMA KeptInit == HarnessInit => EngineKept
  <1> SUFFICES ASSUME HarnessInit
               PROVE  EngineKept
    OBVIOUS
  <1>1. Init /\ EngineInit
    BY DEF HarnessInit, EngineInit
  <1> QED
    BY <1>1, InitKV, SchedulerInit, OutputsInit DEF EngineKept

-----------------------------------------------------------------------------
(* The driver's state.                                                     *)

\* The greater of two counts is a count, and the second if it is no less.
LEMMA Greater ==
    ASSUME NEW i \in Nat, NEW j \in Nat
    PROVE  /\ Max({i, j}) \in Nat /\ i <= Max({i, j}) /\ j <= Max({i, j})
           /\ i <= j => Max({i, j}) = j
  BY MaxOfTwo

\* What an observation notes down.
LEMMA LookAt ==
    ASSUME TypeOK, num_cached \in [Seqs -> Nat], NEW r \in Records
    PROVE  /\ Look(r) \in Records
           /\ Look(r).id = r.id
           /\ Look(r).cached = Max({r.cached, num_cached[r.id]})
           /\ Look(r).tokens = Max({r.tokens, num_generated(r.id)})
           /\ Look(r).state = IF status[r.id] = "FINISHED" THEN "finished" ELSE r.state
  <1>1. /\ r.id \in Seqs /\ r.cached \in Nat /\ r.tokens \in Nat
        /\ r.state \in {"active", "finished", "completed"}
    BY DEF Records
  <1> DEFINE c == Max({r.cached, num_cached[r.id]})
             t == Max({r.tokens, num_generated(r.id)})
  <1>2. c \in Nat /\ t \in Nat
    BY <1>1, Counts, Greater
  <1>3. Look(r) = [r EXCEPT !.cached = c, !.tokens = t,
                            !.state = IF status[r.id] = "FINISHED" THEN "finished" ELSE @]
    BY DEF Look
  <1> HIDE DEF c, t
  <1>4. /\ Look(r) \in Records
        /\ Look(r).id = r.id /\ Look(r).cached = c /\ Look(r).tokens = t
        /\ Look(r).state = IF status[r.id] = "FINISHED" THEN "finished" ELSE r.state
    BY <1>1, <1>2, <1>3 DEF Records
  <1> QED
    BY <1>4 DEF c, t

LEMMA ShapeInit == HarnessInit => DriverShape
  BY DEF HarnessInit, EngineInit, DriverShape

\* A turn leaves the records to the driver.
LEMMA TurnShape ==
    ASSUME EngineKept, EngineKept', DriverShape, Turn
    PROVE  DriverShape'
  <1>1. /\ UNCHANGED <<cold, phase, next_request, due, records, maximum_pages>>
        /\ stage = "step" /\ Track /\ CountAdmissions
        /\ stage' = IF pc' # "idle" THEN "step"
                    ELSE IF report' # "none" THEN "raised"
                    ELSE IF phase = "warm-up" THEN "loop" ELSE "observe"
    BY DEF Turn
  <1>2. num_computed' \in [Seqs -> Nat]
    BY DEF EngineKept, KVInv, Inv, TypeOK
  <1>3. num_cached' \in [Seqs -> Nat]
    BY <1>1, <1>2 DEF CountAdmissions, DriverShape
  <1>4. tracker' \in Seq(TrackerStates) /\ Len(tracker') = Len(tracker)
    <2>1. tracker \in Seq(TrackerStates)
      BY DEF DriverShape
    <2>2. \A i \in DOMAIN tracker : tracker'[i] \in TrackerStates
      <3> SUFFICES ASSUME NEW i \in DOMAIN tracker
                   PROVE  tracker'[i] \in TrackerStates
        OBVIOUS
      <3>1. tracker[i] \in TrackerStates
        BY <2>1
      <3>2. tracker'[i] \in {tracker[i], "dropped", "complete", "first token"}
        BY <1>1 DEF Track
      <3> QED
        BY <3>1, <3>2 DEF TrackerStates
    <2>3. tracker' = [i \in DOMAIN tracker |-> tracker'[i]]
      BY <1>1, Zenon DEF Track
    <2>4. tracker' \in [DOMAIN tracker -> TrackerStates]
      BY <2>2, <2>3
    <2>5. DOMAIN tracker = 1 .. Len(tracker) /\ Len(tracker) \in Nat
      BY <2>1
    <2>6. tracker' \in [1 .. Len(tracker) -> TrackerStates]
      BY <2>4, <2>5
    <2> QED
      BY <2>5, <2>6
  <1>5. phase' = "warm-up" => records' = <<>> /\ stage' \in {"loop", "step", "raised"}
    BY <1>1 DEF DriverShape
  <1>6. /\ stage' \in {"loop", "step", "observe", "forget", "done", "raised"}
        /\ stage' = "step" <=> pc' # "idle"
    BY <1>1
  <1> QED
    BY <1>1, <1>3, <1>4, <1>5, <1>6 DEF DriverShape

LEMMA ShapeStep ==
    ASSUME EngineKept, EngineKept', DriverShape, [HarnessNext]_harnessVars
    PROVE  DriverShape'
  <1>1. TypeOK
    BY DEF EngineKept, KVInv, Inv
  <1>2. CASE UNCHANGED harnessVars
    BY <1>2 DEF harnessVars, driverVars, telemetryVars, engineVars, stepVars, DriverShape
  <1>3. CASE Turn
    BY <1>3, TurnShape
  <1>4. CASE WarmUp
    BY <1>4 DEF WarmUp, Add, Arrive, stepVars, DriverShape
  <1>5. CASE GenerateStep \/ MeasuredStep
    BY <1>5 DEF GenerateStep, MeasuredStep, CallStep, StartStep, EnterPrefill, EnterDecode,
                telemetryVars, DriverShape
  <1>6. ASSUME NEW s \in Seqs, Collect(s)
        PROVE  DriverShape'
    BY <1>6 DEF Collect, Drop, driverVars, telemetryVars, stepVars, DriverShape
  <1>7. CASE StartMeasurement
    BY <1>7 DEF StartMeasurement, stepVars, DriverShape
  <1>8. CASE Send
    <2>1. PICK s \in Seqs :
              /\ Add(s, Workload[next_request + 1])
              /\ records' = Append(records, [id |-> s, state |-> "active", cached |-> 0,
                                             tokens |-> 0])
      BY <1>8 DEF Send
    <2>2. [id |-> s, state |-> "active", cached |-> 0, tokens |-> 0] \in Records
      BY DEF Records
    <2>3. "enqueued" \in TrackerStates
      BY DEF TrackerStates
    <2>4. /\ tracker' = Append(tracker, "enqueued") /\ phase' = phase /\ stage' = stage
          /\ phase = "measured" /\ stage = "loop" /\ next_request' = next_request + 1
          /\ num_cached' = [num_cached EXCEPT ![s] = 0] /\ pc' = pc
      BY <1>8, <2>1 DEF Send, Add, Arrive, stepVars
    <2>5. records' \in Seq(Records) /\ Len(records') = Len(records) + 1
      BY <2>1, <2>2 DEF DriverShape
    <2>6. tracker' \in Seq(TrackerStates) /\ Len(tracker') = Len(tracker) + 1
      BY <2>3, <2>4 DEF DriverShape
    <2> QED
      BY <2>4, <2>5, <2>6 DEF DriverShape
  <1>9. CASE Observe
    <2>1. /\ stage = "observe" /\ stage' = "forget"
          /\ records' = [i \in DOMAIN records |->
                            IF i \in Active THEN Look(records[i]) ELSE records[i]]
          /\ UNCHANGED <<engineVars, phase, next_request, telemetryVars>>
      BY <1>9 DEF Observe
    <2>2. \A i \in DOMAIN records :
              (IF i \in Active THEN Look(records[i]) ELSE records[i]) \in Records
      <3> SUFFICES ASSUME NEW i \in DOMAIN records
                   PROVE  (IF i \in Active THEN Look(records[i]) ELSE records[i]) \in Records
        OBVIOUS
      <3>1. records[i] \in Records /\ num_cached \in [Seqs -> Nat]
        BY DEF DriverShape
      <3>2. Look(records[i]) \in Records
        BY <1>1, <3>1, LookAt
      <3> QED
        BY <3>1, <3>2
    <2>3. records \in Seq(Records)
      BY DEF DriverShape
    <2>4. records' \in Seq(Records) /\ Len(records') = Len(records)
      BY <2>1, <2>2, <2>3
    <2> QED
      BY <2>1, <2>4 DEF engineVars, stepVars, telemetryVars, DriverShape
  <1>10. CASE ForgetFinished
    <2>1. CASE ToForget = {}
      BY <1>10, <2>1 DEF ForgetFinished, ToForget, engineVars, stepVars, telemetryVars, DriverShape
    <2>2. CASE ToForget # {}
      <3> DEFINE i == Min(ToForget)
      <3>1. /\ Drop(records[i].id) /\ stage = "forget" /\ stage' = stage
            /\ records' = [records EXCEPT ![i].state = "completed"]
            /\ UNCHANGED <<phase, next_request, telemetryVars>>
        BY <1>10, <2>2 DEF ForgetFinished, ToForget
      <3>2. i \in DOMAIN records
        BY <2>2, FirstToForget DEF ToForget
      <3> HIDE DEF i
      <3>3. records \in Seq(Records) /\ records[i] \in Records
        BY <3>2 DEF DriverShape
      <3>4. [records[i] EXCEPT !.state = "completed"] \in Records
        BY <3>3 DEF Records
      <3>5. records' = [records EXCEPT ![i] = [records[i] EXCEPT !.state = "completed"]]
        BY <3>1
      <3>6. records' \in Seq(Records) /\ Len(records') = Len(records)
        BY <3>2, <3>3, <3>4, <3>5
      <3> QED
        BY <3>1, <3>6 DEF Drop, stepVars, telemetryVars, DriverShape
    <2> QED
      BY <2>1, <2>2
  <1>11. CASE Finish \/ Tick
    BY <1>11 DEF Finish, Tick, engineVars, stepVars, telemetryVars, DriverShape
  <1> QED
    BY <1>2, <1>3, <1>4, <1>5, <1>6, <1>7, <1>8, <1>9, <1>10, <1>11 DEF HarnessNext, Driver

-----------------------------------------------------------------------------
(* What a turn of a step that has not raised does to the requests.         *)

\* The runner's part in it, for one request.
ScheduleTurn(s) ==
    /\ pc \in {"prefill", "decode"}
    /\ \/ \E chunk \in Int : Admit(s, chunk)
       \/ \E chunk \in Int : SchedulePrefill(s, chunk)
       \/ \E n \in Int : ScheduleDecode(s, n)

ModelTurn(s) ==
    /\ pc = "model"
    /\ (\E drafts \in Drafts : Forward(s, drafts)) \/ Commit(s) \/ CommitSpeculative(s)

PostTurn(s) ==
    /\ pc = "post" /\ batch # <<>> /\ s = Head(batch)
    /\ \E finish \in BOOLEAN : Postprocess(s, finish)

RunnerTurn(s) == pc' = pc /\ (ScheduleTurn(s) \/ ModelTurn(s) \/ PostTurn(s))

LEMMA TurnActs ==
    ASSUME EngineKept, Step \/ ModelError, pc # "idle", pc # "raise"
    PROVE  UNCHANGED vars \/ \E s \in Seqs : RunnerTurn(s)
  <1>1. ASSUME NEW s \in Seqs, NEW chunk, Admit(s, chunk)
        PROVE  chunk \in Int
    <2>1. Inv
      BY DEF EngineKept, KVInv
    <2>2. prompt_len[s] \in Nat /\ chunk \in 0 .. prompt_len[s]
      BY <1>1, <2>1, AdmitChunk, Counts DEF Inv
    <2> QED
      BY <2>2
  <1>2. ASSUME NEW s \in Seqs, NEW chunk, SchedulePrefill(s, chunk)
        PROVE  chunk \in Int
    BY <1>2 DEF SchedulePrefill
  <1>3. ASSUME NEW s \in Seqs, NEW n, ScheduleDecode(s, n)
        PROVE  n \in Int
    <2>1. Inv
      BY DEF EngineKept, KVInv
    <2> QED
      BY <1>3, <2>1, ScheduleDecodeEffect
  <1>4. CASE EndPrefill \/ EndDecode \/ NextGroup \/ EndRun \/ EndStep \/ ModelError
    BY <1>4 DEF EndPrefill, EndDecode, NextGroup, EndRun, EndStep, ModelError
  <1>5. ASSUME NEW s \in Seqs, AdmitPrompt(s) \/ PrefillChunk(s)
        PROVE  UNCHANGED vars \/ RunnerTurn(s)
    <2>1. \/ UNCHANGED vars
          \/ /\ pc = "prefill" /\ pc' = pc
             /\ (\E chunk : Admit(s, chunk)) \/ (\E chunk : SchedulePrefill(s, chunk))
      BY <1>5 DEF AdmitPrompt, PrefillChunk, PrefillTurn, Take, Pass
    <2> QED
      BY <1>1, <1>2, <2>1 DEF RunnerTurn, ScheduleTurn
  <1>6. ASSUME NEW s \in Seqs, DecodeTurn(s)
        PROVE  UNCHANGED vars \/ RunnerTurn(s)
    <2>1. UNCHANGED vars \/ (pc = "decode" /\ pc' = pc /\ \E n : ScheduleDecode(s, n))
      BY <1>6 DEF DecodeTurn, Take
    <2> QED
      BY <1>3, <2>1 DEF RunnerTurn, ScheduleTurn
  <1>7. ASSUME NEW s \in Seqs,
               (\E drafts \in Drafts : RunForward(s, drafts)) \/ RunCommit(s)
        PROVE  RunnerTurn(s)
    BY <1>7 DEF RunForward, RunCommit, stepVars, RunnerTurn, ModelTurn
  <1>8. ASSUME NEW s \in Seqs, NEW finish \in BOOLEAN, PostItem(s, finish)
        PROVE  RunnerTurn(s)
    BY <1>8 DEF PostItem, RunnerTurn, PostTurn
  <1>9. ~ StartStep /\ \A s \in Seqs, torn \in BOOLEAN : ~ FailItem(s, torn)
    BY DEF StartStep, FailItem
  <1> QED
    BY <1>4, <1>5, <1>6, <1>7, <1>8, <1>9 DEF Step

\* Its text only grows; it gets to the end of its work, or of its life, only when
\* the head of the batch is post-processed.
TurnOf(r) ==
    /\ prompt_len'[r] = prompt_len[r]
    /\ num_generated(r) <= num_generated(r)'
    /\ status'[r] = "NEW" <=> status[r] = "NEW"
    /\ \/ /\ status'[r] = status[r]
          /\ work'[r] = "idle" => work[r] = "idle" /\ num_generated(r)' = num_generated(r)
       \/ /\ pc = "post" /\ batch # <<>> /\ r = Head(batch) /\ status[r] = "ACTIVE"
          /\ num_generated(r)' = num_generated(r)

LEMMA SameTurn ==
    ASSUME EngineKept, NEW r \in Seqs, Alike(r)
    PROVE  TurnOf(r)
  <1>1. num_generated(r) \in Nat
    BY Counts DEF EngineKept, KVInv, Inv
  <1>2. num_generated(r)' = num_generated(r)
    BY DEF Alike, num_generated
  <1> QED
    BY <1>1, <1>2 DEF Alike, TurnOf

LEMMA TurnEffect ==
    ASSUME EngineKept, Step \/ ModelError, pc # "idle", pc # "raise", NEW r \in Seqs
    PROVE  TurnOf(r)
  <1>1. Inv /\ num_generated(r) \in Nat
    BY Counts DEF EngineKept, KVInv, Inv
  <1>2. CASE UNCHANGED vars
    <2>1. Alike(r)
      BY <1>2 DEF vars, bmVars, reqVars, runVars, Alike
    <2> QED
      BY <2>1, SameTurn
  <1>3. ASSUME NEW s \in Seqs, RunnerTurn(s)
        PROVE  TurnOf(r)
    <2>1. ASSUME AlikeBut(s), r # s
          PROVE  TurnOf(r)
      BY <2>1, SameTurn DEF AlikeBut
    <2>2. ASSUME status'[s] = status[s], token_ids' = token_ids, prompt_len' = prompt_len,
                 work'[s] = "idle" => work[s] = "idle", r = s
          PROVE  TurnOf(r)
      <3>1. num_generated(r)' = num_generated(r)
        BY <2>2 DEF num_generated
      <3> QED
        BY <1>1, <2>2, <3>1 DEF TurnOf
    <2>3. CASE ScheduleTurn(s)
      <3>1. CASE \E chunk \in Int : Admit(s, chunk)
        <4>1. AlikeBut(s) /\ UNCHANGED <<status, token_ids, prompt_len>> /\ work[s] = "idle"
          BY <1>1, <3>1, AdmitEffect
        <4> QED
          BY <2>1, <2>2, <4>1
      <3>2. CASE \E chunk \in Int : SchedulePrefill(s, chunk)
        <4>1. AlikeBut(s) /\ UNCHANGED <<status, token_ids, prompt_len>> /\ work[s] = "idle"
          BY <1>1, <3>2, SchedulePrefillEffect
        <4> QED
          BY <2>1, <2>2, <4>1
      <3>3. CASE \E n \in Int : ScheduleDecode(s, n)
        <4>1. AlikeBut(s) /\ UNCHANGED <<status, token_ids, prompt_len>> /\ work[s] = "idle"
          BY <1>1, <3>3, ScheduleDecodeEffect
        <4> QED
          BY <2>1, <2>2, <4>1
      <3> QED
        BY <2>3, <3>1, <3>2, <3>3 DEF ScheduleTurn
    <2>4. CASE ModelTurn(s)
      <3>1. CASE \E drafts \in Drafts : Forward(s, drafts)
        <4>1. /\ AlikeBut(s) /\ UNCHANGED <<status, token_ids, prompt_len>>
              /\ work'[s] = "forwarded"
          BY <1>1, <3>1, ForwardEffect
        <4> QED
          BY <2>1, <2>2, <4>1
      <3>2. CASE Commit(s) \/ CommitSpeculative(s)
        <4>1. /\ AlikeBut(s) /\ UNCHANGED <<status, prompt_len>> /\ work'[s] = "done"
              /\ num_generated(s) <= num_generated(s)'
          BY <1>1, <3>2, CommitEffect
        <4>2. TurnOf(s)
          BY <4>1 DEF TurnOf
        <4> QED
          BY <2>1, <4>1, <4>2
      <3> QED
        BY <2>4, <3>1, <3>2 DEF ModelTurn
    <2>5. CASE PostTurn(s)
      <3>1. PICK finish \in BOOLEAN : Postprocess(s, finish)
        BY <2>5 DEF PostTurn
      <3>2. /\ AlikeBut(s) /\ UNCHANGED <<token_ids, prompt_len>>
            /\ status[s] = "ACTIVE" /\ status'[s] # "NEW"
        BY <1>1, <3>1, PostprocessEffect
      <3>3. num_generated(s)' = num_generated(s)
        BY <3>2 DEF num_generated
      <3>4. r = s => TurnOf(r)
        BY <1>1, <2>5, <3>2, <3>3 DEF TurnOf, PostTurn
      <3> QED
        BY <2>1, <3>2, <3>4
    <2> QED
      BY <1>3, <2>3, <2>4, <2>5 DEF RunnerTurn
  <1> QED
    BY <1>2, <1>3, TurnActs

-----------------------------------------------------------------------------
(* The records.                                                            *)

\* A turn makes no request known and none unknown.
LEMMA TurnKnows ==
    ASSUME EngineKept, Turn, NEW r \in Seqs
    PROVE  status'[r] = "NEW" <=> status[r] = "NEW"
  <1>1. (Step \/ ModelError) /\ pc # "idle"
    BY DEF Turn
  <1>2. CASE pc # "raise"
    BY <1>1, <1>2, TurnEffect DEF TurnOf
  <1>3. CASE pc = "raise"
    <2>1. UNCHANGED vars \/ \E s \in Seqs : \E torn \in BOOLEAN : Fail(s, torn)
      BY <1>1, <1>3
      DEF Step, StartStep, EndPrefill, EndDecode, NextGroup, EndRun, EndStep, ModelError,
          AdmitPrompt, PrefillChunk, PrefillTurn, DecodeTurn, RunForward, RunCommit, PostItem,
          FailItem, Handle
    <2>2. CASE UNCHANGED vars
      BY <2>2 DEF vars, reqVars
    <2>3. ASSUME NEW s \in Seqs, NEW torn \in BOOLEAN, Fail(s, torn)
          PROVE  status'[r] = "NEW" <=> status[r] = "NEW"
      <3>1. Inv
        BY DEF EngineKept, KVInv
      <3>2. AlikeBut(s) /\ status'[s] = "FINISHED"
        BY <2>3, <3>1, EndEffect
      <3>3. status[s] = "ACTIVE"
        BY <2>3, <3>1 DEF Fail, Inv, Accounting
      <3> QED
        BY <3>2, <3>3 DEF AlikeBut, Alike
    <2> QED
      BY <2>1, <2>2, <2>3
  <1> QED
    BY <1>2, <1>3

\* A turn that ends well began well, and leaves the last loop only with the step.
LEMMA SoundTurn ==
    ASSUME EngineKept, Turn, Sound'
    PROVE  /\ Sound /\ stage = "step" /\ pc # "idle" /\ pc # "raise"
           /\ Step \/ ModelError
           /\ pc = "post" => pc' = "post" \/ pc' = "idle"
           /\ pc' = "idle" => stage' = IF phase = "warm-up" THEN "loop" ELSE "observe"
           /\ pc' # "idle" => stage' = "step"
  <1>1. /\ stage = "step" /\ pc # "idle" /\ (Step \/ ModelError)
        /\ stage' = IF pc' # "idle" THEN "step"
                    ELSE IF report' # "none" THEN "raised"
                    ELSE IF phase = "warm-up" THEN "loop" ELSE "observe"
    BY DEF Turn
  <1>2. pc # "raise"
    <2> SUFFICES ASSUME pc = "raise"
                 PROVE  FALSE
      OBVIOUS
    <2>1. EndStep \/ \E s \in Seqs : \E torn \in BOOLEAN : FailItem(s, torn)
      BY <1>1
      DEF Step, StartStep, EndPrefill, EndDecode, NextGroup, EndRun, ModelError, AdmitPrompt,
          PrefillChunk, PrefillTurn, DecodeTurn, RunForward, RunCommit, PostItem
    <2>2. CASE EndStep
      BY <1>1, <2>2 DEF EndStep, Sound
    <2>3. CASE \E s \in Seqs : \E torn \in BOOLEAN : FailItem(s, torn)
      BY <2>3 DEF FailItem, Sound
    <2> QED
      BY <2>1, <2>2, <2>3
  <1>3. pc = "post" => pc' = "post" \/ pc' = "idle"
    <2> SUFFICES ASSUME pc = "post"
                 PROVE  pc' = "post" \/ pc' = "idle"
      OBVIOUS
    <2>1. EndStep \/ \E s \in Seqs : \E finish \in BOOLEAN : PostItem(s, finish)
      BY <1>1
      DEF Step, StartStep, EndPrefill, EndDecode, NextGroup, EndRun, ModelError, AdmitPrompt,
          PrefillChunk, PrefillTurn, DecodeTurn, RunForward, RunCommit, FailItem
    <2> QED
      BY <2>1 DEF EndStep, PostItem
  <1> QED
    BY <1>1, <1>2, <1>3 DEF Sound

\* Each live record is one of a request.
LEMMA RecordOf ==
    ASSUME DriverShape, NEW i \in DOMAIN records
    PROVE  /\ records[i] \in Records
           /\ records[i].id \in Seqs
           /\ records[i].cached \in Nat /\ records[i].tokens \in Nat
           /\ records[i].state \in {"active", "finished", "completed"}
           /\ phase = "measured"
           /\ i \in DOMAIN tracker
           /\ tracker[i] \in TrackerStates
  <1>1. records[i] \in Records /\ i \in DOMAIN tracker /\ tracker[i] \in TrackerStates
    BY DEF DriverShape
  <1>2. records # <<>>
    OBVIOUS
  <1> QED
    BY <1>1, <1>2 DEF Records, DriverShape

LEMMA TurnOneRecord ==
    ASSUME EngineKept, DriverShape, OneRecordEach, Turn
    PROVE  OneRecordEach'
  <1>1. UNCHANGED <<phase, records>>
    BY DEF Turn
  <1>2. {s \in Seqs : status[s] # "NEW"}' = {s \in Seqs : status[s] # "NEW"}
    BY TurnKnows
  <1> QED
    BY <1>1, <1>2 DEF OneRecordEach, Live

\* What record and tracker say of a request after a turn is what it did.
LEMMA TurnTells ==
    ASSUME EngineKept, EngineKept', DriverShape, Turn, Sound', RecordsTell,
           NEW i \in DOMAIN records, records[i].state = "active"
    PROVE  TellsActive(i)'
  <1>1. PICK s \in Seqs : s = records[i].id
    BY RecordOf
  <1>2. /\ records[i].tokens \in Nat /\ phase = "measured"
        /\ i \in DOMAIN tracker /\ i \in Active
    BY RecordOf DEF Active
  <1>3. /\ Sound /\ stage = "step" /\ pc # "idle" /\ pc # "raise"
        /\ Step \/ ModelError
        /\ pc = "post" => pc' = "post" \/ pc' = "idle"
        /\ pc' = "idle" => stage' = IF phase = "warm-up" THEN "loop" ELSE "observe"
        /\ pc' # "idle" => stage' = "step"
    BY SoundTurn
  <1>4. records' = records /\ Track
    BY DEF Turn
  <1>5. TellsActive(i)
    BY <1>3 DEF RecordsTell
  <1>6. TurnOf(s)
    BY <1>3, TurnEffect
  <1>7. num_generated(s) \in Nat /\ num_generated(s)' \in Nat
    <2>1. (\A r \in Seqs : num_generated(r) \in Nat)'
      BY Generated, PTL
    <2> QED
      BY <2>1, Generated
  <1>8. PICK g \in Nat : g = num_generated(s)
    BY <1>7
  <1>9. PICK gNext \in Nat : gNext = num_generated(s)'
    BY <1>7
  <1> DEFINE posted == pc = "post" /\ batch # <<>> /\ s = Head(batch)
  <1>10. /\ ~ posted => tracker'[i] = tracker[i]
         /\ posted => tracker'[i] = IF status'[s] = "FINISHED" THEN "complete"
                                    ELSE IF g > 0 THEN "first token"
                                    ELSE tracker[i]
    BY <1>1, <1>2, <1>3, <1>4, <1>8 DEF Track
  <1>11. posted => (status'[s] = "FINISHED" <=> g >= MaxTokens)
    BY <1>8 DEF Turn
  <1>12. g <= MaxTokens /\ gNext <= MaxTokens /\ MaxTokens \in Nat
    <2>1. (\A r \in Seqs : num_generated(r) <= MaxTokens)'
      BY Generated, PTL
    <2> QED
      BY <1>8, <1>9, <2>1, Generated, MaxTokensAssumption
  <1>13. /\ g <= gNext
         /\ \/ status'[s] = status[s] /\ (work'[s] = "idle" => work[s] = "idle" /\ gNext = g)
            \/ posted /\ status[s] = "ACTIVE" /\ gNext = g
    BY <1>6, <1>8, <1>9 DEF TurnOf
  <1>14. /\ records[i].tokens <= g
         /\ tracker[i] = "first token" => g > 0
         /\ status[s] = "FINISHED" => pc = "post" /\ tracker[i] = "complete" /\ g = MaxTokens
         /\ status[s] # "FINISHED" =>
              /\ tracker[i] \in {"enqueued", "first token"}
              /\ work[s] = "idle" /\ g > 0 => tracker[i] = "first token"
    BY <1>1, <1>3, <1>5, <1>8 DEF TellsActive
  <1>15. /\ stage' = "step" \/ stage' = "observe"
         /\ pc = "post" => pc' = "post" \/ stage' = "observe"
    BY <1>2, <1>3
  <1>16. posted => pc = "post"
    OBVIOUS
  <1>17. records[i].tokens <= gNext
    <2>1. records[i].tokens \in Nat /\ records[i].tokens <= g
      BY <1>2, <1>14
    <2>2. g \in Nat /\ gNext \in Nat /\ g <= gNext
      BY <1>13
    <2> QED
      BY <2>1, <2>2
  <1>18. tracker'[i] = "first token" => gNext > 0
    <2>1. g \in Nat /\ gNext \in Nat /\ g <= gNext
      BY <1>13
    <2>2. g > 0 => gNext > 0
      BY <2>1
    <2>3. tracker[i] = "first token" => g > 0
      BY <1>14
    <2>4. tracker'[i] = "first token" => g > 0
      BY <1>10, <2>3
    <2> QED
      BY <2>2, <2>4
  <1>19. status'[s] = "FINISHED" =>
            /\ pc' = "post" \/ stage' = "observe"
            /\ tracker'[i] = "complete" /\ gNext = MaxTokens
    <2> SUFFICES ASSUME status'[s] = "FINISHED"
                 PROVE  /\ pc' = "post" \/ stage' = "observe"
                        /\ tracker'[i] = "complete" /\ gNext = MaxTokens
      OBVIOUS
    <2>1. CASE posted
      <3>1. g = MaxTokens
        BY <1>11, <1>12, <2>1
      <3>2. gNext = MaxTokens
        BY <1>12, <1>13, <3>1
      <3> QED
        BY <1>10, <1>15, <1>16, <2>1, <3>1, <3>2
    <2>2. CASE ~ posted
      <3>1. pc = "post" /\ tracker[i] = "complete" /\ g = MaxTokens
        BY <1>13, <1>14, <2>2
      <3>2. gNext = MaxTokens
        BY <1>12, <1>13, <3>1
      <3> QED
        BY <1>10, <1>15, <2>2, <3>1, <3>2
    <2> QED
      BY <2>1, <2>2
  <1>20. status'[s] # "FINISHED" =>
            /\ tracker'[i] \in {"enqueued", "first token"}
            /\ work'[s] = "idle" /\ gNext > 0 => tracker'[i] = "first token"
    BY <1>10, <1>13, <1>14
  <1>21. records'[i].id = s /\ gNext = num_generated(s)' /\ stage' \notin {"loop", "forget", "done"}
    BY <1>1, <1>4, <1>9, <1>15
  <1> QED
    BY <1>4, <1>17, <1>18, <1>19, <1>20, <1>21 DEF TellsActive

\* A record of a request that a step leaves alone goes on telling of it, where
\* the driver may find it.
LEMMA StillTells ==
    ASSUME NEW i, NEW s, s = records[i].id, records'[i] = records[i], tracker'[i] = tracker[i],
           Alike(s), TellsActive(i),
           status[s] = "FINISHED" => pc' = "post" \/ stage' = "observe",
           stage' \in {"loop", "forget", "done"} => records[i].tokens = num_generated(s)
    PROVE  TellsActive(i)'
  <1>1. /\ status'[s] = status[s] /\ work'[s] = work[s] /\ records'[i].id = s
        /\ token_ids'[s] = token_ids[s] /\ prompt_len'[s] = prompt_len[s]
    BY DEF Alike
  <1> QED
    BY <1>1 DEF TellsActive, num_generated

\* Between two steps nobody has finished but those that are still to be looked at.
LEMMA Between ==
    ASSUME DriverShape, RecordsTell, stage \in {"loop", "forget"}, NEW i \in DOMAIN records
    PROVE  /\ Sound /\ pc = "idle"
           /\ records[i].state = "active" =>
                /\ TellsActive(i) /\ status[records[i].id] # "FINISHED"
                /\ records[i].tokens = num_generated(records[i].id)
           /\ records[i].state # "active" => TellsEnded(i)
  <1>1. Sound /\ pc = "idle"
    BY DEF DriverShape, Sound
  <1> QED
    BY <1>1 DEF RecordsTell, TellsActive

LEMMA LoopTells ==
    ASSUME DriverShape, RecordsTell, stage = "loop", phase = "measured", OneRecordEach,
           UNCHANGED <<records, tracker, phase, vars>>,
           stage' \in {"loop", "step", "done"}
    PROVE  OneRecordEach' /\ RecordsTell'
  <1>1. UNCHANGED status /\ \A r \in Seqs : Alike(r)
    BY DEF vars, bmVars, reqVars, runVars, Alike
  <1>2. OneRecordEach'
    BY <1>1 DEF OneRecordEach, Live
  <1>3. ASSUME NEW i \in DOMAIN records, records[i].state = "active"
        PROVE  TellsActive(i)'
    <2>1. PICK s \in Seqs : s = records[i].id
      BY RecordOf
    <2>2. /\ TellsActive(i) /\ status[s] # "FINISHED"
          /\ records[i].tokens = num_generated(s)
      BY <1>3, <2>1, Between
    <2> QED
      BY <1>1, <2>1, <2>2, StillTells
  <1>4. ASSUME NEW i \in DOMAIN records, records[i].state # "active"
        PROVE  TellsEnded(i)'
    <2>1. TellsEnded(i)
      BY <1>4, Between
    <2> QED
      BY <1>1, <2>1 DEF TellsEnded
  <1> QED
    BY <1>2, <1>3, <1>4 DEF RecordsTell

LEMMA SendTells ==
    ASSUME EngineKept, DriverShape, RecordsTell, OneRecordEach, Send
    PROVE  OneRecordEach' /\ RecordsTell'
  <1> DEFINE n == Len(records)
  <1>1. PICK s \in Seqs :
            /\ Add(s, Workload[next_request + 1])
            /\ records' = Append(records, [id |-> s, state |-> "active", cached |-> 0,
                                           tokens |-> 0])
    BY DEF Send
  <1>2. /\ phase = "measured" /\ stage = "loop" /\ phase' = phase /\ stage' = stage
        /\ tracker' = Append(tracker, "enqueued")
        /\ AddRequest(s)
    BY <1>1 DEF Send, Add, Arrive
  <1>3. records \in Seq(Records) /\ tracker \in Seq(TrackerStates) /\ Len(tracker) = n /\ n \in Nat
    BY DEF DriverShape
  <1>4. /\ DOMAIN records = 1 .. n /\ DOMAIN records' = 1 .. n + 1
        /\ records'[n + 1] = [id |-> s, state |-> "active", cached |-> 0, tokens |-> 0]
        /\ \A i \in 1 .. n : records'[i] = records[i]
        /\ tracker'[n + 1] = "enqueued"
        /\ \A i \in 1 .. n : tracker'[i] = tracker[i]
    BY <1>1, <1>2, <1>3
  <1> HIDE DEF n
  <1>5. /\ AlikeBut(s)
        /\ status[s] = "NEW" /\ status'[s] = "ACTIVE" /\ work'[s] = "idle"
        /\ token_ids'[s] \in Prompts /\ prompt_len'[s] = Len(token_ids'[s])
    BY <1>2, AddRequestEffect DEF EngineKept, KVInv
  <1>6. num_generated(s)' = 0
    BY <1>5, PromptsAssumption DEF num_generated
  <1>7. \A i \in Live : records[i].id \in Seqs \ {s}
    BY <1>2, <1>5 DEF OneRecordEach
  <1>8. Live' = Live \union {n + 1} /\ n + 1 \notin Live
    BY <1>3, <1>4 DEF Live
  <1>9. OneRecordEach'
    <2>1. \A i, j \in Live' : records'[i].id = records'[j].id => i = j
      <3> SUFFICES ASSUME NEW i \in Live', NEW j \in Live', records'[i].id = records'[j].id
                   PROVE  i = j
        OBVIOUS
      <3>1. \A k \in Live : k \in 1 .. n /\ records'[k] = records[k]
        BY <1>4 DEF Live
      <3>2. records'[n + 1].id = s
        BY <1>4
      <3>3. CASE i \in Live /\ j \in Live
        BY <1>2, <3>1, <3>3 DEF OneRecordEach
      <3>4. CASE i = n + 1 \/ j = n + 1
        BY <1>7, <1>8, <3>1, <3>2, <3>4
      <3> QED
        BY <1>8, <3>3, <3>4
    <2>2. ASSUME NEW r \in Seqs
          PROVE  (\E i \in Live' : records'[i].id = r) <=> status'[r] # "NEW"
      <3>1. (\E i \in Live : records[i].id = r) <=> status[r] # "NEW"
        BY <1>2 DEF OneRecordEach
      <3>2. (\E i \in Live' : records'[i].id = r) <=> r = s \/ \E i \in Live : records[i].id = r
        BY <1>4, <1>8 DEF Live
      <3>3. r # s => status'[r] = status[r]
        BY <1>5 DEF AlikeBut, Alike
      <3> QED
        BY <1>5, <3>1, <3>2, <3>3
    <2>3. \A i \in Live' : records'[i].id \in Seqs
      BY <1>4, <1>7, <1>8 DEF Live
    <2> QED
      BY <2>1, <2>2, <2>3 DEF OneRecordEach
  <1>10. ASSUME NEW i \in DOMAIN records', records'[i].state = "active"
         PROVE  TellsActive(i)'
    <2>1. CASE i \in DOMAIN records
      <3>1. records'[i] = records[i] /\ tracker'[i] = tracker[i] /\ records[i].state = "active"
        BY <1>4, <1>10, <2>1
      <3>2. i \in Live
        BY <2>1, <3>1 DEF Live
      <3>3. PICK r \in Seqs \ {s} : r = records[i].id
        BY <1>7, <3>2
      <3>4. /\ TellsActive(i) /\ status[r] # "FINISHED"
            /\ records[i].tokens = num_generated(r)
        BY <1>2, <2>1, <3>1, <3>3, Between
      <3>5. Alike(r)
        BY <1>5 DEF AlikeBut
      <3> QED
        BY <3>1, <3>3, <3>4, <3>5, StillTells
    <2>2. CASE i = n + 1
      <3>1. /\ records'[i].id = s /\ records'[i].tokens = 0 /\ tracker'[i] = "enqueued"
        BY <1>4, <2>2
      <3> QED
        BY <1>5, <1>6, <3>1 DEF TellsActive, num_generated
    <2> QED
      BY <1>3, <1>4, <2>1, <2>2
  <1>11. ASSUME NEW i \in DOMAIN records', records'[i].state # "active"
         PROVE  TellsEnded(i)'
    <2>1. i \in DOMAIN records
      BY <1>3, <1>4, <1>11
    <2>2. records'[i] = records[i] /\ tracker'[i] = tracker[i]
      BY <1>4, <2>1
    <2>3. TellsEnded(i) /\ records[i].state # "finished"
      BY <1>2, <1>11, <2>1, <2>2, Between DEF TellsEnded
    <2> QED
      BY <2>2, <2>3 DEF TellsEnded
  <1> QED
    BY <1>9, <1>10, <1>11 DEF RecordsTell

LEMMA ObserveTells ==
    ASSUME EngineKept, DriverShape, RecordsTell, OneRecordEach, Observe
    PROVE  OneRecordEach' /\ RecordsTell'
  <1>1. /\ stage = "observe" /\ stage' = "forget"
        /\ UNCHANGED <<phase, tracker>> /\ UNCHANGED vars
        /\ records' = [i \in DOMAIN records |->
                          IF i \in Active THEN Look(records[i]) ELSE records[i]]
    BY DEF Observe, engineVars, telemetryVars
  <1>2. UNCHANGED <<status, work, token_ids, prompt_len>>
    BY <1>1 DEF vars, bmVars, reqVars, runVars
  <1>3. Sound /\ TypeOK /\ num_cached \in [Seqs -> Nat]
    BY <1>1 DEF Sound, DriverShape, EngineKept, KVInv, Inv
  <1>4. ASSUME NEW i \in DOMAIN records
        PROVE  /\ records'[i].id = records[i].id
               /\ records[i].state # "active" => records'[i] = records[i]
               /\ records[i].state = "active" =>
                    /\ records'[i].tokens = num_generated(records[i].id)
                    /\ records'[i].state =
                         IF status[records[i].id] = "FINISHED" THEN "finished" ELSE "active"
    <2>1. CASE records[i].state = "active"
      <3>1. records'[i] = Look(records[i])
        BY <1>1, <2>1 DEF Active
      <3>2. /\ Look(records[i]).id = records[i].id
            /\ Look(records[i]).tokens = Max({records[i].tokens, num_generated(records[i].id)})
            /\ Look(records[i]).state =
                  IF status[records[i].id] = "FINISHED" THEN "finished" ELSE records[i].state
        BY <1>3, RecordOf, LookAt
      <3>3. records[i].tokens <= num_generated(records[i].id)
        BY <1>3, <2>1 DEF RecordsTell, TellsActive
      <3>4. records[i].tokens \in Nat /\ num_generated(records[i].id) \in Nat
        BY RecordOf, Generated
      <3>5. Max({records[i].tokens, num_generated(records[i].id)}) = num_generated(records[i].id)
        BY <3>3, <3>4, Greater
      <3> QED
        BY <2>1, <3>1, <3>2, <3>5
    <2>2. CASE records[i].state # "active"
      BY <1>1, <2>2 DEF Active
    <2> QED
      BY <2>1, <2>2
  <1>5. DOMAIN records' = DOMAIN records
    BY <1>1
  <1>6. Live' = Live
    BY <1>4, <1>5 DEF Live
  <1>7. OneRecordEach'
    <2>1. \A i \in Live : records'[i].id = records[i].id
      BY <1>4 DEF Live
    <2>2. phase = "measured" => \A i, j \in Live : records'[i].id = records'[j].id => i = j
      BY <2>1 DEF OneRecordEach
    <2>3. {records'[i].id : i \in Live} = {records[i].id : i \in Live}
      BY <2>1
    <2>4. phase = "measured" => {records'[i].id : i \in Live} = {s \in Seqs : status[s] # "NEW"}
      BY <2>3 DEF OneRecordEach
    <2> QED
      BY <1>1, <1>2, <1>6, <2>2, <2>4 DEF OneRecordEach
  <1>8. ASSUME NEW i \in DOMAIN records, records'[i].state = "active"
        PROVE  TellsActive(i)'
    <2>1. PICK s \in Seqs : s = records[i].id
      BY RecordOf
    <2>2. records[i].state = "active" /\ status[s] # "FINISHED"
      BY <1>4, <1>8, <2>1
    <2>3. TellsActive(i)
      BY <1>3, <2>2 DEF RecordsTell
    <2>4. records'[i].id = s /\ records'[i].tokens = num_generated(s)
      BY <1>4, <2>1, <2>2
    <2>5. PICK g \in Nat : g = num_generated(s)
      BY Generated
    <2>6. g = num_generated(s)'
      BY <1>2, <2>5 DEF num_generated
    <2>7. g <= g
      BY <2>5
    <2>8. /\ tracker[i] = "first token" => g > 0
          /\ tracker[i] \in {"enqueued", "first token"}
          /\ work[s] = "idle" /\ g > 0 => tracker[i] = "first token"
      BY <2>1, <2>2, <2>3, <2>5 DEF TellsActive
    <2> QED
      BY <1>1, <1>2, <2>2, <2>4, <2>5, <2>6, <2>7, <2>8 DEF TellsActive
  <1>9. ASSUME NEW i \in DOMAIN records, records'[i].state # "active"
        PROVE  TellsEnded(i)'
    <2>1. CASE records[i].state = "active"
      <3>1. TellsActive(i) /\ status[records[i].id] = "FINISHED"
        BY <1>3, <1>4, <1>9, <2>1 DEF RecordsTell
      <3>2. tracker[i] = "complete" /\ num_generated(records[i].id) = MaxTokens
        BY <3>1 DEF TellsActive
      <3> QED
        BY <1>1, <1>2, <1>4, <2>1, <3>1, <3>2 DEF TellsEnded
    <2>2. CASE records[i].state # "active"
      <3>1. TellsEnded(i)
        BY <1>3, <2>2 DEF RecordsTell
      <3> QED
        BY <1>1, <1>4, <2>2, <3>1 DEF TellsEnded
    <2> QED
      BY <2>1, <2>2
  <1> QED
    BY <1>5, <1>7, <1>8, <1>9 DEF RecordsTell

LEMMA ForgetTells ==
    ASSUME EngineKept, DriverShape, RecordsTell, OneRecordEach, ForgetFinished
    PROVE  OneRecordEach' /\ RecordsTell'
  <1>1. stage = "forget" /\ UNCHANGED <<phase, tracker>>
    BY DEF ForgetFinished, telemetryVars
  <1>2. CASE ToForget = {}
    <2>1. records' = records /\ stage' = "loop" /\ UNCHANGED vars
      BY <1>2 DEF ForgetFinished, ToForget, engineVars
    <2>2. UNCHANGED status /\ \A r \in Seqs : Alike(r)
      BY <2>1 DEF vars, bmVars, reqVars, runVars, Alike
    <2>3. OneRecordEach'
      BY <1>1, <2>1, <2>2 DEF OneRecordEach, Live
    <2>4. ASSUME NEW i \in DOMAIN records, records[i].state = "active"
          PROVE  TellsActive(i)'
      <3>1. PICK s \in Seqs : s = records[i].id
        BY RecordOf
      <3>2. /\ TellsActive(i) /\ status[s] # "FINISHED"
            /\ records[i].tokens = num_generated(s)
        BY <1>1, <2>4, <3>1, Between
      <3> QED
        BY <1>1, <2>1, <2>2, <3>1, <3>2, StillTells
    <2>5. ASSUME NEW i \in DOMAIN records, records[i].state # "active"
          PROVE  TellsEnded(i)'
      <3>1. TellsEnded(i) /\ records[i].state # "finished"
        BY <1>1, <1>2, <2>5, Between DEF ToForget
      <3> QED
        BY <1>1, <2>1, <3>1 DEF TellsEnded
    <2> QED
      BY <2>1, <2>3, <2>4, <2>5 DEF RecordsTell
  <1>3. CASE ToForget # {}
    <2>1. PICK i \in DOMAIN records : i = Min(ToForget)
      BY <1>3, FirstToForget DEF ToForget
    <2>2. records[i].state = "finished"
      BY <1>3, <2>1, FirstToForget DEF ToForget
    <2>3. PICK s \in Seqs : s = records[i].id
      BY RecordOf
    <2>4. /\ Forget(s) /\ stage' = stage
          /\ records' = [records EXCEPT ![i].state = "completed"]
      BY <1>3, <2>1, <2>3 DEF ForgetFinished, ToForget, Drop
    <2>5. /\ AlikeBut(s)
          /\ status[s] = "FINISHED" /\ status'[s] = "NEW"
      BY <2>4, ForgetEffect DEF EngineKept, KVInv
    <2>6. /\ DOMAIN records' = DOMAIN records
          /\ \A j \in DOMAIN records : j # i => records'[j] = records[j]
          /\ records'[i].id = s /\ records'[i].state = "completed"
          /\ records'[i].tokens = records[i].tokens
      <3>1. records[i] \in Records
        BY RecordOf
      <3> QED
        BY <2>3, <2>4, <3>1 DEF Records
    <2>7. Live' = Live \ {i} /\ i \in Live
      BY <2>2, <2>6 DEF Live
    <2>8. phase = "measured"
      BY RecordOf
    <2>9. \A j \in Live \ {i} : records[j].id \in Seqs \ {s}
      <3>1. \A j \in Live : records[j].id \in Seqs
        BY RecordOf DEF Live
      <3> QED
        BY <2>3, <2>7, <2>8, <3>1 DEF OneRecordEach
    <2>10. OneRecordEach'
      <3>1. \A j \in Live \ {i} : records'[j] = records[j]
        BY <2>6 DEF Live
      <3>2. \A j, k \in Live' : records'[j].id = records'[k].id => j = k
        BY <2>7, <2>8, <3>1 DEF OneRecordEach
      <3>3. ASSUME NEW r \in Seqs
            PROVE  (\E j \in Live' : records'[j].id = r) <=> status'[r] # "NEW"
        <4>1. (\E j \in Live : records[j].id = r) <=> status[r] # "NEW"
          BY <2>8 DEF OneRecordEach
        <4>2. r # s => status'[r] = status[r]
          BY <2>5 DEF AlikeBut, Alike
        <4> QED
          BY <2>3, <2>5, <2>7, <2>9, <3>1, <4>1, <4>2
      <3>4. \A j \in Live' : records'[j].id \in Seqs
        BY <2>7, <2>9, <3>1
      <3> QED
        BY <3>2, <3>3, <3>4 DEF OneRecordEach
    <2>11. ASSUME NEW j \in DOMAIN records, records'[j].state = "active"
           PROVE  TellsActive(j)'
      <3>1. j # i /\ records'[j] = records[j] /\ records[j].state = "active"
        BY <2>6, <2>11
      <3>2. j \in Live \ {i}
        BY <3>1 DEF Live
      <3>3. PICK r \in Seqs \ {s} : r = records[j].id
        BY <2>9, <3>2
      <3>4. /\ TellsActive(j) /\ status[r] # "FINISHED"
            /\ records[j].tokens = num_generated(r)
        BY <1>1, <3>1, <3>3, Between
      <3>5. Alike(r)
        BY <2>5 DEF AlikeBut
      <3> QED
        BY <1>1, <3>1, <3>3, <3>4, <3>5, StillTells
    <2>12. ASSUME NEW j \in DOMAIN records, records'[j].state # "active"
           PROVE  TellsEnded(j)'
      <3>1. CASE j = i
        <4>1. TellsEnded(i)
          BY <1>1, <2>2, Between
        <4> QED
          BY <1>1, <2>6, <3>1, <4>1 DEF TellsEnded
      <3>2. CASE j # i
        <4>1. records'[j] = records[j] /\ records[j].state # "active"
          BY <2>6, <2>12, <3>2
        <4>2. TellsEnded(j)
          BY <1>1, <4>1, Between
        <4>3. records[j].state = "finished" => status'[records[j].id] = "FINISHED"
          <5> SUFFICES ASSUME records[j].state = "finished"
                       PROVE  status'[records[j].id] = "FINISHED"
            OBVIOUS
          <5>1. j \in Live \ {i}
            BY <3>2 DEF Live
          <5>2. records[j].id \in Seqs \ {s} /\ status[records[j].id] = "FINISHED"
            BY <2>9, <4>2, <5>1 DEF TellsEnded
          <5> QED
            BY <2>5, <5>2 DEF AlikeBut, Alike
        <4> QED
          BY <1>1, <2>4, <4>1, <4>2, <4>3 DEF TellsEnded
      <3> QED
        BY <3>1, <3>2
    <2> QED
      BY <2>6, <2>10, <2>11, <2>12 DEF RecordsTell
  <1> QED
    BY <1>2, <1>3

\* Before the measurement there are no records, and when it starts no requests.
LEMMA NothingTold ==
    ASSUME records = <<>>
    PROVE  RecordsTell /\ Live = {}
  BY DEF RecordsTell, Live

LEMMA StartTells ==
    ASSUME DriverShape, StartMeasurement
    PROVE  OneRecordEach' /\ RecordsTell'
  <1>1. records' = <<>> /\ \A s \in Seqs : status'[s] = "NEW"
    BY DEF DriverShape, StartMeasurement, reqVars
  <1>2. (records = <<>>)' => (RecordsTell /\ Live = {})'
    BY NothingTold, PTL
  <1> QED
    BY <1>1, <1>2 DEF OneRecordEach

LEMMA WarmUpTells ==
    ASSUME DriverShape, DriverShape', phase' = "warm-up"
    PROVE  OneRecordEach' /\ RecordsTell'
  <1>1. records' = <<>>
    BY DEF DriverShape
  <1>2. (records = <<>>)' => (RecordsTell /\ Live = {})'
    BY NothingTold, PTL
  <1> QED
    BY <1>1, <1>2 DEF OneRecordEach

RecordsInv == EngineKept /\ DriverShape /\ OneRecordEach /\ RecordsTell

LEMMA RecordsInit == HarnessInit => RecordsInv
  <1> SUFFICES ASSUME HarnessInit
               PROVE  RecordsInv
    OBVIOUS
  <1>1. phase = "warm-up" /\ records = <<>>
    BY DEF HarnessInit
  <1> QED
    BY <1>1, KeptInit, ShapeInit, NothingTold DEF OneRecordEach, RecordsInv

LEMMA RecordsStep ==
    ASSUME RecordsInv, [HarnessNext]_harnessVars
    PROVE  RecordsInv'
  <1>1. EngineKept /\ DriverShape /\ OneRecordEach /\ RecordsTell
    BY DEF RecordsInv
  <1>2. EngineKept'
    BY <1>1, HarnessKept
  <1>3. DriverShape'
    BY <1>1, <1>2, ShapeStep
  <1>4. phase' = "warm-up" => OneRecordEach' /\ RecordsTell'
    BY <1>1, <1>3, WarmUpTells
  <1>5. OneRecordEach' /\ RecordsTell'
    <2>1. CASE UNCHANGED harnessVars
      <3>1. UNCHANGED <<phase, stage, records, tracker, pc, status, work, token_ids, prompt_len>>
        BY <2>1 DEF harnessVars, driverVars, telemetryVars, engineVars, stepVars, vars, bmVars,
                    reqVars, runVars
      <3>2. OneRecordEach'
        BY <1>1, <3>1 DEF OneRecordEach, Live
      <3>3. \A i : (TellsActive(i)' <=> TellsActive(i)) /\ (TellsEnded(i)' <=> TellsEnded(i))
        BY <3>1 DEF TellsActive, TellsEnded, num_generated
      <3> QED
        BY <1>1, <3>1, <3>2, <3>3 DEF RecordsTell, Sound
    <2>2. CASE Turn
      <3>1. OneRecordEach'
        BY <1>1, <2>2, TurnOneRecord
      <3>2. records' = records /\ tracker' \in Seq(TrackerStates)
        BY <1>3, <2>2 DEF Turn, DriverShape
      <3>3. ASSUME Sound', NEW i \in DOMAIN records, records[i].state = "active"
            PROVE  TellsActive(i)'
        BY <1>1, <1>2, <2>2, <3>3, TurnTells
      <3>4. ASSUME Sound', NEW i \in DOMAIN records, records[i].state # "active"
            PROVE  TellsEnded(i)'
        <4>1. Sound /\ stage = "step"
          BY <1>1, <2>2, <3>4, SoundTurn
        <4>2. TellsEnded(i) /\ records[i].state # "finished"
          BY <1>1, <3>4, <4>1 DEF RecordsTell, TellsEnded
        <4>3. tracker'[i] = tracker[i]
          <5>1. i \in DOMAIN tracker /\ i \notin Active
            BY <1>1, <3>4, RecordOf DEF Active
          <5> QED
            BY <2>2, <5>1 DEF Turn, Track
        <4> QED
          BY <3>2, <4>2, <4>3 DEF TellsEnded
      <3> QED
        BY <3>1, <3>2, <3>3, <3>4 DEF RecordsTell
    <2>3. CASE WarmUp \/ GenerateStep \/ \E s \in Seqs : Collect(s)
      <3>1. phase' = "warm-up"
        BY <2>3 DEF WarmUp, GenerateStep, CallStep, Collect, driverVars
      <3> QED
        BY <1>4, <3>1
    <2>4. CASE StartMeasurement
      BY <1>1, <2>4, StartTells
    <2>5. CASE Send
      BY <1>1, <2>5, SendTells
    <2>6. CASE MeasuredStep \/ Finish \/ Tick
      <3>1. /\ stage = "loop" /\ phase = "measured"
            /\ UNCHANGED <<records, tracker, phase, vars>>
            /\ stage' \in {"loop", "step", "done"}
        BY <2>6 DEF MeasuredStep, CallStep, StartStep, Finish, Tick, engineVars, telemetryVars
      <3> QED
        BY <1>1, <3>1, LoopTells
    <2>7. CASE Observe
      BY <1>1, <2>7, ObserveTells
    <2>8. CASE ForgetFinished
      BY <1>1, <2>8, ForgetTells
    <2> QED
      BY <2>1, <2>2, <2>3, <2>4, <2>5, <2>6, <2>7, <2>8 DEF HarnessNext, Driver
  <1> QED
    BY <1>2, <1>3, <1>5 DEF RecordsInv

LEMMA RecordsInvariance == HarnessSpec => []RecordsInv
  <1>1. RecordsInv /\ [HarnessNext]_harnessVars => RecordsInv'
    BY RecordsStep
  <1> QED
    BY <1>1, RecordsInit, PTL DEF HarnessSpec

\* A cold start that empties the prefix index between two steps, and everything
\* else the benchmark does, leaves the pages and what requests read as sound as
\* clients do.
THEOREM HarnessKeepsContents ==
    HarnessSpec => [](/\ PoolConsistent /\ PagesReturned
                      /\ NoForeignKV /\ IndexSound /\ ForwardReadsValid /\ NeverRaises)
  <1>1. RecordsInv => /\ PoolConsistent /\ PagesReturned
                      /\ NoForeignKV /\ IndexSound /\ ForwardReadsValid /\ NeverRaises
    <2> SUFFICES ASSUME RecordsInv
                 PROVE  /\ PoolConsistent /\ PagesReturned
                        /\ NoForeignKV /\ IndexSound /\ ForwardReadsValid /\ NeverRaises
      OBVIOUS
    <2>1. KVInv /\ Inv /\ PoolConsistent /\ IndexSound
      BY DEF RecordsInv, EngineKept, KVInv, Inv
    <2>2. NoForeignKV
      BY <2>1, OwnKV DEF NoForeignKV
    <2> QED
      BY <2>1, <2>2, NoPageLost, ContextValid, AllocatorServes
  <1> QED
    BY <1>1, RecordsInvariance, PTL

\* Between steps the driver's records, the engine's requests and the tracker tell
\* the same story, whatever has finished in the step before: no active record
\* without an engine's request at work or in a queue, no tokens unobserved, no
\* completed record short of its output.
THEOREM RecordsAreExact == HarnessSpec => []RecordsExact
  <1>1. RecordsInv => RecordsExact
    <2> SUFFICES ASSUME RecordsInv, BetweenSteps
                 PROVE  /\ {records[i].id : i \in Active} = {s \in Seqs : status[s] # "NEW"}
                        /\ \A i \in Active :
                            /\ records[i].id \in Range(waiting) \union Range(running)
                            /\ records[i].tokens = num_generated(records[i].id)
                            /\ tracker[i] = IF records[i].tokens = 0 THEN "enqueued"
                                            ELSE "first token"
                        /\ \A i \in DOMAIN records \ Active :
                            records[i].tokens = MaxTokens /\ tracker[i] = "complete"
      BY DEF RecordsExact
    <2>1. EngineKept /\ DriverShape /\ OneRecordEach /\ RecordsTell
      BY DEF RecordsInv
    <2>2. phase = "measured" /\ stage \in {"loop", "done"} /\ pc = "idle" /\ Sound
      BY <2>1 DEF BetweenSteps, DriverShape, Sound
    <2>3. \A i \in DOMAIN records \ Active : TellsEnded(i) /\ records[i].state = "completed"
      <3> SUFFICES ASSUME NEW i \in DOMAIN records \ Active
                   PROVE  TellsEnded(i) /\ records[i].state = "completed"
        OBVIOUS
      <3>1. TellsEnded(i) /\ records[i].state # "finished"
        BY <2>1, <2>2 DEF RecordsTell, TellsEnded, Active
      <3>2. records[i].state \in {"active", "finished", "completed"}
        BY <2>1, RecordOf
      <3> QED
        BY <3>1, <3>2 DEF Active
    <2>4. Live = Active
      BY <2>3 DEF Live, Active
    <2>5. {records[i].id : i \in Active} = {s \in Seqs : status[s] # "NEW"}
      BY <2>1, <2>2, <2>4 DEF OneRecordEach
    <2>6. ASSUME NEW i \in Active
          PROVE  /\ records[i].id \in Range(waiting) \union Range(running)
                 /\ records[i].tokens = num_generated(records[i].id)
                 /\ tracker[i] = IF records[i].tokens = 0 THEN "enqueued" ELSE "first token"
      <3>1. i \in DOMAIN records /\ records[i].state = "active"
        BY DEF Active
      <3>2. PICK s \in Seqs : s = records[i].id
        BY <2>1, <3>1, RecordOf
      <3>3. TellsActive(i)
        BY <2>1, <2>2, <3>1 DEF RecordsTell
      <3>4. status[s] = "ACTIVE"
        <4>1. status[s] # "NEW"
          BY <2>5, <3>2
        <4>2. status[s] # "FINISHED"
          BY <2>2, <3>2, <3>3 DEF TellsActive
        <4>3. status[s] \in {"NEW", "ACTIVE", "FINISHED"}
          BY <2>1 DEF EngineKept, KVInv, Inv, TypeOK
        <4> QED
          BY <4>1, <4>2, <4>3
      <3>5. work[s] = "idle"
        <4>1. batch = <<>> /\ BatchAtWork
          BY <2>1, <2>2 DEF EngineKept, SchedulerInv, Turns
        <4>2. s \notin Range(batch)
          BY <4>1 DEF Range
        <4> QED
          BY <4>1, <4>2 DEF BatchAtWork
      <3>6. s \in Range(waiting) \union Range(running)
        <4>1. QueuesExact
          BY <2>1 DEF EngineKept, SchedulerInv
        <4>2. IsPrefilling(s) => s \in Range(waiting)
          BY <3>4, <3>5, <4>1 DEF QueuesExact, FinalChunk
        <4>3. ~ IsPrefilling(s) => s \in Range(running)
          BY <3>4, <4>1 DEF QueuesExact
        <4> QED
          BY <4>2, <4>3
      <3>7. PICK g \in Nat : g = num_generated(s)
        BY <2>1, Generated
      <3>8. /\ records[i].tokens = g
            /\ tracker[i] = "first token" => g > 0
            /\ tracker[i] \in {"enqueued", "first token"}
            /\ g > 0 => tracker[i] = "first token"
        BY <2>2, <3>2, <3>3, <3>4, <3>5, <3>7 DEF TellsActive
      <3>9. (g = 0 /\ ~ (g > 0)) \/ (g # 0 /\ g > 0)
        OBVIOUS
      <3>10. tracker[i] = IF g = 0 THEN "enqueued" ELSE "first token"
        <4>1. CASE g = 0 /\ ~ (g > 0)
          BY <3>8, <4>1
        <4>2. CASE g # 0 /\ g > 0
          BY <3>8, <4>2
        <4> QED
          BY <3>9, <4>1, <4>2
      <3> QED
        BY <3>2, <3>6, <3>7, <3>8, <3>10
    <2> QED
      BY <2>3, <2>5, <2>6 DEF TellsEnded
  <1> QED
    BY <1>1, RecordsInvariance, PTL

-----------------------------------------------------------------------------
(* The counters.                                                           *)

\* An empty prefix index has nothing to reuse.
LEMMA EmptyIndex ==
    ASSUME Inv, NEW s \in Seqs, DOMAIN hash_to_block_id = {}
    PROVE  cached_prefix_tokens(s) = 0
  <1>1. /\ ReusableBlocks(s) \in Nat
        /\ EnablePrefixCaching => \A i \in 1 .. ReusableBlocks(s) : IsReusable(s, i)
    <2>1. BlockManagerTypeOK
      BY DEF Inv, TypeOK
    <2>2. MaxReusable(s) \in Nat
      BY <2>1, BlockCounts
    <2> QED
      BY <2>1, <2>2, ReusableProperties
  <1>2. ReusableBlocks(s) = 0
    <2>1. CASE EnablePrefixCaching
      <3>1. \A i \in 1 .. ReusableBlocks(s) : FALSE
        BY <1>1, <2>1 DEF IsReusable
      <3> QED
        BY <1>1, <3>1
    <2>2. CASE ~ EnablePrefixCaching
      BY <2>2 DEF ReusableBlocks
    <2> QED
      BY <2>1, <2>2
  <1> QED
    BY <1>2, BlockSizeAssumption DEF cached_prefix_tokens

\* What a turn does to the pages: it takes none for a prompt, or for one.  Only
\* the pages of a request that has had some enter the prefix index.
NobodyAdmitted ==
    /\ \A r \in Seqs : block_table[r] = <<>> => block_table'[r] = <<>>
    /\ \A r \in Seqs : HasPages(r)' <=> HasPages(r)
    /\ \/ DOMAIN hash_to_block_id' \subseteq DOMAIN hash_to_block_id
       \/ \E s \in Seqs : status[s] = "ACTIVE" /\ block_table[s] # <<>>

Admission(s) ==
    /\ AlikeBut(s)
    /\ status[s] = "ACTIVE" /\ status'[s] = "ACTIVE"
    /\ block_table[s] = <<>> /\ block_table'[s] # <<>>
    /\ num_computed'[s] = cached_prefix_tokens(s)
    /\ DOMAIN hash_to_block_id' \subseteq DOMAIN hash_to_block_id

LEMMA OthersPages ==
    ASSUME NEW s \in Seqs, AlikeBut(s),
           block_table[s] = <<>> => block_table'[s] = <<>>,
           HasPages(s)' <=> HasPages(s)
    PROVE  /\ \A r \in Seqs : block_table[r] = <<>> => block_table'[r] = <<>>
           /\ \A r \in Seqs : HasPages(r)' <=> HasPages(r)
  BY DEF AlikeBut, Alike, HasPages

LEMMA TurnAdmits ==
    ASSUME EngineKept, Step \/ ModelError, pc # "idle", pc # "raise"
    PROVE  NobodyAdmitted \/ \E s \in Seqs : Admission(s)
  <1>1. Inv
    BY DEF EngineKept, KVInv
  <1>2. CASE UNCHANGED vars
    BY <1>2 DEF vars, bmVars, metaVars, reqVars, NobodyAdmitted, HasPages
  <1>3. ASSUME NEW s \in Seqs, RunnerTurn(s)
        PROVE  NobodyAdmitted \/ Admission(s)
    <2>1. ASSUME NEW chunk \in Int, Admit(s, chunk)
          PROVE  Admission(s)
      <3>1. /\ AlikeBut(s) /\ UNCHANGED <<status, token_ids, prompt_len>>
            /\ status[s] = "ACTIVE"
            /\ block_table[s] = <<>> /\ block_table'[s] # <<>>
            /\ num_computed'[s] = cached_prefix_tokens(s)
        BY <1>1, <2>1, AdmitEffect
      <3>2. allocate(s, 1)
        BY <2>1 DEF Admit
      <3>3. \E F : hash_to_block_id' = IndexWithout(F)
        BY <3>2 DEF allocate
      <3>4. DOMAIN hash_to_block_id' \subseteq DOMAIN hash_to_block_id
        BY <3>3, EvictionShrinks
      <3> QED
        BY <3>1, <3>4 DEF Admission
    <2>2. ASSUME NEW chunk \in Int, SchedulePrefill(s, chunk)
          PROVE  NobodyAdmitted
      <3>1. AlikeBut(s) /\ UNCHANGED <<status, block_table>>
        BY <1>1, <2>2, SchedulePrefillEffect
      <3>2. hash_to_block_id' = hash_to_block_id
        BY <2>2 DEF SchedulePrefill, bmVars, metaVars
      <3> QED
        BY <3>1, <3>2 DEF NobodyAdmitted, HasPages
    <2>3. ASSUME NEW n \in Int, ScheduleDecode(s, n)
          PROVE  NobodyAdmitted
      <3>1. /\ AlikeBut(s) /\ UNCHANGED <<status, token_ids, prompt_len>>
            /\ block_table[s] # <<>> /\ block_table'[s] # <<>>
        BY <1>1, <2>3, ScheduleDecodeEffect
      <3>2. may_append(s, n)
        BY <2>3 DEF ScheduleDecode
      <3>3. \E F : hash_to_block_id' = IndexWithout(F)
        BY <3>2 DEF may_append
      <3>4. DOMAIN hash_to_block_id' \subseteq DOMAIN hash_to_block_id
        BY <3>3, EvictionShrinks
      <3>5. HasPages(s)' <=> HasPages(s)
        BY <3>1 DEF HasPages
      <3> QED
        BY <3>1, <3>4, <3>5, OthersPages DEF NobodyAdmitted
    <2>4. ASSUME NEW drafts \in Drafts, Forward(s, drafts)
          PROVE  NobodyAdmitted
      <3>1. AlikeBut(s) /\ UNCHANGED <<status, block_table>>
        BY <1>1, <2>4, ForwardEffect
      <3>2. hash_to_block_id' = hash_to_block_id
        BY <2>4 DEF Forward, bmVars, metaVars
      <3> QED
        BY <3>1, <3>2 DEF NobodyAdmitted, HasPages
    <2>5. CASE Commit(s) \/ CommitSpeculative(s)
      <3>1. AlikeBut(s) /\ UNCHANGED <<status, block_table>> /\ work[s] = "forwarded"
        BY <1>1, <2>5, CommitEffect
      <3>2. status[s] = "ACTIVE" /\ block_table[s] # <<>>
        BY <1>1, <3>1 DEF Inv, Accounting
      <3> QED
        BY <3>1, <3>2 DEF NobodyAdmitted, HasPages
    <2>6. CASE PostTurn(s)
      <3>1. PICK finish \in BOOLEAN : Postprocess(s, finish)
        BY <2>6 DEF PostTurn
      <3>2. /\ AlikeBut(s) /\ status[s] = "ACTIVE" /\ block_table[s] # <<>>
            /\ finish => status'[s] = "FINISHED" /\ block_table'[s] = <<>>
            /\ ~ finish => status'[s] = "ACTIVE" /\ block_table'[s] = block_table[s]
        BY <1>1, <3>1, PostprocessEffect
      <3>3. hash_to_block_id' = hash_to_block_id
        BY <3>1 DEF Postprocess, metaVars
      <3>4. HasPages(s)' <=> HasPages(s)
        BY <3>2 DEF HasPages
      <3>5. /\ \A r \in Seqs : block_table[r] = <<>> => block_table'[r] = <<>>
            /\ \A r \in Seqs : HasPages(r)' <=> HasPages(r)
        BY <3>2, <3>4, OthersPages
      <3> QED
        BY <3>3, <3>5 DEF NobodyAdmitted
    <2> QED
      BY <1>3, <2>1, <2>2, <2>3, <2>4, <2>5, <2>6 DEF RunnerTurn, ScheduleTurn, ModelTurn
  <1> QED
    BY <1>2, <1>3, TurnActs

\* The sum after one of its terms has changed.
LEMMA SumAfter ==
    ASSUME NEW S, IsFiniteSet(S), NEW a \in S, NEW f, \A x \in S : f[x] \in Int,
           NEW e, e[a] \in Int, \A x \in S \ {a} : e[x] = f[x]
    PROVE  /\ SumFunctionOnSet(f, S) \in Int
           /\ SumFunctionOnSet(e, S) = SumFunctionOnSet(f, S) + (e[a] - f[a])
  <1> DEFINE R == S \ {a}
  <1>1. IsFiniteSet(R) /\ a \notin R /\ R \union {a} = S
    BY FS_Subset
  <1>2. \A x \in R : f[x] \in Int /\ f[x] = e[x]
    OBVIOUS
  <1>3. \A x \in R \union {a} : f[x] \in Int
    BY <1>1
  <1>4. \A x \in R \union {a} : e[x] \in Int
    BY <1>1, <1>2
  <1> HIDE DEF R
  <1>5. /\ SumFunctionOnSet(f, R) \in Int
        /\ SumFunctionOnSet(f, R \union {a}) = f[a] + SumFunctionOnSet(f, R)
    BY <1>1, <1>3, SumWithOne
  <1>6. /\ SumFunctionOnSet(e, R) \in Int
        /\ SumFunctionOnSet(e, R \union {a}) = e[a] + SumFunctionOnSet(e, R)
    BY <1>1, <1>4, SumWithOne
  <1>7. SumFunctionOnSet(f, R) = SumFunctionOnSet(e, R)
    BY <1>1, <1>2, SumOfSame
  <1>8. SumFunctionOnSet(f, S) = f[a] + SumFunctionOnSet(f, R)
    BY <1>1, <1>5, Zenon
  <1>9. SumFunctionOnSet(e, S) = e[a] + SumFunctionOnSet(f, R)
    BY <1>1, <1>6, <1>7, Zenon
  <1>10. \A x, y, z \in Int : x + z \in Int /\ y + z = (x + z) + (y - x)
    OBVIOUS
  <1>11. f[a] \in Int /\ SumFunctionOnSet(f, R) \in Int
    BY <1>5
  <1>12. /\ f[a] + SumFunctionOnSet(f, R) \in Int
         /\ e[a] + SumFunctionOnSet(f, R) = (f[a] + SumFunctionOnSet(f, R)) + (e[a] - f[a])
    BY <1>10, <1>11, Zenon
  <1> QED
    BY <1>8, <1>9, <1>12, Zenon

\* What CountAdmissions does with the pages of a turn.
LEMMA NobodyCounted ==
    ASSUME NobodyAdmitted, CountAdmissions, num_cached \in [Seqs -> Nat]
    PROVE  /\ num_cached' = num_cached
           /\ stats'.admitted = stats.admitted + 0
           /\ stats'.reused = stats.reused + 0
  <1> DEFINE admitted == {s \in Seqs : block_table[s] = <<>> /\ block_table'[s] # <<>>}
  <1>1. admitted = {}
    BY DEF NobodyAdmitted
  <1>2. /\ num_cached' = [s \in Seqs |-> IF s \in admitted THEN num_computed'[s] ELSE num_cached[s]]
        /\ stats'.admitted = stats.admitted + Cardinality(admitted)
        /\ stats'.reused = stats.reused + SumFunctionOnSet(num_computed', admitted)
    BY DEF CountAdmissions
  <1> HIDE DEF admitted
  <1>3. Cardinality(admitted) = 0 /\ SumFunctionOnSet(num_computed', admitted) = 0
    BY <1>1, FS_EmptySet, SumOfNone
  <1> QED
    BY <1>1, <1>2, <1>3

LEMMA OneCounted ==
    ASSUME NEW s \in Seqs, Admission(s), CountAdmissions, num_cached \in [Seqs -> Nat],
           cached_prefix_tokens(s) \in Nat
    PROVE  /\ num_cached' = [num_cached EXCEPT ![s] = cached_prefix_tokens(s)]
           /\ stats'.admitted = stats.admitted + 1
           /\ stats'.reused = stats.reused + cached_prefix_tokens(s)
  <1> DEFINE admitted == {r \in Seqs : block_table[r] = <<>> /\ block_table'[r] # <<>>}
  <1>1. admitted = {s}
    BY DEF Admission, AlikeBut, Alike
  <1>2. /\ num_cached' = [r \in Seqs |-> IF r \in admitted THEN num_computed'[r] ELSE num_cached[r]]
        /\ stats'.admitted = stats.admitted + Cardinality(admitted)
        /\ stats'.reused = stats.reused + SumFunctionOnSet(num_computed', admitted)
    BY DEF CountAdmissions
  <1> HIDE DEF admitted
  <1>3. Cardinality(admitted) = 1
    BY <1>1, FS_Singleton
  <1>4. num_computed'[s] = cached_prefix_tokens(s)
    BY DEF Admission
  <1>5. SumFunctionOnSet(num_computed', admitted) = cached_prefix_tokens(s)
    <2>1. IsFiniteSet({}) /\ s \notin {} /\ \A x \in {} \union {s} : num_computed'[x] \in Int
      BY <1>4, FS_EmptySet
    <2>2. SumFunctionOnSet(num_computed', {} \union {s})
            = num_computed'[s] + SumFunctionOnSet(num_computed', {})
      BY <2>1, SumWithOne
    <2>3. admitted = {} \union {s}
      BY <1>1
    <2> QED
      BY <1>4, <2>2, <2>3, SumOfNone
  <1> QED
    BY <1>1, <1>2, <1>3, <1>4, <1>5

\* The counted sets are finite.
LEMMA CountsOfRecords ==
    ASSUME DriverShape
    PROVE  /\ IsFiniteSet(DOMAIN records) /\ IsFiniteSet(Admitted)
           /\ Cardinality(Admitted) \in Nat
           /\ \A i \in DOMAIN records : CachedOf(i) \in Nat /\ CachedTokens[i] = CachedOf(i)
  <1>1. DOMAIN records = 1 .. Len(records) /\ Len(records) \in Nat
    BY DEF DriverShape
  <1>2. IsFiniteSet(DOMAIN records)
    BY <1>1, FS_Interval
  <1>3. IsFiniteSet(Admitted)
    BY <1>2, FS_Subset DEF Admitted
  <1>4. Cardinality(Admitted) \in Nat
    BY <1>3, FS_CardinalityType
  <1>5. \A i \in DOMAIN records : CachedOf(i) \in Nat
    BY RecordOf DEF CachedOf, DriverShape
  <1> QED
    BY <1>2, <1>3, <1>4, <1>5 DEF CachedTokens

\* A step that notes down nothing new counts nothing new.
LEMMA SameTally ==
    ASSUME Tally, stats'.admitted = stats.admitted, stats'.reused = stats.reused,
           DOMAIN records' = DOMAIN records, Admitted' = Admitted,
           \A i \in DOMAIN records : CachedOf(i)' = CachedOf(i)
    PROVE  Tally'
  <1>1. CachedTokens' = CachedTokens
    BY DEF CachedTokens
  <1> QED
    BY <1>1 DEF Tally

\* An active request has an active record, and only one.
LEMMA RecordFor ==
    ASSUME DriverShape, OneRecordEach, RecordsTell, Sound, phase = "measured",
           NEW s \in Seqs, status[s] = "ACTIVE"
    PROVE  \E i \in DOMAIN records :
                /\ records[i].state = "active" /\ records[i].id = s
                /\ \A j \in DOMAIN records \ {i} :
                        records[j].state = "active" => records[j].id # s
  <1>1. PICK i \in Live : records[i].id = s
    BY DEF OneRecordEach
  <1>2. i \in DOMAIN records /\ records[i].state # "completed"
    BY DEF Live
  <1>3. records[i].state = "active"
    <2>1. CASE records[i].state # "active"
      <3>1. TellsEnded(i)
        BY <1>2, <2>1 DEF RecordsTell
      <3>2. records[i].state = "finished"
        BY <1>2, <2>1, RecordOf
      <3> QED
        BY <1>1, <3>1, <3>2 DEF TellsEnded
    <2> QED
      BY <2>1
  <1>4. \A j \in DOMAIN records \ {i} : records[j].state = "active" => records[j].id # s
    BY <1>1 DEF OneRecordEach, Live
  <1> QED
    BY <1>1, <1>2, <1>3, <1>4

LEMMA TallyCounts ==
    ASSUME DriverShape, Tally
    PROVE  stats.admitted \in Nat /\ stats.reused \in Int
  <1>1. /\ IsFiniteSet(DOMAIN records) /\ Cardinality(Admitted) \in Nat
        /\ \A i \in DOMAIN records : CachedTokens[i] \in Int
    BY CountsOfRecords
  <1>2. \E g \in [SUBSET (DOMAIN records) -> Int] :
            SumFunctionOnSet(CachedTokens, DOMAIN records) = g[DOMAIN records]
    BY <1>1, SumWitness
  <1> QED
    BY <1>1, <1>2 DEF Tally

LEMMA TurnCounts ==
    ASSUME EngineKept, EngineKept', DriverShape, DriverShape', OneRecordEach, RecordsTell,
           phase = "measured", Turn, Sound', Counted
    PROVE  Counted'
  <1>1. /\ Sound /\ stage = "step" /\ pc # "idle" /\ pc # "raise"
        /\ Step \/ ModelError
        /\ stage' \notin {"loop", "forget", "done"}
    BY SoundTurn
  <1>2. /\ records' = records /\ cold' = cold /\ CountAdmissions
        /\ num_cached \in [Seqs -> Nat]
    BY DEF Turn, DriverShape
  <1>3. /\ Tally /\ NothingToReuse /\ \A i \in DOMAIN records : Noted(i)
        /\ stats.admitted \in Nat /\ stats.reused \in Int
    BY TallyCounts DEF Counted
  <1>4. \A i \in DOMAIN records : records[i].id \in Seqs /\ records[i].cached \in Nat
    BY RecordOf
  <1>5. CASE NobodyAdmitted
    <2>1. /\ num_cached' = num_cached
          /\ stats'.admitted = stats.admitted /\ stats'.reused = stats.reused
      <3>1. /\ num_cached' = num_cached
            /\ stats'.admitted = stats.admitted + 0
            /\ stats'.reused = stats.reused + 0
        BY <1>2, <1>5, NobodyCounted
      <3> QED
        BY <1>3, <3>1
    <2>2. \A i \in DOMAIN records : HasPages(records[i].id)' <=> HasPages(records[i].id)
      BY <1>2, <1>4, <1>5 DEF NobodyAdmitted, HasPages
    <2>3. Admitted' = Admitted
      BY <1>2, <2>2 DEF Admitted
    <2>4. \A i \in DOMAIN records : CachedOf(i)' = CachedOf(i)
      BY <1>2, <2>1 DEF CachedOf
    <2>5. Tally'
      BY <1>2, <1>3, <2>1, <2>3, <2>4, SameTally
    <2>6. \A i \in DOMAIN records : Noted(i)'
      BY <1>1, <1>2, <1>3, <2>1, <2>2 DEF Noted
    <2>7. NothingToReuse'
      <3>1. stats.admitted = 0 /\ cold => DOMAIN hash_to_block_id' = {}
        <4> SUFFICES ASSUME stats.admitted = 0, cold
                     PROVE  DOMAIN hash_to_block_id' = {}
          OBVIOUS
        <4>1. DOMAIN hash_to_block_id = {}
          BY <1>3 DEF NothingToReuse
        <4>2. Admitted = {}
          BY <1>3, CountsOfRecords, FS_EmptySet DEF Tally
        <4>3. ~ \E s \in Seqs : status[s] = "ACTIVE" /\ block_table[s] # <<>>
          <5> SUFFICES ASSUME NEW s \in Seqs, status[s] = "ACTIVE", block_table[s] # <<>>
                       PROVE  FALSE
            OBVIOUS
          <5>1. PICK i \in DOMAIN records : records[i].state = "active" /\ records[i].id = s
            BY <1>1, RecordFor
          <5>2. i \in Admitted
            BY <5>1 DEF Admitted, HasPages
          <5> QED
            BY <4>2, <5>2
        <4> QED
          BY <1>5, <4>1, <4>3 DEF NobodyAdmitted
      <3> QED
        BY <1>2, <1>3, <2>1, <3>1 DEF NothingToReuse
    <2> QED
      BY <1>2, <2>5, <2>6, <2>7 DEF Counted
  <1>6. ASSUME NEW s \in Seqs, Admission(s)
        PROVE  Counted'
    <2> DEFINE c == cached_prefix_tokens(s)
    <2>1. Inv /\ prompt_len[s] > 0 /\ BlockManagerTypeOK
      BY <1>6 DEF EngineKept, KVInv, Inv, Accounting, TypeOK, Admission
    <2>2. c \in Nat
      <3>1. c \in 0 .. prompt_len[s] - 1 /\ prompt_len[s] \in Nat
        BY <2>1, CachedPrefixShorter, Counts DEF Inv
      <3> QED
        BY <3>1
    <2>3. DOMAIN hash_to_block_id = {} => c = 0
      BY <2>1, EmptyIndex
    <2>4. /\ num_cached' = [num_cached EXCEPT ![s] = c]
          /\ stats'.admitted = stats.admitted + 1
          /\ stats'.reused = stats.reused + c
      BY <1>2, <1>6, <2>2, OneCounted
    <2> HIDE DEF c
    <2>5. PICK i \in DOMAIN records :
              /\ records[i].state = "active" /\ records[i].id = s
              /\ \A j \in DOMAIN records \ {i} : records[j].state = "active" => records[j].id # s
      <3>1. status[s] = "ACTIVE"
        BY <1>6 DEF Admission
      <3> QED
        BY <1>1, <3>1, RecordFor
    <2>6. ~ HasPages(s) /\ HasPages(s)' /\ num_cached[s] = 0 /\ num_cached'[s] = c
      <3>1. ~ HasPages(s) /\ HasPages(s)'
        BY <1>6 DEF Admission, HasPages
      <3>2. num_cached[s] = 0
        BY <1>3, <2>5, <3>1 DEF Noted
      <3> QED
        BY <1>2, <2>4, <3>1, <3>2
    <2>7. \A j \in DOMAIN records \ {i} :
              records[j].state = "active" =>
                  /\ HasPages(records[j].id)' <=> HasPages(records[j].id)
                  /\ num_cached'[records[j].id] = num_cached[records[j].id]
      <3>1. \A r \in Seqs \ {s} : /\ status'[r] = status[r] /\ block_table'[r] = block_table[r]
                                  /\ num_cached'[r] = num_cached[r]
        BY <1>2, <1>6, <2>4 DEF Admission, AlikeBut, Alike
      <3> QED
        BY <1>2, <1>4, <2>5, <3>1 DEF HasPages
    <2>8. Admitted' = Admitted \union {i} /\ i \notin Admitted
      <3>1. HasPages(records[i].id)'
        BY <1>2, <2>5, <2>6 DEF HasPages
      <3> QED
        BY <1>2, <2>5, <2>6, <2>7, <3>1 DEF Admitted
    <2>9. Tally'
      <3>1. stats'.admitted = Cardinality(Admitted')
        <4>1. Cardinality(Admitted \union {i}) = Cardinality(Admitted) + 1
          BY <2>8, CountsOfRecords, FS_AddElement
        <4> QED
          BY <1>3, <2>4, <2>8, <4>1 DEF Tally
      <3>2. CachedTokens[i] = 0 /\ CachedTokens'[i] = c
        BY <1>2, <2>5, <2>6 DEF CachedTokens, CachedOf
      <3>3. \A j \in DOMAIN records \ {i} : CachedTokens'[j] = CachedTokens[j]
        BY <1>2, <2>7 DEF CachedTokens, CachedOf
      <3>4. IsFiniteSet(DOMAIN records) /\ \A j \in DOMAIN records : CachedTokens[j] \in Int
        BY CountsOfRecords
      <3>5. SumFunctionOnSet(CachedTokens', DOMAIN records)
                = SumFunctionOnSet(CachedTokens, DOMAIN records)
                    + (CachedTokens'[i] - CachedTokens[i])
        BY <2>2, <3>2, <3>3, <3>4, SumAfter
      <3>6. SumFunctionOnSet(CachedTokens', DOMAIN records) = stats.reused + (c - 0)
        BY <1>3, <3>2, <3>5 DEF Tally
      <3>7. stats'.reused = SumFunctionOnSet(CachedTokens', DOMAIN records)
        BY <1>3, <2>2, <2>4, <3>6
      <3> QED
        BY <1>2, <3>1, <3>7 DEF Tally
    <2>10. \A j \in DOMAIN records : Noted(j)'
      <3>1. Noted(i)'
        BY <1>1, <1>2, <1>3, <1>4, <2>2, <2>5, <2>6 DEF Noted, HasPages
      <3>2. \A j \in DOMAIN records \ {i} : Noted(j)'
        BY <1>1, <1>2, <1>3, <2>7 DEF Noted
      <3> QED
        BY <3>1, <3>2
    <2>11. NothingToReuse'
      <3>1. /\ stats'.admitted # 0
            /\ stats'.admitted <= 1 => stats.admitted = 0
        BY <1>3, <2>4
      <3>2. cold /\ stats.admitted = 0 => stats.reused = 0 /\ c = 0
        BY <1>3, <2>3 DEF NothingToReuse
      <3>3. cold /\ stats'.admitted <= 1 => stats'.reused = 0
        BY <2>4, <3>1, <3>2
      <3> QED
        BY <1>2, <3>1, <3>3 DEF NothingToReuse
    <2> QED
      BY <1>2, <2>9, <2>10, <2>11 DEF Counted
  <1> QED
    BY <1>1, <1>5, <1>6, TurnAdmits

-----------------------------------------------------------------------------
(* The peak of pages.                                                      *)

\* A request holds no more pages than are in use.
LEMMA TableInUse ==
    ASSUME Inv, NEW s \in Seqs
    PROVE  Len(block_table[s]) \in Nat /\ Len(block_table[s]) <= Cardinality(used_block_ids)
  <1>1. PoolConsistent /\ block_table[s] \in Seq(Pages) /\ used_block_ids \subseteq Pages
    BY DEF Inv, TypeOK, BlockManagerTypeOK
  <1> DEFINE I == 1 .. Len(block_table[s])
             R == Range(block_table[s])
  <1>2. R \subseteq used_block_ids
    <2> SUFFICES ASSUME NEW p \in R
                 PROVE  p \in used_block_ids
      OBVIOUS
    <2>1. p \in Pages /\ s \in Holders(p)
      BY <1>1 DEF Range, Holders
    <2>2. p \notin free_block_ids
      BY <1>1, <2>1, HolderCounts
    <2> QED
      BY <1>1, <2>1, <2>2 DEF PoolConsistent
  <1>3. Len(block_table[s]) \in Nat /\ IsFiniteSet(I) /\ Cardinality(I) = Len(block_table[s])
    BY <1>1, FS_Interval
  <1>4. block_table[s] \in Surjection(I, R) /\ block_table[s] \in Injection(I, R)
    <2>1. DOMAIN block_table[s] = I /\ block_table[s] \in [I -> R]
      BY <1>1 DEF Range
    <2>2. \A a, b \in I : block_table[s][a] = block_table[s][b] => a = b
      BY <1>1, <2>1 DEF PoolConsistent, IsInjective
    <2>3. \A p \in R : \E a \in I : block_table[s][a] = p
      BY <2>1 DEF Range
    <2> HIDE DEF I, R
    <2> QED
      BY <2>1, <2>2, <2>3 DEF Surjection, Injection, IsInjective
  <1> HIDE DEF I
  <1>5. Cardinality(R) = Cardinality(I)
    <2> HIDE DEF R
    <2> QED
      BY <1>3, <1>4, FS_Surjection
  <1>6. IsFiniteSet(used_block_ids)
    BY <1>1, PagesAssumption, FS_Subset
  <1>7. Cardinality(R) <= Cardinality(used_block_ids)
    BY <1>2, <1>6, FS_Subset
  <1> QED
    BY <1>3, <1>5, <1>7

LEMMA UsedPages ==
    EngineKept => /\ Cardinality(used_block_ids) \in Nat
                  /\ \A s \in Seqs : Len(block_table[s]) <= Cardinality(used_block_ids)
  <1> SUFFICES ASSUME EngineKept
               PROVE  /\ Cardinality(used_block_ids) \in Nat
                      /\ \A s \in Seqs : Len(block_table[s]) <= Cardinality(used_block_ids)
    OBVIOUS
  <1>1. Inv /\ used_block_ids \subseteq Pages
    BY DEF EngineKept, KVInv, Inv, TypeOK, BlockManagerTypeOK
  <1> QED
    BY <1>1, TableInUse, PagesAssumption, FS_Subset, FS_CardinalityType

\* A text whose slots are all reserved needs no more pages than there are.
LEMMA NoMoreRequired ==
    ASSUME NEW n \in Nat, NEW k \in Nat, n <= k * BlockSize
    PROVE  required_blocks(n) <= k
  <1>1. /\ required_blocks(n) \in Nat
        /\ n > 0 => (required_blocks(n) - 1) * BlockSize < n
    BY RoundsUp
  <1>2. BlockSize \in Nat /\ BlockSize > 0
    BY BlockSizeAssumption
  <1>3. CASE n = 0
    <2>1. \A b \in Nat : b > 0 => (0 + b - 1) \div b = 0
      BY SMTT(30)
    <2> QED
      BY <1>2, <1>3, <2>1 DEF required_blocks
  <1>4. CASE n > 0
    <2> DEFINE r == required_blocks(n)
    <2>1. r \in Nat /\ (r - 1) * BlockSize < n
      BY <1>1, <1>4
    <2> HIDE DEF r
    <2>2. r - 1 >= k => (r - 1) * BlockSize >= k * BlockSize
      BY <1>2, <2>1, SMTT(30)
    <2>3. (r - 1) * BlockSize \in Int /\ k * BlockSize \in Int
      BY <1>2, <2>1
    <2> QED
      BY <2>1, <2>2, <2>3 DEF r
  <1> QED
    BY <1>3, <1>4

\* Where the step gets to the model, and that it gets behind it from there only.
LEMMA TurnLoop ==
    ASSUME EngineKept, Step \/ ModelError, pc # "idle", pc # "raise"
    PROVE  /\ pc' = "model" => pc \in {"prefill", "decode", "model"}
           /\ pc' = "post" => pc \in {"model", "post"}
           /\ pc \in {"model", "post"} =>
                UNCHANGED vars \/ \E s \in Seqs : ModelTurn(s) \/ PostTurn(s)
  <1>1. UNCHANGED vars \/ \E s \in Seqs : RunnerTurn(s)
    BY TurnActs
  <1>2. pc' = "model" => pc \in {"prefill", "decode", "model"}
    BY DEF Step, StartStep, EndPrefill, EndDecode, NextGroup, EndRun, EndStep, ModelError, EnterDecode,
           AdmitPrompt, PrefillChunk, PrefillTurn, DecodeTurn, RunForward, RunCommit, PostItem,
           FailItem, stepVars, Take, Pass
  <1>3. pc' = "post" => pc \in {"model", "post"}
    BY DEF Step, StartStep, EndPrefill, EndDecode, NextGroup, EndRun, EndStep, ModelError, EnterPrefill,
           EnterDecode, Launch, AdmitPrompt, PrefillChunk, PrefillTurn, DecodeTurn, RunForward,
           RunCommit, PostItem, FailItem, stepVars, Take, Pass
  <1> QED
    BY <1>1, <1>2, <1>3 DEF RunnerTurn, ScheduleTurn

\* From the sample on nobody joins the batch, and those who are in it keep their
\* pages until they have been post-processed.
LEMMA BatchKeepsPages ==
    ASSUME EngineKept, Step \/ ModelError, pc \in {"model", "post"}, NEW r \in Seqs
    PROVE  /\ work'[r] # "idle" => work[r] # "idle" /\ block_table'[r] = block_table[r]
           /\ status'[r] = "FINISHED" /\ status[r] # "FINISHED" =>
                /\ pc = "post" /\ work[r] # "idle"
                /\ Len(token_ids[r]) <= Len(block_table[r]) * BlockSize
  <1>1. Inv /\ \A s \in Seqs : Contents(s)
    BY DEF EngineKept, KVInv
  <1>2. CASE UNCHANGED vars
    BY <1>2 DEF vars, bmVars, reqVars, runVars
  <1>3. ASSUME NEW s \in Seqs, ModelTurn(s)
        PROVE  /\ work'[r] # "idle" => work[r] # "idle" /\ block_table'[r] = block_table[r]
               /\ status'[r] = status[r]
    <2>1. AlikeBut(s) /\ UNCHANGED <<status, block_table>> /\ work[s] # "idle"
      <3>1. CASE \E drafts \in Drafts : Forward(s, drafts)
        BY <1>1, <3>1, ForwardEffect
      <3>2. CASE Commit(s) \/ CommitSpeculative(s)
        BY <1>1, <3>2, CommitEffect
      <3> QED
        BY <1>3, <3>1, <3>2 DEF ModelTurn
    <2> QED
      BY <2>1 DEF AlikeBut, Alike
  <1>4. ASSUME NEW s \in Seqs, PostTurn(s)
        PROVE  /\ work'[r] # "idle" => work[r] # "idle" /\ block_table'[r] = block_table[r]
               /\ status'[r] = "FINISHED" /\ status[r] # "FINISHED" =>
                    /\ pc = "post" /\ work[r] # "idle"
                    /\ Len(token_ids[r]) <= Len(block_table[r]) * BlockSize
    <2>1. PICK finish \in BOOLEAN : Postprocess(s, finish)
      BY <1>4 DEF PostTurn
    <2>2. /\ AlikeBut(s) /\ work[s] = "done" /\ work'[s] = "idle"
          /\ block_table[s] # <<>>
      BY <1>1, <2>1, PostprocessEffect
    <2>3. Len(token_ids[s]) <= Len(block_table[s]) * BlockSize
      BY <1>1, <2>2 DEF Contents
    <2> QED
      BY <1>4, <2>2, <2>3 DEF AlikeBut, Alike, PostTurn
  <1> QED
    BY <1>2, <1>3, <1>4, TurnLoop

\* Workload and records have the same positions.
LEMMA Sizes ==
    ASSUME DriverShape, SentInOrder, due \in Nat, NEW i \in DOMAIN records
    PROVE  /\ Len(Workload[i]) \in Nat /\ Len(Workload[i]) > 0
           /\ Len(Workload[i]) + MaxTokens - 1 \in Nat
           /\ PeakOf(i) \in Nat
  <1>1. /\ DOMAIN records = 1 .. Len(records) /\ Len(records) \in Nat
        /\ Workload \in Seq(Prompts)
    BY WorkloadAssumption DEF DriverShape
  <1>2. i \in 1 .. Len(Workload)
    BY <1>1 DEF SentInOrder, DriverShape
  <1>3. Workload[i] \in Seq(Tokens) \ {<<>>}
    BY <1>1, <1>2, PromptsAssumption
  <1>4. Len(Workload[i]) \in Nat /\ Len(Workload[i]) > 0
    BY <1>3
  <1>5. Len(Workload[i]) + MaxTokens - 1 \in Nat
    BY <1>4, MaxTokensAssumption
  <1> QED
    BY <1>4, <1>5, RoundsUp DEF PeakOf

LEMMA TurnPeaks ==
    ASSUME EngineKept, EngineKept', DriverShape, RecordsTell, RecordsTell', Gauges,
           phase = "measured", Turn, Sound', SentInOrder, Peaks
    PROVE  SentInOrder' /\ Peaks'
  <1>1. /\ Sound /\ stage = "step" /\ pc # "idle" /\ pc # "raise"
        /\ Step \/ ModelError
        /\ pc = "post" => pc' = "post" \/ pc' = "idle"
    BY SoundTurn
  <1>2. /\ UNCHANGED <<records, next_request, due, maximum_pages>>
        /\ sampled' = IF pc # "model" /\ pc' = "model" THEN Cardinality(used_block_ids') ELSE sampled
    BY DEF Turn, Sample
  <1>3. \A i \in DOMAIN records : records[i].id \in Seqs
    BY RecordOf
  <1>4. SentInOrder'
    <2>1. \A s \in Seqs : prompt_len'[s] = prompt_len[s]
      BY <1>1, TurnEffect DEF TurnOf
    <2> QED
      BY <1>2, <1>3, <2>1 DEF SentInOrder, Live
  <1>5. /\ pc' = "model" => pc \in {"prefill", "decode", "model"}
        /\ pc' = "post" => pc \in {"model", "post"}
    BY <1>1, TurnLoop
  <1>6. pc' \in {"model", "post"} =>
            \A s \in Seqs : work'[s] # "idle" => Len(block_table'[s]) <= sampled'
    <2>1. CASE pc # "model" /\ pc' = "model"
      <3>1. (\A s \in Seqs : Len(block_table[s]) <= Cardinality(used_block_ids))'
        BY UsedPages, PTL
      <3> QED
        BY <1>2, <2>1, <3>1
    <2>2. CASE ~ (pc # "model" /\ pc' = "model") /\ pc' \in {"model", "post"}
      <3>1. pc \in {"model", "post"} /\ sampled' = sampled
        BY <1>2, <1>5, <2>2
      <3>2. \A s \in Seqs : work[s] # "idle" => Len(block_table[s]) <= sampled
        BY <3>1 DEF Peaks
      <3>3. \A s \in Seqs :
                work'[s] # "idle" => work[s] # "idle" /\ block_table'[s] = block_table[s]
        BY <1>1, <3>1, BatchKeepsPages
      <3> QED
        BY <3>1, <3>2, <3>3
    <2> QED
      BY <2>1, <2>2
  <1>7. ASSUME NEW i \in DOMAIN records, records[i].state = "active",
               status'[records[i].id] = "FINISHED"
        PROVE  PeakOf(i) <= sampled'
    <2>1. PICK s \in Seqs : s = records[i].id
      BY <1>3
    <2>2. CASE status[s] = "FINISHED"
      <3>1. TellsActive(i)
        BY <1>1, <1>7 DEF RecordsTell
      <3>2. pc = "post"
        BY <1>1, <2>1, <2>2, <3>1 DEF TellsActive
      <3>3. sampled' = sampled
        BY <1>1, <1>2, <3>2
      <3> QED
        BY <1>7, <2>1, <2>2, <3>3 DEF Peaks
    <2>3. CASE status[s] # "FINISHED"
      <3>1. pc \in {"model", "post"}
        <4>1. CASE UNCHANGED vars
          BY <1>7, <2>1, <2>3, <4>1 DEF vars, reqVars
        <4>2. ASSUME NEW r \in Seqs, RunnerTurn(r), ~ (pc \in {"model", "post"})
              PROVE  FALSE
          <5>1. TurnOf(s)
            BY <1>1, TurnEffect
          <5> QED
            BY <1>7, <2>1, <2>3, <4>2, <5>1 DEF TurnOf
        <4> QED
          BY <1>1, <4>1, <4>2, TurnActs
      <3>2. /\ pc = "post" /\ work[s] # "idle"
            /\ Len(token_ids[s]) <= Len(block_table[s]) * BlockSize
        BY <1>1, <1>7, <2>1, <2>3, <3>1, BatchKeepsPages
      <3>3. sampled' = sampled /\ Len(block_table[s]) <= sampled
        BY <1>1, <1>2, <3>2 DEF Peaks
      <3>4. Len(token_ids[s]) = Len(Workload[i]) + MaxTokens
        <4>1. num_generated(s)' = MaxTokens
          <5>1. TellsActive(i)'
            BY <1>2, <1>7 DEF RecordsTell
          <5> QED
            BY <1>2, <1>7, <2>1, <5>1 DEF TellsActive
        <4>2. num_generated(s) = MaxTokens
          <5>1. num_generated(s)' = num_generated(s)
            <6>1. TurnOf(s)
              BY <1>1, TurnEffect
            <6> QED
              BY <1>7, <2>1, <2>3, <6>1 DEF TurnOf
          <5> QED
            BY <4>1, <5>1
        <4>3. prompt_len[s] = Len(Workload[i])
          BY <1>7, <2>1 DEF SentInOrder, Live
        <4>4. Len(token_ids[s]) \in Nat /\ prompt_len[s] \in Nat
          BY Counts DEF EngineKept, KVInv, Inv
        <4> QED
          BY <4>2, <4>3, <4>4, MaxTokensAssumption DEF num_generated
      <3>5. PeakOf(i) <= Len(block_table[s])
        <4>1. /\ Len(Workload[i]) + MaxTokens - 1 \in Nat /\ Len(Workload[i]) \in Nat
              /\ PeakOf(i) \in Nat
          BY Sizes DEF Gauges
        <4>2. Len(block_table[s]) \in Nat /\ Len(block_table[s]) * BlockSize \in Nat
          BY Counts DEF EngineKept, KVInv, Inv
        <4>3. Len(Workload[i]) + MaxTokens - 1 <= Len(block_table[s]) * BlockSize
          BY <3>2, <3>4, <4>1, <4>2, MaxTokensAssumption
        <4> QED
          BY <4>1, <4>2, <4>3, NoMoreRequired DEF PeakOf
      <3> QED
        <4>1. PeakOf(i) \in Nat /\ sampled \in Nat
          BY Sizes DEF Gauges
        <4>2. Len(block_table[s]) \in Nat
          BY Counts DEF EngineKept, KVInv, Inv
        <4> QED
          BY <3>3, <3>5, <4>1, <4>2
    <2> QED
      BY <2>2, <2>3
  <1>8. \A i \in DOMAIN records : records[i].state # "active" => PeakOf(i) <= maximum_pages'
    BY <1>2 DEF Peaks
  <1> QED
    BY <1>2, <1>4, <1>6, <1>7, <1>8 DEF Peaks, PeakOf, required_blocks

-----------------------------------------------------------------------------
(* The other steps of the driver.                                          *)

LEMMA GaugesStep ==
    ASSUME EngineKept', DriverShape, Gauges, [HarnessNext]_harnessVars
    PROVE  Gauges'
  <1>1. CASE UNCHANGED harnessVars
    BY <1>1 DEF harnessVars, driverVars, telemetryVars, Gauges
  <1>2. CASE Turn
    <2>1. (Cardinality(used_block_ids) \in Nat)'
      BY UsedPages, PTL
    <2>2. /\ UNCHANGED <<due, maximum_pages>>
          /\ sampled' \in {Cardinality(used_block_ids'), sampled}
      BY <1>2 DEF Turn, Sample
    <2> QED
      BY <2>1, <2>2 DEF Gauges
  <1>3. CASE WarmUp \/ GenerateStep \/ MeasuredStep \/ \E s \in Seqs : Collect(s)
    BY <1>3 DEF WarmUp, GenerateStep, MeasuredStep, CallStep, Collect, driverVars, telemetryVars,
                Gauges
  <1>4. CASE StartMeasurement
    BY <1>4 DEF StartMeasurement, Gauges
  <1>5. CASE Send \/ ForgetFinished \/ Finish
    BY <1>5 DEF Send, ForgetFinished, Finish, telemetryVars, Gauges
  <1>6. CASE Observe
    <2>1. UNCHANGED <<due, sampled>> /\ maximum_pages' = Max({maximum_pages, sampled})
      BY <1>6 DEF Observe, telemetryVars
    <2> QED
      BY <2>1, Greater DEF Gauges
  <1>7. CASE Tick
    BY <1>7 DEF Tick, telemetryVars, Gauges
  <1> QED
    BY <1>1, <1>2, <1>3, <1>4, <1>5, <1>6, <1>7 DEF HarnessNext, Driver

\* A step that leaves engine and records alone leaves what is counted alone.
LEMMA LoopCounts ==
    ASSUME DriverShape, Gauges, phase = "measured", stage = "loop", MetricsTell,
           UNCHANGED <<cold, phase, records, next_request, maximum_pages, vars, num_cached, stats,
                       sampled>>,
           due' = due \/ (due < Len(Workload) /\ due' = due + 1),
           stage' \in {"loop", "step", "done"}, pc' \notin {"model", "post"}
    PROVE  MetricsTell'
  <1>1. SentInOrder /\ Counted /\ Peaks
    BY DEF MetricsTell, DriverShape, Sound
  <1>2. UNCHANGED <<status, block_table, prompt_len, hash_to_block_id>>
    BY DEF vars, bmVars, metaVars, reqVars
  <1>3. Admitted' = Admitted /\ \A i \in DOMAIN records : CachedOf(i)' = CachedOf(i)
    BY <1>2 DEF Admitted, HasPages, CachedOf
  <1>4. Tally'
    BY <1>1, <1>3, SameTally DEF Counted
  <1>5. NothingToReuse' /\ \A i \in DOMAIN records : Noted(i)'
    BY <1>1, <1>2 DEF Counted, NothingToReuse, Noted, HasPages
  <1>6. SentInOrder'
    <2>1. /\ Len(records') = next_request' /\ due' <= Len(Workload)
          /\ \A i \in Live' : prompt_len'[records'[i].id] = Len(Workload[i])
      <3>1. Len(Workload) \in Nat
        BY WorkloadAssumption
      <3> QED
        BY <1>1, <1>2, <3>1 DEF SentInOrder, Live, Gauges
    <2>2. next_request' <= due'
      BY <1>1 DEF SentInOrder, DriverShape, Gauges
    <2> QED
      BY <2>1, <2>2 DEF SentInOrder
  <1>7. Peaks'
    BY <1>1, <1>2 DEF Peaks, PeakOf, required_blocks
  <1> QED
    BY <1>4, <1>5, <1>6, <1>7 DEF Counted, MetricsTell

LEMMA StartCounts ==
    ASSUME DriverShape, StartMeasurement
    PROVE  MetricsTell'
  <1>1. /\ records = <<>> /\ records' = <<>> /\ pc' = "idle"
        /\ next_request' = 0 /\ due' = 1 /\ stats' = NoStats
        /\ cold' = cold /\ (cold => hash_to_block_id' = <<>>)
    BY DEF DriverShape, StartMeasurement, Measured, stepVars
  <1>2. Len(Workload) \in Nat /\ 1 <= Len(Workload)
    BY WorkloadAssumption
  <1>3. SentInOrder'
    BY <1>1, <1>2 DEF SentInOrder, Live
  <1>4. Tally'
    <2>1. DOMAIN records' = {} /\ Admitted' = {}
      BY <1>1 DEF Admitted
    <2> QED
      BY <1>1, <2>1, FS_EmptySet, SumOfNone DEF Tally, NoStats
  <1>5. NothingToReuse'
    <2>1. stats'.admitted = 0 /\ stats'.reused = 0
      BY <1>1 DEF NoStats
    <2>2. cold' => DOMAIN hash_to_block_id' = {}
      BY <1>1
    <2> QED
      BY <2>1, <2>2 DEF NothingToReuse
  <1>6. \A i \in DOMAIN records' : FALSE
    BY <1>1
  <1>7. Peaks'
    BY <1>1, <1>6 DEF Peaks
  <1> QED
    BY <1>3, <1>4, <1>5, <1>6, <1>7 DEF Counted, MetricsTell

LEMMA SendCounts ==
    ASSUME EngineKept, DriverShape, Gauges, OneRecordEach, RecordsTell, Send, MetricsTell
    PROVE  MetricsTell'
  <1>0. PICK n \in Nat : n = Len(records)
    BY DEF DriverShape
  <1>1. PICK s \in Seqs :
            /\ Add(s, Workload[next_request + 1])
            /\ records' = Append(records, [id |-> s, state |-> "active", cached |-> 0,
                                           tokens |-> 0])
    BY DEF Send
  <1>2. /\ phase = "measured" /\ stage = "loop" /\ phase' = phase /\ stage' = stage
        /\ next_request < due /\ next_request' = next_request + 1
        /\ pc = "idle" /\ pc' = pc
        /\ num_cached' = [num_cached EXCEPT ![s] = 0]
        /\ token_ids'[s] = Workload[next_request + 1]
        /\ UNCHANGED <<cold, due, maximum_pages, stats, sampled>>
        /\ AddRequest(s)
    BY <1>1 DEF Send, MaySend, Add, Arrive, stepVars
  <1>3. SentInOrder /\ Counted /\ Peaks
    BY <1>2 DEF MetricsTell, Sound
  <1>4. /\ records \in Seq(Records) /\ num_cached \in [Seqs -> Nat]
    BY DEF DriverShape
  <1>5. /\ DOMAIN records = 1 .. n /\ DOMAIN records' = 1 .. n + 1 /\ Len(records') = n + 1
        /\ records'[n + 1] = [id |-> s, state |-> "active", cached |-> 0, tokens |-> 0]
        /\ \A i \in 1 .. n : records'[i] = records[i]
    BY <1>0, <1>1, <1>4
  <1>6. /\ AlikeBut(s)
        /\ status[s] = "NEW" /\ status'[s] = "ACTIVE" /\ block_table'[s] = <<>>
        /\ prompt_len'[s] = Len(token_ids'[s])
    BY <1>2, AddRequestEffect DEF EngineKept, KVInv
  <1>7. \A i \in Live : records[i].id \in Seqs \ {s}
    BY <1>2, <1>6 DEF OneRecordEach
  <1>8. Live' = Live \union {n + 1} /\ Live \subseteq 1 .. n
    BY <1>4, <1>5 DEF Live
  <1>9. \A i \in DOMAIN records : records[i].state = "active" =>
            /\ HasPages(records[i].id)' <=> HasPages(records[i].id)
            /\ num_cached'[records[i].id] = num_cached[records[i].id]
            /\ status'[records[i].id] = status[records[i].id]
    <2>1. \A r \in Seqs \ {s} :
              /\ status'[r] = status[r] /\ block_table'[r] = block_table[r]
              /\ num_cached'[r] = num_cached[r]
      BY <1>2, <1>4, <1>6 DEF AlikeBut, Alike
    <2>2. \A i \in DOMAIN records : records[i].state = "active" => i \in Live
      BY DEF Live
    <2> QED
      BY <1>5, <1>7, <2>1, <2>2 DEF HasPages
  <1>10. SentInOrder'
    <2>1. Len(records') = next_request' /\ next_request' <= due' /\ due' <= Len(Workload)
      BY <1>0, <1>2, <1>3, <1>4, <1>5 DEF SentInOrder, Gauges
    <2>2. prompt_len'[records'[n + 1].id] = Len(Workload[n + 1])
      <3>1. next_request = n
        BY <1>0, <1>3 DEF SentInOrder
      <3> QED
        BY <1>2, <1>5, <1>6, <3>1
    <2>3. \A i \in Live : prompt_len'[records'[i].id] = Len(Workload[i])
      <3>1. \A r \in Seqs \ {s} : prompt_len'[r] = prompt_len[r]
        BY <1>6 DEF AlikeBut, Alike
      <3> QED
        BY <1>3, <1>5, <1>7, <1>8, <3>1 DEF SentInOrder
    <2> QED
      BY <1>8, <2>1, <2>2, <2>3 DEF SentInOrder
  <1>11. /\ ~ HasPages(s)' /\ num_cached'[s] = 0
    BY <1>2, <1>4, <1>6 DEF HasPages
  <1>12. Tally'
    <2>1. Admitted' = Admitted
      <3>1. ~ HasPages(records[n + 1].id)'
        BY <1>5, <1>11 DEF HasPages
      <3>2. n + 1 \notin Admitted'
        BY <1>5, <3>1 DEF Admitted
      <3>3. \A i \in 1 .. n : i \in Admitted' <=> i \in Admitted
        BY <1>4, <1>5, <1>9 DEF Admitted
      <3>4. Admitted \subseteq 1 .. n /\ Admitted' \subseteq 1 .. n + 1
        BY <1>5 DEF Admitted
      <3>5. \A i \in 1 .. n + 1 : i \in 1 .. n \/ i = n + 1
        OBVIOUS
      <3>6. 1 .. n \subseteq 1 .. n + 1
        OBVIOUS
      <3> QED
        BY <3>2, <3>3, <3>4, <3>5, <3>6
    <2> DEFINE old == [i \in 1 .. n + 1 |-> IF i = n + 1 THEN 0 ELSE CachedTokens[i]]
    <2>2. \A i \in 1 .. n : CachedTokens[i] \in Int
      BY <1>5, CountsOfRecords
    <2>3. CachedTokens' = old
      <3>1. CachedOf(n + 1)' = 0
        BY <1>5, <1>11 DEF CachedOf
      <3>2. \A i \in 1 .. n : CachedOf(i)' = CachedTokens[i]
        BY <1>5, <1>9 DEF CachedOf, CachedTokens
      <3> QED
        BY <1>4, <1>5, <3>1, <3>2 DEF CachedTokens
    <2>4. SumFunctionOnSet(old, 1 .. n + 1) = SumFunctionOnSet(CachedTokens, 1 .. n)
      <3>1. /\ IsFiniteSet(1 .. n) /\ n + 1 \notin 1 .. n
            /\ \A i \in 1 .. n : i \in 1 .. n + 1 /\ i # n + 1
            /\ n + 1 \in 1 .. n + 1 /\ 1 .. n + 1 = (1 .. n) \union {n + 1}
        <4>1. IsFiniteSet(1 .. n)
          BY FS_Interval
        <4>2. n + 1 \notin 1 .. n /\ n + 1 \in 1 .. n + 1
          OBVIOUS
        <4>3. \A i \in 1 .. n : i \in 1 .. n + 1 /\ i # n + 1
          OBVIOUS
        <4>4. \A i \in 1 .. n + 1 : i \in 1 .. n \/ i = n + 1
          OBVIOUS
        <4>5. 1 .. n + 1 = (1 .. n) \union {n + 1}
          BY <4>2, <4>3, <4>4
        <4> QED
          BY <4>1, <4>2, <4>3, <4>5
      <3>2. \A i \in 1 .. n : old[i] \in Int /\ CachedTokens[i] = old[i]
        BY <2>2, <3>1
      <3>3. old[n + 1] = 0
        BY <3>1
      <3> HIDE DEF old
      <3>6. \A i \in (1 .. n) \union {n + 1} : old[i] \in Int
        BY <3>2, <3>3
      <3>4. /\ SumFunctionOnSet(old, 1 .. n) \in Int
            /\ SumFunctionOnSet(old, (1 .. n) \union {n + 1})
                = old[n + 1] + SumFunctionOnSet(old, 1 .. n)
        BY <3>1, <3>6, SumWithOne
      <3>5. SumFunctionOnSet(CachedTokens, 1 .. n) = SumFunctionOnSet(old, 1 .. n)
        BY <2>2, <3>1, <3>2, SumOfSame
      <3>7. SumFunctionOnSet(old, 1 .. n + 1) = SumFunctionOnSet(old, (1 .. n) \union {n + 1})
        BY <3>1, Zenon
      <3>8. SumFunctionOnSet(old, (1 .. n) \union {n + 1}) = SumFunctionOnSet(old, 1 .. n)
        BY <3>3, <3>4
      <3> QED
        BY <3>5, <3>7, <3>8, Zenon
    <2> QED
      BY <1>2, <1>3, <1>5, <2>1, <2>3, <2>4 DEF Counted, Tally
  <1>13. NothingToReuse'
    <2>1. hash_to_block_id' = hash_to_block_id
      BY <1>2 DEF AddRequest, metaVars
    <2> QED
      BY <1>2, <1>3, <2>1 DEF Counted, NothingToReuse
  <1>14. \A i \in DOMAIN records' : Noted(i)'
    <2>1. Noted(n + 1)'
      BY <1>5, <1>11 DEF Noted
    <2>2. \A i \in 1 .. n : Noted(i)'
      BY <1>2, <1>3, <1>5, <1>9 DEF Counted, Noted
    <2> QED
      BY <1>4, <1>5, <2>1, <2>2
  <1>15. Peaks'
    <2>1. \A i \in 1 .. n :
              IF records'[i].state = "active"
              THEN status'[records'[i].id] = "FINISHED" => PeakOf(i) <= sampled'
              ELSE PeakOf(i) <= maximum_pages'
      BY <1>2, <1>3, <1>5, <1>9 DEF Peaks
    <2>2. records'[n + 1].state = "active" /\ status'[records'[n + 1].id] # "FINISHED"
      BY <1>5, <1>6
    <2> QED
      BY <1>2, <1>4, <1>5, <2>1, <2>2 DEF Peaks, PeakOf, required_blocks
  <1> QED
    BY <1>10, <1>12, <1>13, <1>14, <1>15 DEF Counted, MetricsTell

\* The driver looks at its active requests, and the counters stay what they were.
LEMMA ObserveCounts ==
    ASSUME EngineKept, DriverShape, Gauges, OneRecordEach, RecordsTell, Observe, MetricsTell
    PROVE  MetricsTell'
  <1>1. /\ stage = "observe" /\ stage' = "forget" /\ pc' = pc
        /\ UNCHANGED <<cold, phase, next_request, due, num_cached, stats, sampled>>
        /\ UNCHANGED vars
        /\ records' = [i \in DOMAIN records |->
                          IF i \in Active THEN Look(records[i]) ELSE records[i]]
        /\ maximum_pages' = Max({maximum_pages, sampled})
    BY DEF Observe, engineVars, stepVars, telemetryVars
  <1>2. UNCHANGED <<status, block_table, prompt_len, hash_to_block_id>>
    BY <1>1 DEF vars, bmVars, metaVars, reqVars
  <1>3. /\ Sound /\ pc = "idle" /\ TypeOK /\ num_cached \in [Seqs -> Nat]
        /\ DOMAIN records' = DOMAIN records
    BY <1>1 DEF Sound, DriverShape, EngineKept, KVInv, Inv
  <1> SUFFICES ASSUME phase = "measured"
               PROVE  MetricsTell'
    BY <1>1 DEF MetricsTell
  <1>4. SentInOrder /\ Counted /\ Peaks
    BY <1>3 DEF MetricsTell
  <1>5. ASSUME NEW i \in DOMAIN records, records[i].state = "active"
        PROVE  /\ records'[i].id = records[i].id
               /\ records'[i].cached = num_cached[records[i].id]
               /\ records'[i].state =
                    IF status[records[i].id] = "FINISHED" THEN "finished" ELSE "active"
    <2>1. records'[i] = Look(records[i])
      BY <1>1, <1>5 DEF Active
    <2>2. /\ Look(records[i]).id = records[i].id
          /\ Look(records[i]).cached = Max({records[i].cached, num_cached[records[i].id]})
          /\ Look(records[i]).state =
                IF status[records[i].id] = "FINISHED" THEN "finished" ELSE records[i].state
      BY <1>3, RecordOf, LookAt
    <2>3. records[i].cached <= num_cached[records[i].id]
      BY <1>4, <1>5 DEF Counted, Noted
    <2>4. records[i].cached \in Nat /\ num_cached[records[i].id] \in Nat
      BY <1>3, RecordOf
    <2>5. Max({records[i].cached, num_cached[records[i].id]}) = num_cached[records[i].id]
      BY <2>3, <2>4, Greater
    <2> QED
      BY <1>5, <2>1, <2>2, <2>5
  <1>6. \A i \in DOMAIN records : records[i].state # "active" => records'[i] = records[i]
    BY <1>1 DEF Active
  <1>7. ASSUME NEW i \in DOMAIN records
        PROVE  /\ records'[i].id = records[i].id
               /\ i \in Live' <=> i \in Live
               /\ i \in Admitted' <=> i \in Admitted
               /\ CachedOf(i)' = CachedOf(i)
               /\ Noted(i)'
    <2>1. CASE records[i].state = "active"
      <3>1. HasPages(records[i].id)' <=> HasPages(records[i].id)
        BY <1>2, <1>5, <2>1 DEF HasPages
      <3>2. status[records[i].id] = "FINISHED" => HasPages(records[i].id)
        BY DEF HasPages
      <3>3. i \in Admitted' <=> i \in Admitted
        BY <1>3, <1>5, <2>1, <3>1, <3>2 DEF Admitted
      <3>4. CachedOf(i)' = CachedOf(i)
        BY <1>1, <1>5, <2>1 DEF CachedOf
      <3>5. Noted(i)
        BY <1>4 DEF Counted
      <3>6. num_cached[records[i].id] \in Nat
        BY <1>3, RecordOf
      <3>7. num_cached[records[i].id] <= num_cached[records[i].id]
        BY <3>6
      <3>8. Noted(i)'
        BY <1>1, <1>5, <2>1, <3>1, <3>5, <3>7 DEF Noted
      <3> QED
        BY <1>3, <1>5, <2>1, <3>3, <3>4, <3>8 DEF Live
    <2>2. CASE records[i].state # "active"
      BY <1>3, <1>6, <2>2 DEF Live, Admitted, CachedOf, Noted
    <2> QED
      BY <2>1, <2>2
  <1>8. Live' = Live /\ Admitted' = Admitted
    <2>1. Live \subseteq DOMAIN records /\ Live' \subseteq DOMAIN records
      BY <1>3 DEF Live
    <2>2. Admitted \subseteq DOMAIN records /\ Admitted' \subseteq DOMAIN records
      BY <1>3 DEF Admitted
    <2> QED
      BY <1>7, <2>1, <2>2
  <1>9. SentInOrder'
    <2>1. Len(records') = Len(records)
      BY <1>3 DEF DriverShape
    <2>2. \A i \in Live : records'[i].id = records[i].id
      BY <1>7 DEF Live
    <2> QED
      BY <1>1, <1>2, <1>4, <1>8, <2>1, <2>2 DEF SentInOrder
  <1>10. Counted'
    <2>1. Tally'
      BY <1>1, <1>3, <1>4, <1>7, <1>8, SameTally DEF Counted
    <2>2. NothingToReuse'
      BY <1>1, <1>2, <1>4 DEF Counted, NothingToReuse
    <2> QED
      BY <1>3, <1>7, <2>1, <2>2 DEF Counted
  <1>11. Peaks'
    <2>1. /\ maximum_pages' \in Nat /\ maximum_pages <= maximum_pages'
          /\ sampled <= maximum_pages'
      BY <1>1, Greater DEF Gauges
    <2>2. ASSUME NEW i \in DOMAIN records
          PROVE  IF records'[i].state = "active"
                 THEN status'[records'[i].id] = "FINISHED" => PeakOf(i) <= sampled'
                 ELSE PeakOf(i) <= maximum_pages'
      <3>1. PICK p \in Nat : p = PeakOf(i)
        BY <1>4, Sizes DEF Gauges
      <3>2. CASE records[i].state = "active" /\ status[records[i].id] = "FINISHED"
        <4>1. p <= sampled
          BY <1>4, <3>1, <3>2 DEF Peaks
        <4>2. p <= maximum_pages'
          BY <2>1, <4>1 DEF Gauges
        <4> QED
          BY <1>5, <3>1, <3>2, <4>2
      <3>3. CASE records[i].state = "active" /\ status[records[i].id] # "FINISHED"
        BY <1>2, <1>5, <3>3
      <3>4. CASE records[i].state # "active"
        <4>1. p <= maximum_pages
          BY <1>4, <3>1, <3>4 DEF Peaks
        <4>2. p <= maximum_pages'
          BY <2>1, <4>1 DEF Gauges
        <4> QED
          BY <1>6, <3>1, <3>4, <4>2
      <3> QED
        BY <3>2, <3>3, <3>4
    <2>3. \A i \in DOMAIN records : PeakOf(i)' = PeakOf(i)
      BY DEF PeakOf, required_blocks
    <2> QED
      BY <1>1, <1>3, <2>2, <2>3 DEF Peaks
  <1> QED
    BY <1>9, <1>10, <1>11 DEF MetricsTell

\* A record that is completed keeps what it noted.
LEMMA ForgetCounts ==
    ASSUME EngineKept, DriverShape, Gauges, OneRecordEach, RecordsTell, ForgetFinished, MetricsTell
    PROVE  MetricsTell'
  <1>1. /\ stage = "forget" /\ pc = "idle" /\ pc' = pc
        /\ UNCHANGED <<cold, phase, next_request, due, maximum_pages, num_cached, stats, sampled>>
    BY DEF ForgetFinished, telemetryVars, engineVars, stepVars, Drop, DriverShape
  <1> SUFFICES ASSUME phase = "measured"
               PROVE  MetricsTell'
    BY <1>1 DEF MetricsTell
  <1>2. SentInOrder /\ Counted /\ Peaks
    BY <1>1 DEF MetricsTell, Sound
  <1>3. CASE ToForget = {}
    <2>1. records' = records /\ stage' = "loop" /\ UNCHANGED vars
      BY <1>3 DEF ForgetFinished, ToForget, engineVars
    <2>2. UNCHANGED <<status, block_table, prompt_len, hash_to_block_id>>
      BY <2>1 DEF vars, bmVars, metaVars, reqVars
    <2>3. Admitted' = Admitted /\ \A i \in DOMAIN records : CachedOf(i)' = CachedOf(i)
      BY <1>1, <2>1, <2>2 DEF Admitted, HasPages, CachedOf
    <2>4. Tally'
      BY <1>1, <1>2, <2>1, <2>3, SameTally DEF Counted
    <2>5. NothingToReuse' /\ \A i \in DOMAIN records : Noted(i)'
      BY <1>1, <1>2, <2>1, <2>2 DEF Counted, NothingToReuse, Noted, HasPages
    <2>6. SentInOrder'
      BY <1>1, <1>2, <2>1, <2>2 DEF SentInOrder, Live
    <2>7. Peaks'
      BY <1>1, <1>2, <2>1, <2>2 DEF Peaks, PeakOf, required_blocks
    <2> QED
      BY <2>1, <2>4, <2>5, <2>6, <2>7 DEF Counted, MetricsTell
  <1>4. CASE ToForget # {}
    <2>1. PICK i \in DOMAIN records : i = Min(ToForget)
      BY <1>4, FirstToForget DEF ToForget
    <2>2. records[i].state = "finished"
      BY <1>4, <2>1, FirstToForget DEF ToForget
    <2>3. PICK s \in Seqs : s = records[i].id
      BY RecordOf
    <2>4. /\ Forget(s) /\ stage' = stage
          /\ records' = [records EXCEPT ![i].state = "completed"]
      BY <1>4, <2>1, <2>3 DEF ForgetFinished, ToForget, Drop
    <2>5. AlikeBut(s) /\ UNCHANGED <<block_table, hash_to_block_id>>
      BY <2>4, ForgetEffect DEF EngineKept, KVInv, Forget, metaVars
    <2>6. /\ DOMAIN records' = DOMAIN records
          /\ \A j \in DOMAIN records : j # i => records'[j] = records[j]
          /\ records'[i].id = s /\ records'[i].state = "completed"
          /\ records'[i].cached = records[i].cached
      <3>1. records[i] \in Records
        BY RecordOf
      <3> QED
        BY <2>3, <2>4, <3>1 DEF Records
    <2>7. Live' = Live \ {i} /\ i \in Live
      BY <2>2, <2>6 DEF Live
    <2>8. \A j \in Live \ {i} : records[j].id \in Seqs \ {s}
      <3>1. \A j \in Live : records[j].id \in Seqs
        BY RecordOf DEF Live
      <3> QED
        BY <2>3, <2>7, <3>1 DEF OneRecordEach
    <2>9. ASSUME NEW j \in Live \ {i}
          PROVE  /\ records'[j] = records[j]
                 /\ status'[records[j].id] = status[records[j].id]
                 /\ block_table'[records[j].id] = block_table[records[j].id]
                 /\ prompt_len'[records[j].id] = prompt_len[records[j].id]
      <3>1. \A r \in Seqs \ {s} :
                /\ status'[r] = status[r] /\ block_table'[r] = block_table[r]
                /\ prompt_len'[r] = prompt_len[r]
        BY <2>5 DEF AlikeBut, Alike
      <3>2. j \in DOMAIN records
        BY DEF Live
      <3> QED
        BY <2>6, <2>8, <3>1, <3>2
    <2>10. ASSUME NEW j \in DOMAIN records
           PROVE  /\ j \in Admitted' <=> j \in Admitted
                  /\ CachedOf(j)' = CachedOf(j)
                  /\ Noted(j)'
                  /\ records'[j].state = "active" <=> records[j].state = "active"
      <3>1. CASE records[j].state = "active"
        <4>1. j \in Live \ {i}
          BY <2>2, <3>1 DEF Live
        <4>2. Noted(j)
          BY <1>2 DEF Counted
        <4>3. HasPages(records[j].id)' <=> HasPages(records[j].id)
          BY <2>9, <4>1 DEF HasPages
        <4> QED
          BY <1>1, <2>4, <2>6, <2>9, <3>1, <4>1, <4>2, <4>3 DEF Admitted, CachedOf, Noted
      <3>2. CASE records[j].state # "active"
        <4>1. records'[j].state # "active" /\ records'[j].cached = records[j].cached
          BY <2>6, <3>2
        <4> QED
          BY <2>6, <3>2, <4>1 DEF Admitted, CachedOf, Noted
      <3> QED
        BY <3>1, <3>2
    <2>11. Admitted' = Admitted
      <3>1. Admitted \subseteq DOMAIN records /\ Admitted' \subseteq DOMAIN records
        BY <2>6 DEF Admitted
      <3> QED
        BY <2>10, <3>1
    <2>12. Tally'
      BY <1>1, <1>2, <2>6, <2>10, <2>11, SameTally DEF Counted
    <2>13. NothingToReuse'
      BY <1>1, <1>2, <2>5 DEF Counted, NothingToReuse
    <2>14. SentInOrder'
      <3>1. Len(records') = Len(records)
        BY <2>4 DEF DriverShape
      <3> QED
        BY <1>1, <1>2, <2>7, <2>9, <3>1 DEF SentInOrder
    <2>15. Peaks'
      <3>1. ASSUME NEW j \in DOMAIN records
            PROVE  IF records'[j].state = "active"
                   THEN status'[records'[j].id] = "FINISHED" => PeakOf(j) <= sampled'
                   ELSE PeakOf(j) <= maximum_pages'
        <4>1. CASE records[j].state = "active"
          <5>1. j \in Live \ {i}
            BY <2>2, <4>1 DEF Live
          <5> QED
            BY <1>1, <1>2, <2>9, <4>1, <5>1 DEF Peaks
        <4>2. CASE records[j].state # "active"
          BY <1>1, <1>2, <2>10, <4>2 DEF Peaks
        <4> QED
          BY <4>1, <4>2
      <3>2. \A j \in DOMAIN records : PeakOf(j)' = PeakOf(j)
        BY DEF PeakOf, required_blocks
      <3> QED
        BY <1>1, <2>6, <3>1, <3>2 DEF Peaks
    <2> QED
      BY <2>6, <2>10, <2>12, <2>13, <2>14, <2>15 DEF Counted, MetricsTell
  <1> QED
    BY <1>3, <1>4

MetricsInv == RecordsInv /\ Gauges /\ MetricsTell

LEMMA MetricsInit == HarnessInit => MetricsInv
  <1> SUFFICES ASSUME HarnessInit
               PROVE  MetricsInv
    OBVIOUS
  <1>1. phase = "warm-up" /\ due = 0 /\ sampled = 0 /\ maximum_pages = 0
    BY DEF HarnessInit
  <1> QED
    BY <1>1, RecordsInit DEF Gauges, MetricsTell, MetricsInv

LEMMA MetricsStep ==
    ASSUME MetricsInv, [HarnessNext]_harnessVars
    PROVE  MetricsInv'
  <1>1. RecordsInv /\ RecordsInv' /\ Gauges /\ MetricsTell
    BY RecordsStep DEF MetricsInv
  <1>2. /\ EngineKept /\ DriverShape /\ OneRecordEach /\ RecordsTell
        /\ EngineKept' /\ DriverShape' /\ OneRecordEach' /\ RecordsTell'
    BY <1>1 DEF RecordsInv
  <1>3. Gauges'
    BY <1>1, <1>2, GaugesStep
  <1>4. MetricsTell'
    <2>1. CASE UNCHANGED harnessVars
      <3>1. UNCHANGED <<cold, phase, stage, next_request, due, records, maximum_pages, pc, status,
                        work, block_table, prompt_len, hash_to_block_id, num_cached, stats,
                        sampled>>
        BY <2>1 DEF harnessVars, driverVars, telemetryVars, engineVars, stepVars, vars, bmVars,
                    metaVars, reqVars, runVars
      <3>2. /\ Live' = Live /\ Admitted' = Admitted
            /\ \A i \in DOMAIN records : CachedOf(i)' = CachedOf(i)
            /\ \A i \in DOMAIN records : Noted(i)' <=> Noted(i)
        BY <3>1 DEF Live, Admitted, HasPages, CachedOf, Noted
      <3> SUFFICES ASSUME SentInOrder, Counted, Peaks
                   PROVE  SentInOrder' /\ Counted' /\ Peaks'
        BY <1>1, <3>1 DEF MetricsTell, Sound
      <3>3. SentInOrder'
        BY <3>1, <3>2 DEF SentInOrder
      <3>4. Tally'
        BY <3>1, <3>2, SameTally DEF Counted
      <3>5. NothingToReuse'
        BY <3>1 DEF Counted, NothingToReuse
      <3>6. Peaks'
        BY <3>1 DEF Peaks, PeakOf, required_blocks
      <3> QED
        BY <3>1, <3>2, <3>3, <3>4, <3>5, <3>6 DEF Counted
    <2>2. CASE Turn
      <3> SUFFICES ASSUME phase' = "measured", Sound'
                   PROVE  SentInOrder' /\ Counted' /\ Peaks'
        BY DEF MetricsTell
      <3>1. phase = "measured" /\ Sound
        BY <1>2, <2>2, SoundTurn DEF Turn
      <3>2. SentInOrder /\ Counted /\ Peaks
        BY <1>1, <3>1 DEF MetricsTell
      <3> QED
        BY <1>1, <1>2, <2>2, <3>1, <3>2, TurnCounts, TurnPeaks
    <2>3. CASE WarmUp \/ GenerateStep \/ \E s \in Seqs : Collect(s)
      BY <2>3 DEF WarmUp, GenerateStep, CallStep, Collect, driverVars, MetricsTell
    <2>4. CASE StartMeasurement
      BY <1>2, <2>4, StartCounts
    <2>5. CASE Send
      BY <1>1, <1>2, <2>5, SendCounts
    <2>6. CASE MeasuredStep \/ Finish \/ Tick
      <3>1. /\ phase = "measured" /\ stage = "loop"
            /\ UNCHANGED <<cold, phase, records, next_request, maximum_pages, vars, num_cached,
                           stats, sampled>>
            /\ due' = due \/ (due < Len(Workload) /\ due' = due + 1)
            /\ stage' \in {"loop", "step", "done"}
        BY <2>6 DEF MeasuredStep, CallStep, StartStep, Finish, Tick, engineVars, telemetryVars
      <3>2. pc' \notin {"model", "post"}
        <4>1. CASE MeasuredStep
          BY <4>1 DEF MeasuredStep, CallStep, StartStep, EnterPrefill, EnterDecode
        <4>2. CASE Finish \/ Tick
          BY <1>2, <3>1, <4>2 DEF Finish, Tick, engineVars, stepVars, DriverShape
        <4> QED
          BY <2>6, <4>1, <4>2
      <3> QED
        BY <1>1, <1>2, <3>1, <3>2, LoopCounts
    <2>7. CASE Observe
      BY <1>1, <1>2, <2>7, ObserveCounts
    <2>8. CASE ForgetFinished
      BY <1>1, <1>2, <2>8, ForgetCounts
    <2> QED
      BY <2>1, <2>2, <2>3, <2>4, <2>5, <2>6, <2>7, <2>8 DEF HarnessNext, Driver
  <1> QED
    BY <1>1, <1>3, <1>4 DEF MetricsInv

LEMMA MetricsInvariance == HarnessSpec => []MetricsInv
  <1>1. MetricsInv /\ [HarnessNext]_harnessVars => MetricsInv'
    BY MetricsStep
  <1> QED
    BY <1>1, MetricsInit, PTL DEF HarnessSpec

\* The counters reported with the records are those of the records, a cold start
\* has nothing to reuse for the first prompt it admits, and the peak is no less
\* than the pages that any completed request held for its last token.
THEOREM MetricsAreExact == HarnessSpec => []MetricsExact
  <1>1. MetricsInv => MetricsExact
    <2> DEFINE noted == [i \in DOMAIN records |-> records[i].cached]
               admitted == {i \in DOMAIN records :
                                i \in Active => block_table[records[i].id] # <<>>}
    <2> SUFFICES ASSUME MetricsInv, BetweenSteps
                 PROVE  /\ stats.admitted = Cardinality(admitted)
                        /\ stats.reused = SumFunction(noted)
                        /\ cold /\ stats.admitted = 1 => stats.reused = 0
                        /\ \A i \in DOMAIN records \ Active :
                            maximum_pages >= required_blocks(Len(Workload[i]) + MaxTokens - 1)
      BY DEF MetricsExact
    <2>1. EngineKept /\ DriverShape /\ OneRecordEach /\ RecordsTell /\ Gauges /\ MetricsTell
      BY DEF MetricsInv, RecordsInv
    <2>2. /\ phase = "measured" /\ stage \in {"loop", "done"} /\ pc = "idle" /\ Sound
      BY <2>1 DEF BetweenSteps, DriverShape, Sound
    <2>3. SentInOrder /\ Counted /\ Peaks
      BY <2>1, <2>2 DEF MetricsTell
    <2>4. \A i \in Active : status[records[i].id] = "ACTIVE"
      <3> SUFFICES ASSUME NEW i \in Active
                   PROVE  status[records[i].id] = "ACTIVE"
        OBVIOUS
      <3>1. i \in DOMAIN records /\ records[i].state = "active" /\ i \in Live
        BY DEF Active, Live
      <3>2. PICK s \in Seqs : s = records[i].id
        BY <2>1, <3>1, RecordOf
      <3>3. status[s] # "NEW"
        BY <2>1, <2>2, <3>1, <3>2 DEF OneRecordEach
      <3>4. status[s] # "FINISHED"
        BY <2>1, <2>2, <3>1, <3>2 DEF RecordsTell, TellsActive
      <3>5. status[s] \in {"NEW", "ACTIVE", "FINISHED"}
        BY <2>1 DEF EngineKept, KVInv, Inv, TypeOK
      <3> QED
        BY <3>2, <3>3, <3>4, <3>5
    <2>5. admitted = Admitted
      BY <2>4 DEF Admitted, HasPages, Active
    <2>6. noted = CachedTokens
      <3>1. \A i \in DOMAIN records : CachedOf(i) = records[i].cached
        BY <2>2, <2>3 DEF Counted, Noted, CachedOf
      <3> QED
        BY <3>1 DEF CachedTokens
    <2>7. stats.admitted = Cardinality(admitted)
      BY <2>3, <2>5 DEF Counted, Tally
    <2>8. stats.reused = SumFunction(noted)
      <3>1. stats.reused = SumFunctionOnSet(CachedTokens, DOMAIN CachedTokens)
        BY <2>3 DEF Counted, Tally, CachedTokens
      <3> QED
        BY <2>6, <3>1 DEF SumFunction, SumFunctionOnSet, FoldFunction
    <2>9. cold /\ stats.admitted = 1 => stats.reused = 0
      BY <2>3 DEF Counted, NothingToReuse
    <2>10. \A i \in DOMAIN records \ Active :
                maximum_pages >= required_blocks(Len(Workload[i]) + MaxTokens - 1)
      <3> SUFFICES ASSUME NEW i \in DOMAIN records, i \notin Active
                   PROVE  maximum_pages >= PeakOf(i)
        BY DEF PeakOf
      <3>1. PICK p \in Nat : p = PeakOf(i)
        BY <2>1, <2>3, Sizes DEF Gauges
      <3>2. p <= maximum_pages
        BY <2>3, <3>1 DEF Peaks, Active
      <3> QED
        BY <2>1, <3>1, <3>2 DEF Gauges
    <2> QED
      BY <2>7, <2>8, <2>9, <2>10
  <1> QED
    BY <1>1, MetricsInvariance, PTL

=============================================================================
