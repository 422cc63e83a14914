------------------------------- MODULE Server -------------------------------
(***************************************************************************)
(* The HTTP surface: nanovllm_pp/server/app.py.                            *)
(*                                                                         *)
(* Every completion or stream is a coroutine that drives the one engine    *)
(* itself: it takes the step lock, runs one engine step in a worker        *)
(* thread, looks at its own requests and yields.  A step therefore         *)
(* advances the requests of other handlers too, and may fail on their      *)
(* account.  A client can go away at any point at which its handler        *)
(* awaits.                                                                 *)
(*                                                                         *)
(* The engine is reduced to what a handler sees of it.  Module Engine has  *)
(* its inside, and shows that a step which does not raise computes         *)
(* something.  The text of a stream is a sequence of glyphs that the       *)
(* tokenizer decodes anew after every step, and that more tokens may       *)
(* rewrite; a completion reads its text once, when it is whole, and this   *)
(* is left out.                                                            *)
(***************************************************************************)
EXTENDS Integers, Sequences, SequencesExt

CONSTANTS
    Clients,     \* concurrent HTTP requests
    Streams,     \* those with stream=True
    Monitors,    \* those for /metrics
    Requests,    \* engine requests
    Owner,       \* the HTTP request that an engine request comes from
    MaxText,     \* SamplingParams.max_tokens of each request
    MaxChunks,   \* chunks of each prompt before the one that gives its first token
    Glyphs,      \* what texts are made of
    Texts,       \* the texts that may be generated
    Rewrites,    \* decoding more tokens may change the text of the first ones
    StopLength,  \* glyphs of a stop string, 0 without stop strings
    NoOne        \* the lock is free

ASSUME OwnerAssumption == Owner \in [Requests -> Clients]
\* "streaming accepts one prompt per request"
ASSUME StreamsAssumption ==
    /\ Streams \subseteq Clients
    /\ \A c \in Streams : \E r \in Requests : \A q \in Requests : Owner[q] = c <=> q = r
ASSUME MonitorsAssumption ==
    Monitors \subseteq Clients \ Streams /\ \A r \in Requests : Owner[r] \notin Monitors
ASSUME TokensAssumption == MaxText \in [Requests -> Nat \ {0}] /\ MaxChunks \in [Requests -> Nat]
\* Without any token there is no text, and a stop string may cut it anywhere.
ASSUME TextsAssumption ==
    /\ Texts \subseteq Seq(Glyphs) /\ <<>> \in Texts
    /\ \A t \in Texts : \A n \in 0 .. Len(t) : SubSeq(t, 1, n) \in Texts
    /\ Rewrites \in BOOLEAN /\ StopLength \in Nat
ASSUME NoOneAssumption == NoOne \notin Clients

VARIABLES
    request,    \* LLMEngine._sequences: none, live or finished
    output,     \* tokens generated for the request
    chunks,     \* chunks of its prompt that run before the one with its first token
    text,       \* of a stream: its decoded text, cut before a stop string
    rewritten,  \* history of a stream: its text once changed other than by growing
    worker,     \* engine.step is running in its thread
    holder,     \* who holds step_lock across an await
    queue,      \* coroutines that wait for step_lock, first come first served
    pc,         \* where the handler awaits
    cancelled,  \* CancelledError was raised in it while its worker was running
    previous,   \* stream_tokens: the last snapshot of which anything was sent
    received,   \* what a stream's client has been sent
    outcome     \* how the handler ended

engineVars == <<request, output, chunks, text, rewritten>>
lockVars == <<worker, holder, queue>>
handlerVars == <<pc, cancelled, previous, received, outcome>>
vars == <<engineVars, lockVars, handlerVars>>

Init ==
    /\ request = [r \in Requests |-> "none"]
    /\ output = [r \in Requests |-> 0]
    /\ chunks = [r \in Requests |-> 0]
    /\ text = [c \in Streams |-> <<>>]
    /\ rewritten = [c \in Streams |-> FALSE]
    /\ worker = FALSE
    /\ holder = NoOne
    /\ queue = <<>>
    /\ pc = [c \in Clients |-> "idle"]
    /\ cancelled = [c \in Clients |-> FALSE]
    /\ previous = [c \in Streams |-> <<>>]
    /\ received = [c \in Streams |-> <<>>]
    /\ outcome = [c \in Clients |-> "none"]

Own(c) == {r \in Requests : Owner[r] = c}
Live == {r \in Requests : request[r] = "live"}

\* Mutant: one finished prompt of a submission is enough.
AllFinished_Any(c) == \E r \in Own(c) : request[r] = "finished"

AllFinished(c) == \A r \in Own(c) : request[r] = "finished"

-----------------------------------------------------------------------------
(* The step lock, an asyncio.Lock.  All but one of its critical sections    *)
(* have no await inside and are one action each.                            *)

AwaitsLock == {"metrics", "add", "check", "step", "snapshot", "final", "release"}

Turn(c, place) ==
    /\ holder = NoOne
    /\ queue # <<>> /\ c = Head(queue)
    /\ pc[c] = place

\* The handler goes on to `place`, at the end of the line if that needs the lock.
GoTo(c, place, line) ==
    /\ pc' = [pc EXCEPT ![c] = place]
    /\ queue' = IF place \in AwaitsLock THEN Append(line, c) ELSE line

Without(line, c) == RemoveFirst(line, c)

Ends(c, how) == outcome' = [outcome EXCEPT ![c] = how]

-----------------------------------------------------------------------------
(* The engine as a handler sees it.                                        *)

Forget(c) ==
    /\ request' = [r \in Requests |-> IF Owner[r] = c THEN "none" ELSE request[r]]
    /\ output' = [r \in Requests |-> IF Owner[r] = c THEN 0 ELSE output[r]]
    /\ chunks' = [r \in Requests |-> IF Owner[r] = c THEN 0 ELSE chunks[r]]
    /\ text' = [d \in Streams |-> IF d = c THEN <<>> ELSE text[d]]
    /\ rewritten' = [d \in Streams |-> rewritten[d] /\ d # c]

\* The text of more tokens, where the text was `old`.
Decoded(old) == {t \in Texts : Rewrites \/ IsPrefix(old, t)}

\* The text of more tokens, cut before a stop string that these tokens complete.
Cut(old) ==
    {kept \in Texts : \E t \in Decoded(old) :
        /\ IsPrefix(kept, t) /\ Len(kept) + StopLength <= Len(t)
        /\ Rewrites \/ Len(kept) + StopLength > Len(old)}

\* The model runs for these requests: a chunk of a prompt gives no token, anything
\* else at least one.
Compute(ran, stops) ==
    LET decodes == {r \in ran : chunks[r] = 0}
    IN  /\ chunks' = [r \in Requests |-> IF r \in ran \ decodes THEN chunks[r] - 1 ELSE chunks[r]]
        /\ \E more \in [decodes -> UNION {1 .. MaxText[r] : r \in decodes}] :
            /\ \A r \in decodes : more[r] \in output[r] + 1 .. MaxText[r]
            /\ output' = [r \in Requests |-> IF r \in decodes THEN more[r] ELSE output[r]]
        /\ text' \in [Streams -> Texts]
        /\ \A c \in Streams :
            text'[c] \in IF Own(c) \intersect stops # {} THEN Cut(text[c])
                         ELSE IF Own(c) \intersect decodes # {} THEN Decoded(text[c])
                         ELSE {text[c]}
        /\ rewritten' = [c \in Streams |-> rewritten[c] \/ ~ IsPrefix(text[c], text'[c])]

\* A step that returns: requests of some batch end at max_tokens, at a terminal
\* token or at a stop string, which streams get to see in their text.
Advance ==
    \E batch \in SUBSET Live :
        /\ Live # {} => batch # {}
        /\ \E ends \in SUBSET {r \in batch : chunks[r] = 0} :
            /\ request' = [r \in Requests |-> IF r \in ends THEN "finished" ELSE request[r]]
            /\ \E stops \in SUBSET {r \in ends : Owner[r] \in Streams} :
                /\ stops # {} => StopLength > 0
                /\ Compute(batch, stops)
            /\ \A r \in batch : output'[r] = MaxText[r] => r \in ends

\* A step that raises: no progress, or a model error that ends its batch, of
\* which some requests may have run.
Raise ==
    /\ Live # {}
    /\ \E batch \in SUBSET Live :
        /\ request' = [r \in Requests |-> IF r \in batch THEN "finished" ELSE request[r]]
        /\ \E ran \in SUBSET batch : Compute(ran, {})

-----------------------------------------------------------------------------
(* The handlers.                                                           *)

\* completions and chat_completions, up to their first await: sampling parameters
\* that are not valid are refused at once.
Submit(c) ==
    /\ pc[c] = "idle"
    /\ \/ /\ GoTo(c, IF c \in Monitors THEN "metrics" ELSE "add", queue)
          /\ UNCHANGED outcome
       \/ /\ c \notin Monitors
          /\ GoTo(c, "done", queue)
          /\ Ends(c, "400")
    /\ UNCHANGED <<engineVars, worker, holder, cancelled, previous, received>>

\* metrics: serving_metrics_snapshot reads the queues, the pool, the tracker and
\* the profiler.
Metrics(c) ==
    /\ Turn(c, "metrics")
    /\ GoTo(c, "done", Tail(queue))
    /\ Ends(c, "ok")
    /\ UNCHANGED <<engineVars, worker, holder, cancelled, previous, received>>

\* Prompts of these requests take some number of chunks.
Chunked(R) ==
    \E n \in [R -> UNION {0 .. MaxChunks[r] : r \in R}] :
        /\ \A r \in R : n[r] <= MaxChunks[r]
        /\ chunks' = [r \in Requests |-> IF r \in R THEN n[r] ELSE chunks[r]]

\* Mutant: the valid prompts of a refused submission stay.
AddRequests_Partial(c) ==
    /\ Turn(c, "add")
    /\ \E R \in SUBSET Own(c) :
        /\ request' = [r \in Requests |-> IF r \in R THEN "live" ELSE request[r]]
        /\ Chunked(R)
        /\ IF R = Own(c) THEN GoTo(c, "check", Tail(queue)) /\ UNCHANGED outcome
                         ELSE GoTo(c, "done", Tail(queue)) /\ Ends(c, "400")
    /\ UNCHANGED <<output, text, rewritten, worker, holder, cancelled, previous, received>>

\* add_requests: all the prompts, or none of them and a 400.
AddRequests(c) ==
    /\ Turn(c, "add")
    /\ \/ /\ request' = [r \in Requests |-> IF r \in Own(c) THEN "live" ELSE request[r]]
          /\ Chunked(Own(c))
          /\ GoTo(c, "check", Tail(queue))
          /\ UNCHANGED outcome
       \/ /\ GoTo(c, "done", Tail(queue))
          /\ Ends(c, "400")
          /\ UNCHANGED <<request, chunks>>
    /\ UNCHANGED <<output, text, rewritten, worker, holder, cancelled, previous, received>>

\* all_finished
Check(c) ==
    /\ Turn(c, "check")
    /\ GoTo(c, IF AllFinished(c) THEN "final" ELSE "step", Tail(queue))
    /\ UNCHANGED <<engineVars, worker, holder, cancelled, previous, received, outcome>>

\* step_once up to the await of the worker, which keeps the lock.
StartStep(c) ==
    /\ Turn(c, "step")
    /\ holder' = c
    /\ worker' = TRUE
    /\ GoTo(c, "stepping", Tail(queue))
    /\ UNCHANGED <<engineVars, cancelled, previous, received, outcome>>

\* Mutant: an exception of the engine leaves the lock taken.
EndStep_KeepLock(c) ==
    /\ worker
    /\ holder = c /\ pc[c] = "stepping"
    /\ worker' = FALSE
    /\ \/ /\ holder' = NoOne
          /\ GoTo(c, IF cancelled[c] THEN "release"
                     ELSE IF c \in Streams THEN "snapshot" ELSE "yield", queue)
          /\ UNCHANGED outcome
          /\ Advance
       \/ /\ UNCHANGED holder
          /\ GoTo(c, "release", queue)
          /\ Ends(c, IF cancelled[c] THEN "cancelled" ELSE "503")
          /\ Raise
    /\ UNCHANGED <<cancelled, previous, received>>

\* The worker is done and step_once goes on: to the next round, to a snapshot
\* if this is a stream, or out of the loop.
EndStep(c) ==
    /\ worker
    /\ holder = c /\ pc[c] = "stepping"
    /\ worker' = FALSE
    /\ holder' = NoOne
    /\ \/ /\ GoTo(c, IF cancelled[c] THEN "release"
                     ELSE IF c \in Streams THEN "snapshot" ELSE "yield", queue)
          /\ UNCHANGED outcome
          /\ Advance
       \/ /\ GoTo(c, "release", queue)
          /\ Ends(c, IF cancelled[c] THEN "cancelled" ELSE "503")
          /\ Raise
    /\ UNCHANGED <<cancelled, previous, received>>

\* Mutant: every snapshot is sent whole.
Snapshot_Whole(c) ==
    /\ Turn(c, "snapshot")
    /\ previous' = [previous EXCEPT ![c] = text[c]]
    /\ received' = [received EXCEPT ![c] = @ \o text[c]]
    /\ GoTo(c, "yield", Tail(queue))
    /\ UNCHANGED <<engineVars, worker, holder, cancelled, outcome>>

\* stream_tokens: a snapshot, and the delta behind the previous one.  A text
\* that does not start with the previous one is sent whole.
Snapshot(c) ==
    /\ Turn(c, "snapshot")
    /\ LET current == text[c]
           delta == IF IsPrefix(previous[c], current)
                    THEN SubSeq(current, Len(previous[c]) + 1, Len(current))
                    ELSE current
       IN  IF delta # <<>>
           THEN /\ previous' = [previous EXCEPT ![c] = current]
                /\ received' = [received EXCEPT ![c] = @ \o delta]
           ELSE UNCHANGED <<previous, received>>
    /\ GoTo(c, "yield", Tail(queue))
    /\ UNCHANGED <<engineVars, worker, holder, cancelled, outcome>>

\* asyncio.sleep(0)
Resume(c) ==
    /\ pc[c] = "yield"
    /\ GoTo(c, "check", queue)
    /\ UNCHANGED <<engineVars, worker, holder, cancelled, previous, received, outcome>>

\* snapshot_outputs(forget=True): the response, or a stream's final chunk.
Final(c) ==
    /\ Turn(c, "final")
    /\ Forget(c)
    /\ Ends(c, "ok")
    /\ GoTo(c, "release", Tail(queue))
    /\ UNCHANGED <<worker, holder, cancelled, previous, received>>

\* release_requests, in the `finally` of both kinds of handler.
Release(c) ==
    /\ Turn(c, "release")
    /\ Forget(c)
    /\ GoTo(c, "done", Tail(queue))
    /\ UNCHANGED <<worker, holder, cancelled, previous, received, outcome>>

\* The HTTP request is over; its place in the model serves another one.
Leave(c) ==
    /\ pc[c] = "done"
    /\ GoTo(c, "idle", queue)
    /\ cancelled' = [cancelled EXCEPT ![c] = FALSE]
    /\ previous' = [d \in Streams |-> IF d = c THEN <<>> ELSE previous[d]]
    /\ received' = [d \in Streams |-> IF d = c THEN <<>> ELSE received[d]]
    /\ Ends(c, "none")
    /\ UNCHANGED <<engineVars, worker, holder>>

\* Mutants: a cancelled handler skips its clean-up; it stays in the line for the
\* lock; the lock is released while the worker thread is still running.
Disconnect_NoCleanup(c) ==
    /\ pc[c] \in {"add", "check", "step", "snapshot", "yield", "final"}
    /\ GoTo(c, "done", Without(queue, c))
    /\ Ends(c, "cancelled")
    /\ UNCHANGED <<engineVars, worker, holder, cancelled, previous, received>>
Disconnect_StaysInLine(c) ==
    /\ pc[c] \in {"add", "check", "step", "snapshot", "yield", "final"}
    /\ GoTo(c, IF pc[c] = "add" THEN "done" ELSE "release", queue)
    /\ Ends(c, "cancelled")
    /\ UNCHANGED <<engineVars, worker, holder, cancelled, previous, received>>
Disconnect_DropLock(c) ==
    /\ pc[c] = "stepping"
    /\ GoTo(c, "release", queue)
    /\ holder' = NoOne
    /\ Ends(c, "cancelled")
    /\ UNCHANGED <<engineVars, worker, cancelled, previous, received>>

\* CancelledError at whichever await the handler is in.  It is kept from the
\* worker and from the clean-up by shields; before add_requests has the lock, and
\* in metrics, there is nothing to clean up.
Disconnect(c) ==
    /\ pc[c] \in {"metrics", "add", "check", "step", "stepping", "snapshot", "yield", "final"}
    /\ ~ cancelled[c]
    /\ IF pc[c] = "stepping"
       THEN /\ cancelled' = [cancelled EXCEPT ![c] = TRUE]
            /\ UNCHANGED <<pc, queue>>
       ELSE /\ GoTo(c, IF pc[c] \in {"metrics", "add"} THEN "done" ELSE "release", Without(queue, c))
            /\ UNCHANGED cancelled
    /\ Ends(c, "cancelled")
    /\ UNCHANGED <<engineVars, worker, holder, previous, received>>

-----------------------------------------------------------------------------

\* What the event loop and the worker thread do for a handler by themselves.
Handler(c) ==
    \/ Metrics(c)
    \/ AddRequests(c) \/ Check(c) \/ StartStep(c) \/ EndStep(c)
    \/ Snapshot(c) \/ Resume(c) \/ Final(c) \/ Release(c)

Next == \E c \in Clients : Submit(c) \/ Handler(c) \/ Disconnect(c) \/ Leave(c)

Spec == Init /\ [][Next]_vars

\* The loop runs every coroutine that is ready, and engine.step returns.
FairSpec == Spec /\ \A c \in Clients : WF_vars(Handler(c))

-----------------------------------------------------------------------------
(* Properties.                                                             *)

\* The type invariant: a handler is in the line for the lock exactly when it
\* awaits it.
TypeOK ==
    /\ request \in [Requests -> {"none", "live", "finished"}]
    /\ output \in [Requests -> Nat] /\ \A r \in Requests : output[r] <= MaxText[r]
    /\ chunks \in [Requests -> Nat] /\ \A r \in Requests : chunks[r] <= MaxChunks[r]
    /\ text \in [Streams -> Texts]
    /\ rewritten \in [Streams -> BOOLEAN]
    /\ worker \in BOOLEAN
    /\ holder \in Clients \union {NoOne}
    /\ pc \in [Clients -> AwaitsLock \union {"idle", "stepping", "yield", "done"}]
    /\ IsInjective(queue) /\ Range(queue) = {c \in Clients : pc[c] \in AwaitsLock}
    /\ cancelled \in [Clients -> BOOLEAN]
    /\ previous \in [Streams -> Texts]
    /\ received \in [Streams -> Seq(Glyphs)]
    /\ outcome \in [Clients -> {"none", "ok", "400", "503", "cancelled"}]

\* Every request the engine keeps has a handler that is going to release it, so
\* a client that goes away at any await, an error of the engine and a refused
\* submission leave nothing behind.
NoOrphans ==
    \A r \in Requests :
        request[r] # "none" =>
            pc[Owner[r]] \in {"check", "step", "stepping", "snapshot", "yield", "final", "release"}

\* A handler's own requests are there for as long as it asks for them, and are
\* finished when it collects them, whoever ran the steps.  (get_output of an
\* unknown request raises KeyError, and all_finished of one is never true.)
KnownWhileServed ==
    \A c \in Clients :
        /\ pc[c] \in {"check", "step", "stepping", "snapshot", "yield"} =>
                \A r \in Own(c) : request[r] # "none"
        /\ pc[c] = "final" => \A r \in Own(c) : request[r] = "finished"

\* While a worker thread is in engine.step, nobody else touches the engine or
\* reads its queues and counters: no cancellation lets go of the lock under it.
StepExclusive ==
    /\ [][worker /\ worker' => UNCHANGED engineVars]_vars
    /\ [][worker => \E c \in Clients : holder = c /\ (worker' => holder' = c)]_vars
    /\ [][\A c \in Monitors :
            pc[c] = "metrics" /\ pc'[c] = "done" /\ outcome'[c] = "ok" => ~ worker]_vars

Served == {"check", "step", "stepping", "snapshot", "yield", "final"}

\* What a stream's client reads ends with the last snapshot that brought anything
\* new.  For as long as the text has only grown, it has been sent in order and
\* once: the client has a beginning of it.  Once it was rewritten, "sending the
\* current snapshot is safer than silently dropping it": after every snapshot,
\* what the client reads ends with the whole text, unless that is empty.
StreamInOrder ==
    /\ [](\A c \in Streams :
            /\ IsSuffix(previous[c], received[c])
            /\ pc[c] \in Served /\ ~ rewritten[c] =>
                    received[c] = previous[c] /\ IsPrefix(previous[c], text[c]))
    /\ [][\A c \in Streams :
            pc[c] = "snapshot" /\ pc'[c] = "yield" =>
                text[c] = <<>> \/ IsSuffix(text[c], received'[c])]_vars

\* "Streaming takes a decoded-text snapshot after each engine step and sends the
\* delta, then a final finish-reason chunk and [DONE]" (docs/DESIGN.md:298): the
\* deltas of a stream that ends normally make up its output.
StreamsOutput ==
    [][\A c \in Streams : pc[c] = "final" /\ outcome'[c] = "ok" => received[c] = text[c]]_vars

\* The same sentence: what was sent is the deltas, which make up the snapshot
\* that the stream has come to.
SendsDeltas == \A c \in Streams : received[c] = previous[c]

\* Once clients stop sending, every handler ends: no handler waits for ever on
\* the lock, on its own steps or on those of another.
HandlersEnd ==
    <>[][~ \E c \in Clients : Submit(c)]_vars =>
        \A c \in Clients : []<>(pc[c] \in {"done", "idle"})

=============================================================================
