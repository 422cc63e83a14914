---------------------------- MODULE ServerProofs ----------------------------
(***************************************************************************)
(* Proofs about module Server, for any number of clients and requests.     *)
(*                                                                         *)
(* The invariant ties three things together that the code keeps in three   *)
(* places: the lock, the worker thread and the await a handler is in.      *)
(***************************************************************************)
EXTENDS Server, QueueLemmas, TLAPS

Places ==
    {"idle", "metrics", "add", "check", "step", "stepping", "snapshot", "yield", "final", "release", "done"}

\* The lock is held across an await exactly by the handler whose worker runs.
LockState ==
    /\ worker \in BOOLEAN
    /\ holder \in Clients \union {NoOne}
    /\ worker <=> holder # NoOne
    /\ \A c \in Clients : pc[c] = "stepping" <=> holder = c

Shapes ==
    /\ request \in [Requests -> {"none", "live", "finished"}]
    /\ pc \in [Clients -> Places]

Inv == Shapes /\ LockState /\ NoOrphans /\ KnownWhileServed

\* What a step of the engine does to the requests, whether it raises or not.
LEMMA EngineStepKeeps ==
    ASSUME Shapes, Advance \/ Raise
    PROVE  /\ request' \in [Requests -> {"none", "live", "finished"}]
           /\ \A r \in Requests : request'[r] = "none" <=> request[r] = "none"
           /\ \A r \in Requests : request[r] = "finished" => request'[r] = "finished"
<1>1. ASSUME NEW ended, ended \subseteq Live,
             request' = [r \in Requests |-> IF r \in ended THEN "finished" ELSE request[r]]
      PROVE  /\ request' \in [Requests -> {"none", "live", "finished"}]
             /\ \A r \in Requests : request'[r] = "none" <=> request[r] = "none"
             /\ \A r \in Requests : request[r] = "finished" => request'[r] = "finished"
  BY <1>1 DEF Shapes, Live
<1>2. CASE Advance
  <2>1. PICK batch \in SUBSET Live : \E ends \in SUBSET {r \in batch : chunks[r] = 0} :
            request' = [r \in Requests |-> IF r \in ends THEN "finished" ELSE request[r]]
    BY <1>2 DEF Advance
  <2>2. PICK ends \in SUBSET batch :
            request' = [r \in Requests |-> IF r \in ends THEN "finished" ELSE request[r]]
    BY <2>1
  <2>3. ends \subseteq Live
    BY <2>2
  <2> QED BY <1>1, <2>2, <2>3
<1>3. CASE Raise
  <2>1. PICK batch \in SUBSET Live :
            request' = [r \in Requests |-> IF r \in batch THEN "finished" ELSE request[r]]
    BY <1>3 DEF Raise
  <2> QED BY <1>1, <2>1
<1> QED BY <1>2, <1>3

LEMMA InvInit == Init => Inv
<1> SUFFICES ASSUME Init PROVE Inv
  OBVIOUS
<1>1. /\ \A r \in Requests : request[r] = "none"
      /\ \A c \in Clients : pc[c] = "idle"
      /\ worker = FALSE /\ holder = NoOne
  BY DEF Init
<1>2. Shapes
  BY DEF Init, Shapes, Places
<1>3. LockState
  BY <1>1, NoOneAssumption DEF LockState
<1>4. NoOrphans
  BY <1>1 DEF NoOrphans
<1>5. KnownWhileServed
  BY <1>1 DEF KnownWhileServed
<1> QED BY <1>2, <1>3, <1>4, <1>5 DEF Inv

LEMMA InvStep == Inv /\ [Next]_vars => Inv'
<1> SUFFICES ASSUME Inv, [Next]_vars PROVE Inv'
  OBVIOUS
<1> USE NoOneAssumption, OwnerAssumption DEF Inv, Shapes
<1>1. ASSUME NEW c \in Clients, Submit(c) PROVE Inv'
  BY <1>1 DEF Submit, GoTo, engineVars, Places, LockState, NoOrphans, KnownWhileServed, Own
<1>2. ASSUME NEW c \in Clients, AddRequests(c) PROVE Inv'
  <2>1. /\ Shapes' /\ LockState'
    BY <1>2 DEF AddRequests, Turn, GoTo, Places, LockState
  <2>2. (NoOrphans /\ KnownWhileServed)'
    <3>1. CASE /\ request' = [r \in Requests |-> IF r \in Own(c) THEN "live" ELSE request[r]]
               /\ pc' = [pc EXCEPT ![c] = "check"]
      BY <1>2, <3>1 DEF NoOrphans, KnownWhileServed, Own
    <3>2. CASE request' = request /\ pc' = [pc EXCEPT ![c] = "done"]
      BY <1>2, <3>2 DEF AddRequests, Turn, NoOrphans, KnownWhileServed, Own
    <3> QED BY <1>2, <3>1, <3>2 DEF AddRequests, GoTo
  <2> QED BY <2>1, <2>2
<1>3. ASSUME NEW c \in Clients, Check(c) PROVE Inv'
  BY <1>3 DEF Check, Turn, GoTo, engineVars, AllFinished, Places, LockState,
              NoOrphans, KnownWhileServed, Own
<1>4. ASSUME NEW c \in Clients, StartStep(c) PROVE Inv'
  BY <1>4 DEF StartStep, Turn, GoTo, engineVars, Places, LockState,
              NoOrphans, KnownWhileServed, Own
<1>5. ASSUME NEW c \in Clients, EndStep(c) PROVE Inv'
  <2>1. Advance \/ Raise
    BY <1>5 DEF EndStep
  <2>2. PICK place \in {"release", "snapshot", "yield"} : pc' = [pc EXCEPT ![c] = place]
    BY <1>5 DEF EndStep, GoTo
  <2>3. pc[c] = "stepping" /\ holder = c /\ worker' = FALSE /\ holder' = NoOne
    BY <1>5 DEF EndStep
  <2>4. Shapes' /\ LockState'
    BY <2>1, <2>2, <2>3, EngineStepKeeps DEF Places, LockState
  <2>5. NoOrphans'
    BY <2>1, <2>2, EngineStepKeeps DEF NoOrphans
  <2>6. KnownWhileServed'
    BY <2>1, <2>2, <2>3, EngineStepKeeps DEF KnownWhileServed, Own
  <2> QED BY <2>4, <2>5, <2>6
<1>6. ASSUME NEW c \in Clients, Snapshot(c) PROVE Inv'
  <2>1. pc[c] = "snapshot" /\ pc' = [pc EXCEPT ![c] = "yield"]
    BY <1>6 DEF Snapshot, Turn, GoTo
  <2>2. UNCHANGED <<request, worker, holder>>
    BY <1>6 DEF Snapshot, engineVars
  <2> QED BY <2>1, <2>2 DEF Places, LockState, NoOrphans, KnownWhileServed, Own
<1>7. ASSUME NEW c \in Clients, Resume(c) PROVE Inv'
  BY <1>7 DEF Resume, GoTo, engineVars, Places, LockState, NoOrphans, KnownWhileServed, Own
<1>8. ASSUME NEW c \in Clients, Final(c) PROVE Inv'
  BY <1>8 DEF Final, Turn, GoTo, Forget, Places, LockState, NoOrphans, KnownWhileServed, Own
<1>9. ASSUME NEW c \in Clients, Release(c) PROVE Inv'
  BY <1>9 DEF Release, Turn, GoTo, Forget, Places, LockState, NoOrphans, KnownWhileServed, Own
<1>10. ASSUME NEW c \in Clients, Leave(c) PROVE Inv'
  BY <1>10 DEF Leave, GoTo, engineVars, Places, LockState, NoOrphans, KnownWhileServed, Own
<1>11. ASSUME NEW c \in Clients, Disconnect(c) PROVE Inv'
  <2>1. UNCHANGED <<request, worker, holder>>
    BY <1>11 DEF Disconnect, engineVars
  <2>2. CASE UNCHANGED pc
    BY <2>1, <2>2 DEF LockState, NoOrphans, KnownWhileServed, Own
  <2>3. CASE pc[c] \in {"metrics", "add"} /\ pc' = [pc EXCEPT ![c] = "done"]
    BY <2>1, <2>3 DEF Places, LockState, NoOrphans, KnownWhileServed, Own
  <2>4. CASE /\ pc[c] \in {"check", "step", "snapshot", "yield", "final"}
             /\ pc' = [pc EXCEPT ![c] = "release"]
    BY <2>1, <2>4 DEF Places, LockState, NoOrphans, KnownWhileServed, Own
  <2> QED BY <1>11, <2>2, <2>3, <2>4 DEF Disconnect, GoTo
<1>12. ASSUME NEW c \in Clients, Metrics(c) PROVE Inv'
  BY <1>12 DEF Metrics, Turn, GoTo, engineVars, Places, LockState, NoOrphans, KnownWhileServed, Own
<1>13. CASE UNCHANGED vars
  BY <1>13 DEF vars, engineVars, lockVars, handlerVars, LockState, NoOrphans, KnownWhileServed, Own
<1> QED
  BY <1>1, <1>2, <1>3, <1>4, <1>5, <1>6, <1>7, <1>8, <1>9, <1>10, <1>11, <1>12, <1>13 DEF Next, Handler

LEMMA Invariance == Spec => []Inv
BY InvInit, InvStep, PTL DEF Spec

Outcomes == outcome \in [Clients -> {"none", "ok", "400", "503", "cancelled"}]

LEMMA OutcomesInvariance == Spec => []Outcomes
<1>1. Init => Outcomes
  BY DEF Init, Outcomes
<1>2. Outcomes /\ [Next]_vars => Outcomes'
  <2> SUFFICES ASSUME Outcomes, [Next]_vars PROVE Outcomes'
    OBVIOUS
  <2>1. CASE UNCHANGED vars
    BY <2>1 DEF vars, handlerVars, Outcomes
  <2>2. CASE Next
    BY <2>2 DEF Next, Submit, Handler, Metrics, AddRequests, Check, StartStep, EndStep, Snapshot,
       Resume, Final, Release, Leave, Disconnect, Ends, Outcomes
  <2> QED BY <2>1, <2>2
<1> QED BY <1>1, <1>2, PTL DEF Spec

\* Whatever clients go away, whatever fails and whoever runs the steps, a
\* request that the engine keeps has a handler that will release it.
THEOREM NothingOrphaned == Spec => []NoOrphans
<1>1. Inv => NoOrphans
  BY DEF Inv
<1> QED BY Invariance, <1>1, PTL

\* A handler never asks for a request that the engine does not have, and what it
\* collects at its end has finished.
THEOREM OwnRequestsKnown == Spec => []KnownWhileServed
<1>1. Inv => KnownWhileServed
  BY DEF Inv
<1> QED BY Invariance, <1>1, PTL

\* The engine is not touched while a worker thread is in engine.step, and the
\* lock stays with the handler that started it until it returns.
THEOREM StepsExclusive == Spec => StepExclusive
<1> DEFINE Untouched == worker /\ worker' => UNCHANGED engineVars
           Kept == worker => \E c \in Clients : holder = c /\ (worker' => holder' = c)
       Unseen == \A c \in Monitors :
                        pc[c] = "metrics" /\ pc'[c] = "done" /\ outcome'[c] = "ok" => ~ worker
<1>1. Inv /\ Outcomes /\ [Next]_vars => [Untouched]_vars /\ [Kept]_vars /\ [Unseen]_vars
  <2> SUFFICES ASSUME Inv, Outcomes, Next PROVE Untouched /\ Kept /\ Unseen
    OBVIOUS
  <2>1. Untouched
    BY NoOneAssumption DEF Inv, LockState, Next, Submit, Handler, Metrics, AddRequests, Check, StartStep,
       EndStep, Snapshot, Resume, Final, Release, Leave, Disconnect, Turn
  <2>2. worker => holder \in Clients
    BY DEF Inv, LockState
  <2>3. worker /\ worker' => holder' = holder
    BY NoOneAssumption DEF Inv, LockState, Next, Submit, Handler, Metrics, AddRequests, Check, StartStep,
       EndStep, Snapshot, Resume, Final, Release, Leave, Disconnect, Turn
  <2>4. Unseen
    <3> SUFFICES ASSUME NEW m \in Monitors, NEW c \in Clients, worker,
                        Submit(c) \/ Handler(c) \/ Disconnect(c) \/ Leave(c),
                        pc[m] = "metrics", pc'[m] = "done", outcome'[m] = "ok"
                 PROVE  FALSE
      BY DEF Next
    <3>1. holder # NoOne /\ pc \in [Clients -> Places] /\ m \in Clients
      BY MonitorsAssumption DEF Inv, Shapes, LockState
    <3>2. c = m
      BY <3>1 DEF Submit, Handler, Metrics, AddRequests, Check, StartStep, EndStep, Snapshot,
         Resume, Final, Release, Leave, Disconnect, GoTo
    <3>3. CASE Disconnect(m)
      BY <3>1, <3>3 DEF Disconnect, Ends, Outcomes
    <3> QED
      BY <3>1, <3>2, <3>3 DEF Submit, Handler, Metrics, AddRequests, Check, StartStep, EndStep,
         Snapshot, Resume, Final, Release, Leave, Turn
  <2> QED BY <2>1, <2>2, <2>3, <2>4
<1> QED BY Invariance, OutcomesInvariance, <1>1, PTL DEF Spec, StepExclusive

-----------------------------------------------------------------------------
(* The line for the lock.                                                  *)

\* A line in which everybody stands who awaits the lock, but for one handler.
Others(line, c) ==
    /\ line \in Seq(Clients) /\ IsInjective(line)
    /\ Range(line) = {d \in Clients \ {c} : pc[d] \in AwaitsLock}

Line ==
    /\ queue \in Seq(Clients) /\ IsInjective(queue)
    /\ Range(queue) = {c \in Clients : pc[c] \in AwaitsLock}

\* A handler that goes on to its next await stands in line exactly if that is the lock.
LEMMA GoesOn ==
    ASSUME Shapes, NEW c \in Clients, NEW place \in Places, NEW line,
           Others(line, c), GoTo(c, place, line)
    PROVE  Line'
<1>1. pc' = [pc EXCEPT ![c] = place] /\ pc \in [Clients -> Places]
  BY DEF GoTo, Shapes
<1>2. /\ line \in Seq(Clients) /\ IsInjective(line)
      /\ Range(line) = {d \in Clients \ {c} : pc[d] \in AwaitsLock}
  BY DEF Others
<1>3. CASE place \in AwaitsLock
  <2>1. queue' = Append(line, c) /\ c \notin Range(line)
    BY <1>2, <1>3 DEF GoTo
  <2>2. /\ Append(line, c) \in Seq(Clients) /\ IsInjective(Append(line, c))
        /\ Range(Append(line, c)) = Range(line) \union {c}
    BY <1>2, <2>1, AppendToQueue
  <2>3. Range(line) \union {c} = {d \in Clients : pc'[d] \in AwaitsLock}
    BY <1>1, <1>2, <1>3
  <2> QED BY <2>1, <2>2, <2>3 DEF Line
<1>4. CASE place \notin AwaitsLock
  <2>1. queue' = line
    BY <1>4 DEF GoTo
  <2>2. Range(line) = {d \in Clients : pc'[d] \in AwaitsLock}
    BY <1>1, <1>2, <1>4
  <2> QED BY <1>2, <2>1, <2>2 DEF Line
<1> QED BY <1>3, <1>4

\* The three ways to be out of the line: to have the turn, not to stand in it and
\* to be taken out of it.
LEMMA OutOfLine ==
    ASSUME Line, NEW c \in Clients
    PROVE  /\ queue # <<>> /\ c = Head(queue) => Others(Tail(queue), c)
           /\ pc[c] \notin AwaitsLock => Others(queue, c)
           /\ Others(Without(queue, c), c)
<1>1. /\ queue \in Seq(Clients) /\ IsInjective(queue)
      /\ Range(queue) = {d \in Clients : pc[d] \in AwaitsLock}
  BY DEF Line
<1>2. ASSUME queue # <<>>, c = Head(queue) PROVE Others(Tail(queue), c)
  <2>1. /\ Tail(queue) \in Seq(Clients) /\ IsInjective(Tail(queue))
        /\ Range(Tail(queue)) = Range(queue) \ {Head(queue)}
    BY <1>1, <1>2, TailOfQueue
  <2> QED BY <1>1, <1>2, <2>1 DEF Others
<1>3. ASSUME pc[c] \notin AwaitsLock PROVE Others(queue, c)
  BY <1>1, <1>3 DEF Others
<1>4. Others(Without(queue, c), c)
  <2>1. /\ RemoveFirst(queue, c) \in Seq(Clients) /\ IsInjective(RemoveFirst(queue, c))
        /\ Range(RemoveFirst(queue, c)) = Range(queue) \ {c}
    BY <1>1, RemoveFromQueue
  <2> QED BY <1>1, <2>1 DEF Others, Without
<1> QED BY <1>2, <1>3, <1>4

LEMMA LineStep == Inv /\ Line /\ [Next]_vars => Line'
<1> SUFFICES ASSUME Inv, Line, [Next]_vars PROVE Line'
  OBVIOUS
<1>1. CASE UNCHANGED vars
  BY <1>1 DEF vars, lockVars, handlerVars, Line
<1>2. ASSUME NEW c \in Clients, Submit(c) \/ Handler(c) \/ Disconnect(c) \/ Leave(c)
      PROVE  Line'
  <2>1. \/ UNCHANGED <<pc, queue>>
        \/ \E place \in Places : \E line :
                GoTo(c, place, line) /\ Others(line, c)
    <3>1. ASSUME NEW place \in Places,
                 \/ queue # <<>> /\ c = Head(queue) /\ GoTo(c, place, Tail(queue))
                 \/ pc[c] \notin AwaitsLock /\ GoTo(c, place, queue)
                 \/ GoTo(c, place, Without(queue, c))
          PROVE  \E line : GoTo(c, place, line) /\ Others(line, c)
      BY <3>1, OutOfLine
    <3>2. CASE Submit(c)
      <4>1. \E place \in Places : pc[c] \notin AwaitsLock /\ GoTo(c, place, queue)
        BY <3>2 DEF Submit, Places, AwaitsLock
      <4> QED BY <3>1, <4>1
    <3>3. CASE Metrics(c) \/ AddRequests(c) \/ Check(c) \/ StartStep(c) \/ Snapshot(c) \/ Final(c)
               \/ Release(c)
      <4>1. \E place \in Places : queue # <<>> /\ c = Head(queue) /\ GoTo(c, place, Tail(queue))
        BY <3>3 DEF Metrics, AddRequests, Check, StartStep, Snapshot, Final, Release, Turn, Places
      <4> QED BY <3>1, <4>1
    <3>4. CASE EndStep(c) \/ Resume(c) \/ Leave(c)
      <4>1. \E place \in Places : pc[c] \notin AwaitsLock /\ GoTo(c, place, queue)
        BY <3>4 DEF EndStep, Resume, Leave, Places, AwaitsLock
      <4> QED BY <3>1, <4>1
    <3>5. CASE Disconnect(c)
      <4>1. \/ UNCHANGED <<pc, queue>>
            \/ \E place \in Places : GoTo(c, place, Without(queue, c))
        BY <3>5 DEF Disconnect, Places
      <4> QED BY <3>1, <4>1
    <3> QED BY <1>2, <3>2, <3>3, <3>4, <3>5 DEF Handler
  <2>2. CASE UNCHANGED <<pc, queue>>
    BY <2>2 DEF Line
  <2>3. CASE \E place \in Places : \E line : GoTo(c, place, line) /\ Others(line, c)
    BY <2>3, GoesOn DEF Inv
  <2> QED BY <2>1, <2>2, <2>3
<1> QED BY <1>1, <1>2 DEF Next

LEMMA LineInvariance == Spec => []Line
<1>1. Init => Line
  <2> SUFFICES ASSUME Init PROVE Line
    OBVIOUS
  <2>1. queue = <<>> /\ pc = [c \in Clients |-> "idle"]
    BY DEF Init
  <2>2. queue \in Seq(Clients) /\ IsInjective(queue) /\ Range(queue) = {}
    BY <2>1 DEF IsInjective, Range
  <2> QED BY <2>1, <2>2 DEF Line, AwaitsLock
<1> QED BY <1>1, LineStep, Invariance, PTL DEF Spec

-----------------------------------------------------------------------------
(* Beginnings and ends of texts.                                           *)

LEMMA PrefixIndices ==
    ASSUME NEW S, NEW s \in Seq(S), NEW t \in Seq(S)
    PROVE  IsPrefix(s, t) <=> Len(s) <= Len(t) /\ \A i \in 1 .. Len(s) : s[i] = t[i]
<1>1. Len(s) \in Nat /\ Len(t) \in Nat
  OBVIOUS
<1>2. ASSUME Len(s) <= Len(t)
      PROVE  /\ SubSeq(s, 1, Len(s)) \in Seq(S) /\ Len(SubSeq(s, 1, Len(s))) = Len(s)
             /\ SubSeq(t, 1, Len(s)) \in Seq(S) /\ Len(SubSeq(t, 1, Len(s))) = Len(s)
             /\ \A i \in 1 .. Len(s) : SubSeq(s, 1, Len(s))[i] = s[i]
             /\ \A i \in 1 .. Len(s) : SubSeq(t, 1, Len(s))[i] = t[i]
  <2>1. /\ \A i \in 1 .. Len(s) : s[i] \in S
        /\ \A i \in 1 .. Len(s) : t[i] \in S
    BY <1>1, <1>2
  <2> QED BY <1>1, <1>2, <2>1
<1>3. ASSUME Len(s) <= Len(t)
      PROVE  SubSeq(s, 1, Len(s)) = SubSeq(t, 1, Len(s)) <=> \A i \in 1 .. Len(s) : s[i] = t[i]
  <2>1. ASSUME \A i \in 1 .. Len(s) : s[i] = t[i]
        PROVE  SubSeq(s, 1, Len(s)) = SubSeq(t, 1, Len(s))
    BY <1>2, <1>3, <2>1, SeqEqual
  <2>2. ASSUME SubSeq(s, 1, Len(s)) = SubSeq(t, 1, Len(s)), NEW i \in 1 .. Len(s)
        PROVE  s[i] = t[i]
    BY <1>2, <1>3, <2>2
  <2> QED BY <2>1, <2>2
<1> QED BY <1>3 DEF IsPrefix

LEMMA SuffixIndices ==
    ASSUME NEW S, NEW s \in Seq(S), NEW t \in Seq(S)
    PROVE  IsSuffix(s, t) <=>
                Len(s) <= Len(t) /\ \A i \in 1 .. Len(s) : s[i] = t[Len(t) - Len(s) + i]
<1> DEFINE rs == Reverse(s)
           rt == Reverse(t)
<1>1. /\ rs \in Seq(S) /\ Len(rs) = Len(s) /\ Len(s) \in Nat
      /\ rt \in Seq(S) /\ Len(rt) = Len(t) /\ Len(t) \in Nat
      /\ \A i \in 1 .. Len(s) : rs[i] = s[Len(s) - i + 1]
      /\ \A i \in 1 .. Len(t) : rt[i] = t[Len(t) - i + 1]
  BY DEF Reverse
<1> HIDE DEF rs, rt
<1>2. IsSuffix(s, t) <=> Len(s) <= Len(t) /\ \A i \in 1 .. Len(s) : rs[i] = rt[i]
  <2>1. IsPrefix(rs, rt) <=> Len(rs) <= Len(rt) /\ \A i \in 1 .. Len(rs) : rs[i] = rt[i]
    BY <1>1, PrefixIndices
  <2> QED BY <1>1, <2>1 DEF IsSuffix, rs, rt
<1>3. ASSUME Len(s) <= Len(t)
      PROVE  (\A i \in 1 .. Len(s) : rs[i] = rt[i])
                <=> \A i \in 1 .. Len(s) : s[i] = t[Len(t) - Len(s) + i]
  <2>1. \A i \in 1 .. Len(s) : /\ Len(s) - i + 1 \in 1 .. Len(s) /\ i \in 1 .. Len(t)
                               /\ Len(s) - (Len(s) - i + 1) + 1 = i
                               /\ Len(t) - Len(s) + i = Len(t) - (Len(s) - i + 1) + 1
                               /\ Len(t) - Len(s) + (Len(s) - i + 1) = Len(t) - i + 1
    BY <1>1, <1>3
  <2>2. ASSUME \A i \in 1 .. Len(s) : rs[i] = rt[i], NEW i \in 1 .. Len(s)
        PROVE  s[i] = t[Len(t) - Len(s) + i]
    <3>1. PICK k \in 1 .. Len(s) : k = Len(s) - i + 1
      BY <2>1
    <3>2. rs[k] = rt[k] /\ rs[k] = s[Len(s) - k + 1] /\ rt[k] = t[Len(t) - k + 1]
      BY <1>1, <2>1, <2>2
    <3>3. Len(s) - k + 1 = i /\ Len(t) - k + 1 = Len(t) - Len(s) + i
      BY <2>1, <3>1
    <3> QED BY <3>2, <3>3
  <2>3. ASSUME \A i \in 1 .. Len(s) : s[i] = t[Len(t) - Len(s) + i], NEW i \in 1 .. Len(s)
        PROVE  rs[i] = rt[i]
    <3>1. PICK k \in 1 .. Len(s) : k = Len(s) - i + 1
      BY <2>1
    <3>2. s[k] = t[Len(t) - Len(s) + k] /\ Len(t) - Len(s) + k = Len(t) - i + 1
      BY <2>1, <2>3, <3>1
    <3>3. rs[i] = s[k] /\ rt[i] = t[Len(t) - i + 1]
      BY <1>1, <2>1, <3>1
    <3> QED BY <3>2, <3>3
  <2> QED BY <2>2, <2>3
<1> QED BY <1>2, <1>3

LEMMA PrefixOrder ==
    ASSUME NEW S, NEW s \in Seq(S), NEW t \in Seq(S), NEW u \in Seq(S)
    PROVE  /\ IsPrefix(s, s)
           /\ IsPrefix(s, t) /\ IsPrefix(t, u) => IsPrefix(s, u)
           /\ IsPrefix(<<>>, s)
           /\ IsSuffix(<<>>, s)
<1>1. IsPrefix(s, s)
  BY PrefixIndices
<1>2. ASSUME IsPrefix(s, t), IsPrefix(t, u) PROVE IsPrefix(s, u)
  <2>1. /\ Len(s) <= Len(t) /\ \A i \in 1 .. Len(s) : s[i] = t[i]
        /\ Len(t) <= Len(u) /\ \A i \in 1 .. Len(t) : t[i] = u[i]
    BY <1>2, PrefixIndices
  <2>2. Len(s) \in Nat /\ Len(t) \in Nat /\ Len(u) \in Nat
    OBVIOUS
  <2>3. Len(s) <= Len(u) /\ \A i \in 1 .. Len(s) : i \in 1 .. Len(t)
    BY <2>1, <2>2
  <2> QED BY <2>1, <2>3, PrefixIndices
<1>3. <<>> \in Seq(S) /\ Len(<<>>) = 0 /\ 0 <= Len(s) /\ \A i \in 1 .. 0 : FALSE
  OBVIOUS
<1>4. IsPrefix(<<>>, s) /\ IsSuffix(<<>>, s)
  BY <1>3, PrefixIndices, SuffixIndices
<1> QED BY <1>1, <1>2, <1>4

\* What a delta is and what it adds to.
LEMMA DeltaBehind ==
    ASSUME NEW S, NEW old \in Seq(S), NEW current \in Seq(S), IsPrefix(old, current)
    PROVE  LET delta == SubSeq(current, Len(old) + 1, Len(current))
           IN  /\ delta \in Seq(S)
               /\ Len(delta) = Len(current) - Len(old)
               /\ \A i \in 1 .. Len(current) - Len(old) : delta[i] = current[Len(old) + i]
<1>1. Len(old) <= Len(current) /\ Len(old) \in Nat /\ Len(current) \in Nat
  BY PrefixIndices
<1>2. \A i \in Len(old) + 1 .. Len(current) : current[i] \in S
  BY <1>1
<1>3. \A i \in 1 .. Len(current) - Len(old) : (Len(old) + 1) + i - 1 = Len(old) + i
  BY <1>1
<1> QED BY <1>1, <1>2, <1>3

LEMMA DeltaContinues ==
    ASSUME NEW S, NEW old \in Seq(S), NEW current \in Seq(S), NEW sent \in Seq(S),
           IsPrefix(old, current), IsSuffix(old, sent), NEW delta,
           SubSeq(current, Len(old) + 1, Len(current)) = delta
    PROVE  /\ delta \in Seq(S)
           /\ old \o delta = current
           /\ delta = <<>> => current = old
           /\ IsSuffix(current, sent \o delta)
<1>1. /\ delta \in Seq(S) /\ Len(delta) = Len(current) - Len(old)
      /\ \A i \in 1 .. Len(current) - Len(old) : delta[i] = current[Len(old) + i]
  BY DeltaBehind
<1>2. /\ Len(old) <= Len(current) /\ \A i \in 1 .. Len(old) : old[i] = current[i]
      /\ Len(old) <= Len(sent) /\ \A i \in 1 .. Len(old) : old[i] = sent[Len(sent) - Len(old) + i]
  BY PrefixIndices, SuffixIndices
<1>3. PICK m \in Nat, n \in Nat, k \in Nat :
        Len(old) = m /\ Len(current) = n /\ Len(sent) = k /\ m <= n /\ m <= k
  BY <1>2
<1>4. Len(delta) = n - m /\ n - m \in Nat
  BY <1>1, <1>3
<1>8. /\ \A i \in 1 .. m : old[i] = current[i] /\ old[i] = sent[(k - m) + i]
      /\ \A i \in 1 .. n - m : delta[i] = current[m + i]
  BY <1>1, <1>2, <1>3
<1>5. old \o delta = current
  <2>1. /\ old \o delta \in Seq(S) /\ Len(old \o delta) = m + (n - m)
        /\ \A i \in 1 .. m + (n - m) : (old \o delta)[i] = IF i <= m THEN old[i] ELSE delta[i - m]
    <3>1. /\ old \o delta \in Seq(S) /\ Len(old \o delta) = Len(old) + Len(delta)
          /\ \A i \in 1 .. Len(old) + Len(delta) :
                (old \o delta)[i] = IF i <= Len(old) THEN old[i] ELSE delta[i - Len(old)]
      BY <1>1, ConcatProperties
    <3> QED BY <1>3, <1>4, <3>1
  <2>2. m + (n - m) = n
    BY <1>3
  <2>3. ASSUME NEW i \in 1 .. n PROVE (old \o delta)[i] = current[i]
    <3>1. CASE i <= m
      <4>1. i \in 1 .. m
        BY <3>1
      <4> QED BY <1>8, <2>1, <2>2, <3>1, <4>1
    <3>2. CASE i > m
      <4>1. i - m \in 1 .. n - m /\ m + (i - m) = i /\ ~ i <= m
        BY <3>2
      <4> QED BY <1>8, <2>1, <2>2, <4>1
    <3> QED BY <1>3, <3>1, <3>2
  <2> QED BY <1>3, <2>1, <2>2, <2>3, SeqEqual
<1>6. ASSUME delta = <<>> PROVE current = old
  <2>1. n - m = 0
    BY <1>4, <1>6
  <2>2. n = m
    BY <1>3, <2>1
  <2>3. \A i \in 1 .. n : current[i] = old[i]
    BY <1>2, <1>3, <2>2
  <2> QED BY <1>3, <2>2, <2>3, SeqEqual
<1>7. IsSuffix(current, sent \o delta)
  <2>1. /\ sent \o delta \in Seq(S) /\ Len(sent \o delta) = k + (n - m)
        /\ \A i \in 1 .. k + (n - m) : (sent \o delta)[i] = IF i <= k THEN sent[i] ELSE delta[i - k]
    <3>1. /\ sent \o delta \in Seq(S) /\ Len(sent \o delta) = Len(sent) + Len(delta)
          /\ \A i \in 1 .. Len(sent) + Len(delta) :
                (sent \o delta)[i] = IF i <= Len(sent) THEN sent[i] ELSE delta[i - Len(sent)]
      BY <1>1, ConcatProperties
    <3> QED BY <1>3, <1>4, <3>1
  <2>2. n <= k + (n - m) /\ (k + (n - m)) - n = k - m
    BY <1>3
  <2>3. ASSUME NEW i \in 1 .. n PROVE current[i] = (sent \o delta)[(k - m) + i]
    <3>1. (k - m) + i \in 1 .. k + (n - m)
      BY <1>3
    <3>2. CASE i <= m
      <4>1. i \in 1 .. m /\ (k - m) + i <= k
        BY <1>3, <3>2
      <4>2. (sent \o delta)[(k - m) + i] = sent[(k - m) + i]
        BY <2>1, <3>1, <4>1
      <4> QED BY <1>8, <4>1, <4>2
    <3>3. CASE i > m
      <4>1. i - m \in 1 .. n - m /\ m + (i - m) = i /\ ~ (k - m) + i <= k
            /\ ((k - m) + i) - k = i - m
        BY <1>3, <3>3
      <4>2. (sent \o delta)[(k - m) + i] = delta[i - m]
        BY <2>1, <3>1, <4>1
      <4> QED BY <1>8, <4>1, <4>2
    <3> QED BY <1>3, <3>2, <3>3
  <2>4. PICK joined \in Seq(S) : joined = sent \o delta
    BY <2>1
  <2>5. Len(current) <= Len(joined) /\ Len(joined) - Len(current) = k - m
    BY <1>3, <2>1, <2>2, <2>4
  <2>6. \A i \in 1 .. Len(current) : current[i] = joined[Len(joined) - Len(current) + i]
    BY <1>3, <2>3, <2>4, <2>5
  <2>7. IsSuffix(current, joined)
    BY <2>5, <2>6, SuffixIndices
  <2> QED BY <2>4, <2>7
<1> QED BY <1>1, <1>5, <1>6, <1>7

LEMMA WholeEnds ==
    ASSUME NEW S, NEW current \in Seq(S), NEW sent \in Seq(S)
    PROVE  IsSuffix(current, sent \o current)
<1>1. /\ <<>> \in Seq(S) /\ IsPrefix(<<>>, current) /\ IsSuffix(<<>>, sent)
  BY PrefixOrder
<1>2. SubSeq(current, Len(<<>>) + 1, Len(current)) = current
  <2>1. /\ SubSeq(current, 1, Len(current)) \in Seq(S)
        /\ Len(SubSeq(current, 1, Len(current))) = Len(current)
        /\ \A i \in 1 .. Len(current) : SubSeq(current, 1, Len(current))[i] = current[i]
    OBVIOUS
  <2>2. SubSeq(current, 1, Len(current)) = current
    BY <2>1, SeqEqual
  <2> QED BY <2>2
<1>3. PICK none \in Seq(S) : none = <<>>
  BY <1>1
<1>4. /\ IsPrefix(none, current) /\ IsSuffix(none, sent)
      /\ SubSeq(current, Len(none) + 1, Len(current)) = current
  BY <1>1, <1>2, <1>3
<1> QED BY <1>4, DeltaContinues

-----------------------------------------------------------------------------
(* What is generated and what is sent.                                     *)

Counts ==
    /\ output \in [Requests -> Nat] /\ \A r \in Requests : output[r] <= MaxText[r]
    /\ chunks \in [Requests -> Nat] /\ \A r \in Requests : chunks[r] <= MaxChunks[r]

Messages ==
    /\ text \in [Streams -> Texts]
    /\ rewritten \in [Streams -> BOOLEAN]
    /\ previous \in [Streams -> Texts]
    /\ received \in [Streams -> Seq(Glyphs)]
    /\ cancelled \in [Clients -> BOOLEAN]

Unserved == {"idle", "metrics", "add"}

Sent(c) ==
    /\ IsSuffix(previous[c], received[c])
    /\ pc[c] \in Unserved => previous[c] = <<>> /\ received[c] = <<>>
    /\ pc[c] \in Served /\ ~ rewritten[c] =>
            received[c] = previous[c] /\ IsPrefix(previous[c], text[c])

Sending == Counts /\ Messages /\ \A c \in Streams : Sent(c)

\* A text that was not rewritten before or by this step has grown in it, if at all.
Grows(c) == rewritten'[c] \/ (~ rewritten[c] /\ IsPrefix(text[c], text'[c]))

LEMMA TextsAreSequences ==
    ASSUME Messages, NEW c \in Streams
    PROVE  /\ text[c] \in Seq(Glyphs) /\ previous[c] \in Seq(Glyphs) /\ received[c] \in Seq(Glyphs)
           /\ rewritten[c] \in BOOLEAN
BY TextsAssumption DEF Messages

LEMMA NothingEnds == IsSuffix(<<>>, <<>>)
<1>1. <<>> \in Seq(Glyphs)
  BY TextsAssumption
<1> QED BY <1>1, PrefixOrder

LEMMA Untouched ==
    ASSUME Messages, UNCHANGED <<text, rewritten>>, NEW c \in Streams
    PROVE  Grows(c)
BY TextsAreSequences, PrefixOrder DEF Grows

\* A run of the model keeps the counts in their bounds, and history notices
\* every text that is rewritten.
LEMMA ComputeKeeps ==
    ASSUME Counts, Messages, NEW ran \in SUBSET Requests, NEW stops, Compute(ran, stops)
    PROVE  /\ Counts'
           /\ text' \in [Streams -> Texts] /\ rewritten' \in [Streams -> BOOLEAN]
           /\ \A c \in Streams : Grows(c)
<1> DEFINE decodes == {r \in ran : chunks[r] = 0}
<1>1. PICK more :
        /\ \A r \in decodes : more[r] \in output[r] + 1 .. MaxText[r]
        /\ output' = [r \in Requests |-> IF r \in decodes THEN more[r] ELSE output[r]]
  BY DEF Compute
<1>2. chunks' = [r \in Requests |-> IF r \in ran \ decodes THEN chunks[r] - 1 ELSE chunks[r]]
  BY DEF Compute
<1>3. output' \in [Requests -> Nat] /\ \A r \in Requests : output'[r] <= MaxText[r]
  <2>1. ASSUME NEW r \in Requests
        PROVE  LET n == IF r \in decodes THEN more[r] ELSE output[r]
               IN  n \in Nat /\ n <= MaxText[r]
    <3>1. output[r] \in Nat /\ output[r] <= MaxText[r] /\ MaxText[r] \in Nat
      BY TokensAssumption DEF Counts
    <3>2. CASE r \in decodes
      <4>1. more[r] \in output[r] + 1 .. MaxText[r]
        BY <1>1, <3>2
      <4> QED BY <3>1, <3>2, <4>1
    <3> QED BY <3>1, <3>2
  <2> QED BY <1>1, <2>1
<1>4. chunks' \in [Requests -> Nat] /\ \A r \in Requests : chunks'[r] <= MaxChunks[r]
  <2>1. ASSUME NEW r \in Requests
        PROVE  LET n == IF r \in ran \ decodes THEN chunks[r] - 1 ELSE chunks[r]
               IN  n \in Nat /\ n <= MaxChunks[r]
    <3>1. chunks[r] \in Nat /\ chunks[r] <= MaxChunks[r] /\ MaxChunks[r] \in Nat
      BY TokensAssumption DEF Counts
    <3>2. CASE r \in ran \ decodes
      <4>1. chunks[r] # 0
        BY <3>2
      <4>2. chunks[r] - 1 \in Nat /\ chunks[r] - 1 <= MaxChunks[r]
        BY <3>1, <4>1
      <4> QED BY <3>2, <4>2
    <3> QED BY <3>1, <3>2
  <2> QED BY <1>2, <2>1
<1>5. /\ text' \in [Streams -> Texts]
      /\ rewritten' = [c \in Streams |-> rewritten[c] \/ ~ IsPrefix(text[c], text'[c])]
  BY DEF Compute
<1>6. rewritten' \in [Streams -> BOOLEAN] /\ \A c \in Streams : Grows(c)
  BY <1>5, Zenon DEF Messages, Grows
<1> QED BY <1>3, <1>4, <1>5, <1>6 DEF Counts

LEMMA EngineStepComputes ==
    ASSUME Counts, Messages, Advance \/ Raise
    PROVE  /\ Counts'
           /\ text' \in [Streams -> Texts] /\ rewritten' \in [Streams -> BOOLEAN]
           /\ \A c \in Streams : Grows(c)
<1>1. \E ran \in SUBSET Requests : \E stops : Compute(ran, stops)
  <2>1. CASE Advance
    BY <2>1 DEF Advance, Live
  <2>2. CASE Raise
    BY <2>2 DEF Raise, Live
  <2> QED BY <2>1, <2>2
<1> QED BY <1>1, ComputeKeeps

LEMMA ForgetKeeps ==
    ASSUME Counts, Messages, NEW c \in Clients, Forget(c)
    PROVE  /\ Counts'
           /\ text' \in [Streams -> Texts] /\ rewritten' \in [Streams -> BOOLEAN]
           /\ \A d \in Streams \ {c} : Grows(d)
<1>1. Counts'
  BY TokensAssumption DEF Counts, Forget
<1>2. text' \in [Streams -> Texts] /\ rewritten' \in [Streams -> BOOLEAN]
  BY TextsAssumption DEF Messages, Forget
<1>3. ASSUME NEW d \in Streams, d # c PROVE Grows(d)
  <2>1. text'[d] = text[d] /\ (rewritten'[d] <=> rewritten[d])
    BY <1>3 DEF Forget
  <2> QED BY <2>1, TextsAreSequences, PrefixOrder DEF Grows
<1> QED BY <1>1, <1>2, <1>3

\* A step of one handler in which nothing is sent.
LEMMA SendingKept ==
    ASSUME NEW c \in Clients, Shapes, Sending, Counts', Messages',
           UNCHANGED <<previous, received>>,
           NEW place, pc' = [pc EXCEPT ![c] = place],
           place \in Unserved => pc[c] \in Unserved,
           place \in Served => pc[c] \in Served \/ pc[c] = "add",
           \A d \in Streams : Grows(d) \/ (d = c /\ place \notin Served)
    PROVE  Sending'
<1>1. ASSUME NEW d \in Streams PROVE Sent(d)'
  <2>1. d \in Clients /\ pc \in [Clients -> Places]
    BY StreamsAssumption DEF Shapes
  <2>2. /\ Sent(d) /\ UNCHANGED <<previous[d], received[d]>>
        /\ pc'[d] \in Unserved => pc[d] \in Unserved
        /\ pc'[d] \in Served => pc[d] \in Served \/ pc[d] = "add"
        /\ pc'[d] \in Served => Grows(d)
    BY <2>1 DEF Sending
  <2>3. /\ text[d] \in Seq(Glyphs) /\ previous[d] \in Seq(Glyphs) /\ text'[d] \in Seq(Glyphs)
    BY TextsAssumption, TextsAreSequences DEF Sending, Messages
  <2>4. ASSUME pc'[d] \in Served, ~ rewritten'[d]
        PROVE  received'[d] = previous'[d] /\ IsPrefix(previous'[d], text'[d])
    <3>1. ~ rewritten[d] /\ IsPrefix(text[d], text'[d])
      BY <2>2, <2>4 DEF Grows
    <3>2. CASE pc[d] \in Served
      <4>1. received[d] = previous[d] /\ IsPrefix(previous[d], text[d])
        BY <2>2, <3>1, <3>2 DEF Sent
      <4>2. IsPrefix(previous[d], text'[d])
        BY <2>3, <3>1, <4>1, PrefixOrder
      <4> QED BY <2>2, <4>1, <4>2
    <3>3. CASE pc[d] = "add"
      <4>1. received[d] = <<>> /\ previous[d] = <<>>
        BY <2>2, <3>3 DEF Sent, Unserved
      <4>2. IsPrefix(<<>>, text'[d])
        BY <2>3, PrefixOrder
      <4> QED BY <2>2, <4>1, <4>2
    <3> QED BY <2>2, <2>4, <3>2, <3>3
  <2>5. IsSuffix(previous'[d], received'[d])
    BY <2>2 DEF Sent
  <2>6. pc'[d] \in Unserved => previous'[d] = <<>> /\ received'[d] = <<>>
    BY <2>2 DEF Sent
  <2> QED BY <2>4, <2>5, <2>6 DEF Sent
<1> QED BY <1>1 DEF Sending

\* What a snapshot does to what the client has been sent.
LEMMA SnapshotEnds ==
    ASSUME NEW c \in Streams, Sending, Snapshot(c)
    PROVE  /\ previous' \in [Streams -> Texts] /\ received' \in [Streams -> Seq(Glyphs)]
           /\ IsSuffix(previous'[c], received'[c])
           /\ \A d \in Streams \ {c} : UNCHANGED <<previous[d], received[d]>>
           /\ text[c] = <<>> \/ IsSuffix(text[c], received'[c])
           /\ received[c] = previous[c] /\ IsPrefix(previous[c], text[c]) =>
                received'[c] = previous'[c] /\ previous'[c] = text[c]
<1>1. /\ text[c] \in Seq(Glyphs) /\ previous[c] \in Seq(Glyphs) /\ received[c] \in Seq(Glyphs)
      /\ text[c] \in Texts /\ IsSuffix(previous[c], received[c])
      /\ previous \in [Streams -> Texts] /\ received \in [Streams -> Seq(Glyphs)]
  BY TextsAreSequences DEF Sending, Messages, Sent
<1>2. PICK current \in Texts, old \in Seq(Glyphs), sent \in Seq(Glyphs) :
        text[c] = current /\ previous[c] = old /\ received[c] = sent /\ current \in Seq(Glyphs)
  BY <1>1
<1> PICK delta :
        (IF IsPrefix(old, current) THEN SubSeq(current, Len(old) + 1, Len(current)) ELSE current) = delta
  OBVIOUS
<1>3. IF delta # <<>>
      THEN /\ previous' = [previous EXCEPT ![c] = current]
           /\ received' = [received EXCEPT ![c] = sent \o delta]
      ELSE UNCHANGED <<previous, received>>
  BY <1>2 DEF Snapshot
<1>4. /\ delta \in Seq(Glyphs)
      /\ delta = <<>> => current = old \/ current = <<>>
      /\ IsSuffix(current, sent \o delta)
      /\ IsPrefix(old, current) => old \o delta = current /\ (delta = <<>> => current = old)
  <2>1. CASE IsPrefix(old, current)
    <3>1. SubSeq(current, Len(old) + 1, Len(current)) = delta /\ IsSuffix(old, sent)
      BY <1>1, <1>2, <2>1
    <3> QED BY <1>2, <2>1, <3>1, DeltaContinues
  <2>2. CASE ~ IsPrefix(old, current)
    <3>1. delta = current
      BY <1>2, <2>2
    <3> QED BY <1>2, <2>2, <3>1, WholeEnds
  <2> QED BY <2>1, <2>2
<1>5. CASE delta = <<>>
  <2>1. UNCHANGED <<previous, received>>
    BY <1>3, <1>5
  <2>2. current = old => IsSuffix(current, sent)
    BY <1>1, <1>2
  <2> QED BY <1>1, <1>2, <1>4, <1>5, <2>1, <2>2
<1>6. CASE delta # <<>>
  <2>1. /\ previous' = [previous EXCEPT ![c] = current]
        /\ received' = [received EXCEPT ![c] = sent \o delta]
    BY <1>3, <1>6
  <2>2. sent \o delta \in Seq(Glyphs)
    BY <1>4, ConcatProperties
  <2>3. previous'[c] = current /\ received'[c] = sent \o delta
    BY <1>1, <2>1
  <2>4. ASSUME sent = old, IsPrefix(old, current) PROVE received'[c] = current
    BY <1>4, <2>3, <2>4
  <2> QED BY <1>1, <1>2, <1>4, <2>1, <2>2, <2>3, <2>4
<1> QED BY <1>5, <1>6

\* A snapshot is taken by streams only.
Snapshots == \A c \in Clients : pc[c] = "snapshot" => c \in Streams

LEMMA SnapshotsInvariance == Spec => []Snapshots
<1>1. Init => Snapshots
  BY DEF Init, Snapshots
<1>2. Inv /\ Snapshots /\ [Next]_vars => Snapshots'
  <2> SUFFICES ASSUME Inv, Snapshots, [Next]_vars PROVE Snapshots'
    OBVIOUS
  <2>1. CASE UNCHANGED vars
    BY <2>1 DEF vars, handlerVars, Snapshots
  <2>2. CASE Next
    BY <2>2 DEF Inv, Shapes, Next, Submit, Handler, Metrics, AddRequests, Check, StartStep, EndStep,
       Snapshot, Resume, Final, Release, Leave, Disconnect, GoTo, Snapshots
  <2> QED BY <2>1, <2>2
<1> QED BY <1>1, <1>2, Invariance, PTL DEF Spec

LEMMA SnapshotSends ==
    ASSUME NEW c \in Streams, Inv, Sending, Snapshot(c)
    PROVE  Sending'
<1>1. /\ pc[c] = "snapshot" /\ pc' = [pc EXCEPT ![c] = "yield"] /\ pc \in [Clients -> Places]
      /\ UNCHANGED <<output, chunks, text, rewritten, cancelled>>
  BY DEF Snapshot, Turn, GoTo, engineVars, Inv, Shapes
<1>2. Counts' /\ Messages'
  BY <1>1, SnapshotEnds DEF Sending, Counts, Messages
<1>3. ASSUME NEW d \in Streams PROVE Sent(d)'
  <2>1. d \in Clients /\ Sent(d)
    BY StreamsAssumption DEF Sending
  <2>2. CASE d # c
    <3>1. UNCHANGED <<previous[d], received[d], pc[d], text[d], rewritten[d]>>
      BY <1>1, <2>1, <2>2, SnapshotEnds
    <3> QED BY <2>1, <3>1 DEF Sent
  <2>3. CASE d = c
    <3>1. pc'[c] = "yield" /\ pc[c] \in Served /\ "yield" \notin Unserved
      BY <1>1, <2>1, <2>3 DEF Served, Unserved
    <3>2. ASSUME ~ rewritten'[c]
          PROVE  received'[c] = previous'[c] /\ previous'[c] = text'[c]
      <4>1. received[c] = previous[c] /\ IsPrefix(previous[c], text[c])
        BY <1>1, <2>1, <2>3, <3>1, <3>2 DEF Sent
      <4> QED BY <1>1, <4>1, SnapshotEnds
    <3>3. IsPrefix(text'[c], text'[c])
      BY <1>1, TextsAreSequences, PrefixOrder DEF Sending
    <3> QED BY <2>3, <3>1, <3>2, <3>3, SnapshotEnds DEF Sent
  <2> QED BY <2>2, <2>3
<1> QED BY <1>2, <1>3 DEF Sending

LEMMA SendingStep == Inv /\ Sending /\ Snapshots /\ [Next]_vars => Sending'
<1> SUFFICES ASSUME Inv, Sending, Snapshots, [Next]_vars PROVE Sending'
  OBVIOUS
<1>1. Shapes /\ Counts /\ Messages /\ pc \in [Clients -> Places]
  BY DEF Inv, Shapes, Sending
<1>2. ASSUME NEW c \in Clients, NEW place, Counts', pc' = [pc EXCEPT ![c] = place],
             UNCHANGED <<text, rewritten, previous, received>>, cancelled' \in [Clients -> BOOLEAN],
             \/ pc[c] \in Unserved /\ place \in Unserved
             \/ pc[c] \in Served \union {"add"} /\ place \in Served
             \/ place \notin Served \union Unserved
      PROVE  Sending'
  <2>1. Messages' /\ \A d \in Streams : Grows(d)
    BY <1>1, <1>2, Untouched DEF Messages
  <2>2. /\ place \in Unserved => pc[c] \in Unserved
        /\ place \in Served => pc[c] \in Served \/ pc[c] = "add"
    BY <1>2 DEF Served, Unserved
  <2> QED BY <1>1, <1>2, <2>1, <2>2, SendingKept
<1>3. UNCHANGED <<output, chunks>> => Counts'
  BY <1>1 DEF Counts
<1>4. UNCHANGED cancelled => cancelled' \in [Clients -> BOOLEAN]
  BY <1>1 DEF Messages
<1>5. ASSUME NEW c \in Clients, Submit(c) PROVE Sending'
  <2>1. \E place \in {"metrics", "add", "done"} : pc' = [pc EXCEPT ![c] = place]
    BY <1>5 DEF Submit, GoTo
  <2> QED BY <1>2, <1>3, <1>4, <1>5, <2>1 DEF Submit, engineVars, Served, Unserved
<1>6. ASSUME NEW c \in Clients, Metrics(c) \/ Check(c) \/ StartStep(c) \/ Resume(c) PROVE Sending'
  <2>1. \E place \in {"done", "final", "step", "stepping", "check"} :
            /\ pc' = [pc EXCEPT ![c] = place]
            /\ place = "done" \/ pc[c] \in Served
    BY <1>6 DEF Metrics, Check, StartStep, Resume, Turn, GoTo, Served
  <2> QED BY <1>2, <1>3, <1>4, <1>6, <2>1
          DEF Metrics, Check, StartStep, Resume, engineVars, Served, Unserved
<1>7. ASSUME NEW c \in Clients, AddRequests(c) PROVE Sending'
  <2>1. pc[c] = "add" /\ UNCHANGED <<output, text, rewritten, cancelled, previous, received>>
    BY <1>7 DEF AddRequests, Turn
  <2>2. Counts'
    <3>1. chunks' = chunks \/ Chunked(Own(c))
      BY <1>7 DEF AddRequests
    <3>2. chunks' \in [Requests -> Nat] /\ \A r \in Requests : chunks'[r] <= MaxChunks[r]
      <4>1. CASE chunks' = chunks
        BY <1>1, <4>1 DEF Counts
      <4>2. CASE Chunked(Own(c))
        <5>1. PICK n \in [Own(c) -> UNION {0 .. MaxChunks[r] : r \in Own(c)}] :
                /\ \A r \in Own(c) : n[r] <= MaxChunks[r]
                /\ chunks' = [r \in Requests |-> IF r \in Own(c) THEN n[r] ELSE chunks[r]]
          BY <4>2 DEF Chunked
        <5>2. \A r \in Own(c) : n[r] \in Nat
          BY TokensAssumption DEF Own
        <5> QED BY <1>1, <5>1, <5>2 DEF Counts
      <4> QED BY <3>1, <4>1, <4>2
    <3> QED BY <1>1, <2>1, <3>2 DEF Counts
  <2>3. \E place \in {"check", "done"} : pc' = [pc EXCEPT ![c] = place]
    BY <1>7 DEF AddRequests, GoTo
  <2> QED BY <1>2, <1>4, <2>1, <2>2, <2>3 DEF Served, Unserved
<1>8. ASSUME NEW c \in Clients, EndStep(c) PROVE Sending'
  <2>1. /\ Counts' /\ text' \in [Streams -> Texts] /\ rewritten' \in [Streams -> BOOLEAN]
        /\ \A d \in Streams : Grows(d)
    BY <1>1, <1>8, EngineStepComputes DEF EndStep
  <2>2. /\ pc[c] = "stepping" /\ UNCHANGED <<cancelled, previous, received>>
        /\ \E place \in {"release", "snapshot", "yield"} : pc' = [pc EXCEPT ![c] = place]
    BY <1>8 DEF EndStep, GoTo
  <2>3. Messages' /\ pc[c] \in Served
    BY <1>1, <2>1, <2>2 DEF Messages, Served
  <2>4. PICK place \in {"release", "snapshot", "yield"} : pc' = [pc EXCEPT ![c] = place]
    BY <2>2
  <2>5. place \notin Unserved
    BY DEF Unserved
  <2> QED BY <1>1, <2>1, <2>2, <2>3, <2>4, <2>5, SendingKept
<1>9. ASSUME NEW c \in Clients, Final(c) \/ Release(c) PROVE Sending'
  <2>1. /\ Forget(c) /\ UNCHANGED <<cancelled, previous, received>>
        /\ \E place \in {"release", "done"} : pc' = [pc EXCEPT ![c] = place]
    BY <1>9 DEF Final, Release, GoTo
  <2>2. PICK place \in {"release", "done"} : pc' = [pc EXCEPT ![c] = place]
    BY <2>1
  <2>3. place \notin Served /\ place \notin Unserved
    BY DEF Served, Unserved
  <2>4. /\ Counts' /\ text' \in [Streams -> Texts] /\ rewritten' \in [Streams -> BOOLEAN]
        /\ \A d \in Streams \ {c} : Grows(d)
    BY <1>1, <2>1, ForgetKeeps
  <2>5. Messages' /\ \A d \in Streams : Grows(d) \/ (d = c /\ place \notin Served)
    BY <1>1, <2>1, <2>3, <2>4 DEF Messages
  <2> QED BY <1>1, <2>1, <2>2, <2>3, <2>4, <2>5, SendingKept
<1>10. ASSUME NEW c \in Clients, Disconnect(c) PROVE Sending'
  <2>1. /\ UNCHANGED <<output, chunks, text, rewritten, previous, received>>
        /\ cancelled' \in [Clients -> BOOLEAN]
    BY <1>1, <1>10 DEF Disconnect, engineVars, Messages
  <2>2. \/ pc' = [pc EXCEPT ![c] = "done"]
        \/ pc' = [pc EXCEPT ![c] = "release"]
        \/ pc[c] = "stepping" /\ pc' = [pc EXCEPT ![c] = "stepping"]
    BY <1>1, <1>10 DEF Disconnect, GoTo
  <2> QED BY <1>2, <1>3, <2>1, <2>2 DEF Served, Unserved
<1>11. ASSUME NEW c \in Clients, Leave(c) PROVE Sending'
  <2>1. /\ UNCHANGED <<output, chunks, text, rewritten>> /\ pc' = [pc EXCEPT ![c] = "idle"]
        /\ cancelled' = [cancelled EXCEPT ![c] = FALSE]
        /\ previous' = [d \in Streams |-> IF d = c THEN <<>> ELSE previous[d]]
        /\ received' = [d \in Streams |-> IF d = c THEN <<>> ELSE received[d]]
    BY <1>11 DEF Leave, engineVars, GoTo
  <2>2. Messages' /\ Counts'
    BY <1>1, <1>3, <2>1, TextsAssumption DEF Messages
  <2>3. ASSUME NEW d \in Streams PROVE Sent(d)'
    <3>1. d \in Clients /\ Sent(d)
      BY StreamsAssumption DEF Sending
    <3>2. CASE d # c
      <4>1. UNCHANGED <<previous[d], received[d], pc[d], text[d], rewritten[d]>>
        BY <1>1, <2>1, <3>1, <3>2
      <4> QED BY <3>1, <4>1 DEF Sent
    <3>3. CASE d = c
      <4>1. previous'[c] = <<>> /\ received'[c] = <<>> /\ pc'[c] = "idle" /\ "idle" \notin Served
        BY <1>1, <2>1, <3>3 DEF Served
      <4>2. IsSuffix(<<>>, <<>>)
        BY NothingEnds
      <4> QED BY <3>3, <4>1, <4>2 DEF Sent
    <3> QED BY <3>2, <3>3
  <2> QED BY <2>2, <2>3 DEF Sending
<1>12. ASSUME NEW c \in Clients, Snapshot(c) PROVE Sending'
  <2>1. c \in Streams
    BY <1>12 DEF Snapshot, Turn, Snapshots
  <2> QED BY <1>12, <2>1, SnapshotSends
<1>13. CASE UNCHANGED vars
  BY <1>13 DEF vars, engineVars, handlerVars, Sending, Counts, Messages, Sent
<1> QED BY <1>5, <1>6, <1>7, <1>8, <1>9, <1>10, <1>11, <1>12, <1>13 DEF Next, Handler

LEMMA SendingInvariance == Spec => []Sending
<1>1. Init => Sending
  <2> SUFFICES ASSUME Init PROVE Sending
    OBVIOUS
  <2>1. Counts /\ Messages
    BY TokensAssumption, TextsAssumption DEF Init, Counts, Messages
  <2>2. ASSUME NEW c \in Streams PROVE Sent(c)
    <3>1. c \in Clients /\ IsSuffix(<<>>, <<>>)
      BY StreamsAssumption, NothingEnds
    <3>2. previous[c] = <<>> /\ received[c] = <<>> /\ pc[c] = "idle"
      BY <3>1 DEF Init
    <3> QED BY <3>1, <3>2 DEF Sent, Served
  <2> QED BY <2>1, <2>2 DEF Sending
<1> QED BY <1>1, SendingStep, Invariance, SnapshotsInvariance, PTL DEF Spec

\* The handlers' places, the line for the lock and what was generated and sent
\* have their types: whoever awaits the lock stands in line for it, once, and
\* nobody else does, whatever handlers are cancelled while they stand there.
THEOREM ServerTypes == Spec => []TypeOK
<1>1. Inv /\ Outcomes /\ Line /\ Sending => TypeOK
  BY DEF Inv, Shapes, LockState, Outcomes, Line, Sending, Counts, Messages, TypeOK, Places, AwaitsLock
<1> QED BY Invariance, OutcomesInvariance, LineInvariance, SendingInvariance, <1>1, PTL

\* Whoever runs the steps, rewrites a text or cuts it: what a stream has been sent
\* ends with its last snapshot; it is a beginning of its text, once, for as long as
\* the text only grows; and a rewritten text is there whole after the next snapshot.
THEOREM StreamsInOrder == Spec => StreamInOrder
<1> DEFINE InOrder ==
        \A c \in Streams :
            /\ IsSuffix(previous[c], received[c])
            /\ pc[c] \in Served /\ ~ rewritten[c] =>
                    received[c] = previous[c] /\ IsPrefix(previous[c], text[c])
       Shown ==
        \A c \in Streams :
            pc[c] = "snapshot" /\ pc'[c] = "yield" =>
                text[c] = <<>> \/ IsSuffix(text[c], received'[c])
<1>1. Sending => InOrder
  BY DEF Sending, Sent
<1>2. Inv /\ Sending /\ [Next]_vars => [Shown]_vars
  <2> SUFFICES ASSUME Inv, Sending, Next, NEW c \in Streams, pc[c] = "snapshot", pc'[c] = "yield"
               PROVE  text[c] = <<>> \/ IsSuffix(text[c], received'[c])
    OBVIOUS
  <2>1. PICK d \in Clients : Submit(d) \/ Handler(d) \/ Disconnect(d) \/ Leave(d)
    BY DEF Next
  <2>2. c \in Clients /\ pc \in [Clients -> Places]
    BY StreamsAssumption DEF Inv, Shapes
  <2>3. d = c
    BY <2>1, <2>2 DEF Submit, Handler, Metrics, AddRequests, Check, StartStep, EndStep, Snapshot,
       Resume, Final, Release, Leave, Disconnect, GoTo
  <2>4. Snapshot(c)
    BY <2>1, <2>2, <2>3 DEF Submit, Handler, Metrics, AddRequests, Check, StartStep, EndStep,
       Resume, Final, Release, Leave, Disconnect, Turn, GoTo
  <2> QED BY <2>4, SnapshotEnds
<1> QED BY SendingInvariance, Invariance, <1>1, <1>2, PTL DEF Spec, StreamInOrder

=============================================================================
