----------------------- MODULE EmbeddingFallbackProofs -----------------------
(***************************************************************************)
(* Proofs about EmbeddingFallback, for every set of models, tasks and      *)
(* slots of the service, and every bound on requests, faults and troubles. *)
(* What they need of the service is what ModelManagerProofs proves of it.  *)
(***************************************************************************)
EXTENDS EmbeddingFallback, TLAPS

Manager == INSTANCE ModelManagerProofs

\* The call that the worker waits for is its own request, for its own task.
CallInv ==
    wpc = "awaiting" =>
        /\ call \in Slots
        /\ pc[call] # "idle"
        /\ req[call].op \in {"encode", "rerank"}
        /\ req[call].name = Remote
        /\ req[call].texts = Texts(Primary)

\* Only the task in hand is held.
TaskInv ==
    /\ task # NoTask => place[task] = "held"
    /\ RowsOfOwnModel

\* The files of the guard say which local runs ended without their finally, and a
\* run that did so is not started again.
GuardInv ==
    /\ active = IF wpc = "run" THEN {Primary} ELSE {}
    /\ active \subseteq running
    /\ blocked \cup (running \ active) \subseteq died
    /\ wpc = "direct" => Primary \notin Guarded
    /\ wpc = "run" /\ Primary \in Guarded => Primary \notin died
    /\ \A p \in Guarded :
           /\ p \in died => p \in blocked \cup (running \ active)
           /\ kills[p] <= recreates + (IF p \in died THEN 1 ELSE 0)
    /\ recreates <= troubles

FallbackInv == Manager!ManagerInv /\ TypeOK /\ CallInv /\ TaskInv /\ GuardInv

-----------------------------------------------------------------------------
(* The service. *)

\* The theorems about the service hold of the one that the worker talks to.
LEMMA ServiceAssumed == Manager!ManagerAssumption
BY ServiceAssumption DEF Manager!ManagerAssumption

\* The service starts as ModelManager does.
LEMMA ServerInit == Server!Init => Manager!ManagerInv
<1>1. Server!Init => Manager!Init
  BY DEF Server!Init, Server!NoWeights, Server!NoRequest, Server!NoAnswer,
         Manager!Init, Manager!NoWeights, Manager!NoRequest, Manager!NoAnswer
<1>2. QED
  BY <1>1, ServiceAssumed, Manager!ManagerInit

\* A request of the worker.
LEMMA ServerPost ==
  ASSUME Manager!ManagerInv, NEW s \in Slots, NEW op \in Server!Ops, NEW name \in Names,
         NEW precision \in Server!Requested, NEW n \in 0..NTexts,
         Server!Post(s, op, name, precision, n)
  PROVE  Manager!ManagerInv'
<1>1. op \in Manager!Ops /\ precision \in Manager!Requested
  BY DEF Server!Ops, Manager!Ops, Server!Requested, Manager!Requested
<1>2. Manager!Post(s, op, name, precision, n)
  BY DEF Server!Post, Server!Refusal, Server!Serves, Server!Answered, Server!Goes, Server!resident,
         Manager!Post, Manager!Refusal, Manager!Serves, Manager!Answered, Manager!Goes, Manager!resident
<1>3. QED
  BY <1>1, <1>2, ServiceAssumed, Manager!PostStep

\* An answer that is collected, or dropped.
LEMMA ServerCollect ==
  ASSUME Manager!ManagerInv, NEW s \in Slots, Server!Collect(s)
  PROVE  Manager!ManagerInv'
<1>1. Manager!Collect(s)
  BY DEF Server!Collect, Server!Goes, Server!NoRequest, Server!NoWeights, Server!NoAnswer,
         Server!resident, Server!bounds,
         Manager!Collect, Manager!Goes, Manager!NoRequest, Manager!NoWeights, Manager!NoAnswer,
         Manager!resident, Manager!bounds
<1>2. QED
  BY <1>1, ServiceAssumed, Manager!CollectStep

\* The service goes idle, unloads, stops or starts.
LEMMA ServerService ==
  ASSUME Manager!ManagerInv, Server!Service
  PROVE  Manager!ManagerInv'
<1>1. CASE Server!IdlePasses \/ Server!Reap \/ Server!Start
  <2>1. Manager!IdlePasses \/ Manager!Reap \/ Manager!Start
    BY <1>1 DEF Server!IdlePasses, Server!Reap, Server!Start, Server!ReleaseModel,
         Server!NoWeights, Server!resident, Server!slot, Server!bounds,
         Manager!IdlePasses, Manager!Reap, Manager!Start, Manager!ReleaseModel,
         Manager!NoWeights, Manager!resident, Manager!slot, Manager!bounds
  <2>2. QED
    BY <2>1, ServiceAssumed, Manager!QuietStep
<1>2. CASE Server!Stop
  <2>1. Manager!Stop
    BY <1>2 DEF Server!Stop, Server!ReleaseModel, Server!NoWeights,
                Manager!Stop, Manager!ReleaseModel, Manager!NoWeights
  <2>2. QED
    BY <2>1, ServiceAssumed, Manager!StopStep
<1>3. QED
  BY <1>1, <1>2 DEF Server!Service

\* A thread of the service goes on.
LEMMA ServerStep ==
  ASSUME Manager!ManagerInv, NEW s \in Slots, Server!Step(s)
  PROVE  Manager!ManagerInv'
<1> USE DEF Server!Goes, Server!Answered, Server!Wrong, Server!resident, Server!bounds,
            Server!Computes, Server!Resident, Server!WantQuant, Server!ResolveQuantization,
            Server!QuantLabel,
            Manager!Goes, Manager!Answered, Manager!Wrong, Manager!resident, Manager!bounds,
            Manager!Computes, Manager!Resident, Manager!WantQuant, Manager!ResolveQuantization,
            Manager!QuantLabel
<1>1. Server!Acquire(s) => Manager!Acquire(s)
  BY DEF Server!Acquire, Manager!Acquire
<1>2. Server!LoadHit(s) => Manager!LoadHit(s)
  BY DEF Server!LoadHit, Manager!LoadHit
<1>3. Server!Evict(s) => Manager!Evict(s)
  BY DEF Server!Evict, Manager!Evict, Server!ReleaseModel, Manager!ReleaseModel,
         Server!NoWeights, Manager!NoWeights
<1>4. Server!LoadDone(s) => Manager!LoadDone(s)
  BY DEF Server!LoadDone, Manager!LoadDone, Server!Loader, Manager!Loader
<1>5. Server!LoadFails(s) => Manager!LoadFails(s)
  BY DEF Server!LoadFails, Manager!LoadFails
<1>6. Server!ReportFlag(s) => Manager!ReportFlag(s)
  BY DEF Server!ReportFlag, Manager!ReportFlag
<1>7. Server!ReportLabel(s) => Manager!ReportLabel(s)
  BY DEF Server!ReportLabel, Manager!ReportLabel
<1>8. Server!Capture(s) => Manager!Capture(s)
  BY DEF Server!Capture, Manager!Capture
<1>9. Server!Compute(s) => Manager!Compute(s)
  BY DEF Server!Compute, Manager!Compute, Server!Position, Manager!Position
<1>10. Server!ComputeShort(s) => Manager!ComputeShort(s)
  BY DEF Server!ComputeShort, Manager!ComputeShort, Server!Position, Manager!Position
<1>11. Server!ComputeFails(s) => Manager!ComputeFails(s)
  BY DEF Server!ComputeFails, Manager!ComputeFails, Server!Position, Manager!Position
<1>12. Server!ComputeDone(s) => Manager!ComputeDone(s)
  BY DEF Server!ComputeDone, Manager!ComputeDone, Server!Position, Manager!Position,
         Server!Counted, Manager!Counted
<1>13. Server!Unload(s) => Manager!Unload(s)
  BY DEF Server!Unload, Manager!Unload, Server!ReleaseModel, Manager!ReleaseModel,
         Server!NoWeights, Manager!NoWeights
<1>14. Manager!Step(s)
  BY <1>1, <1>2, <1>3, <1>4, <1>5, <1>6, <1>7, <1>8, <1>9, <1>10, <1>11, <1>12, <1>13
     DEF Server!Step, Manager!Step
<1>15. Manager!Next
  BY <1>14 DEF Manager!Next
<1>16. QED
  BY <1>15, ServiceAssumed, Manager!ManagerStep

\* A thread of the service, or the service itself, leaves every request in place.
LEMMA ServiceKeeps ==
  ASSUME Manager!ManagerInv, Server!Service \/ \E s \in Slots : Server!Step(s)
  PROVE  /\ req' = req
         /\ \A t \in Slots : pc[t] # "idle" => pc'[t] # "idle"
<1>1. pc \in [Slots -> {"idle", "waiting", "locked", "loading", "report", "label",
                        "work", "checked", "answered"}]
  BY DEF Manager!ManagerInv, Manager!TypeOK
<1>2. CASE Server!Service
  BY <1>1, <1>2 DEF Server!Service, Server!IdlePasses, Server!Reap, Server!Stop, Server!Start,
                    Server!slot
<1>3. ASSUME NEW s \in Slots, Server!Step(s)
      PROVE  /\ req' = req
             /\ \E step \in {"locked", "report", "loading", "answered", "label", "work", "checked"} :
                  pc' = [pc EXCEPT ![s] = step]
  BY <1>3 DEF Server!Step, Server!Acquire, Server!LoadHit, Server!Evict, Server!LoadDone,
       Server!LoadFails, Server!ReportFlag, Server!ReportLabel, Server!Capture, Server!Compute,
       Server!ComputeShort, Server!ComputeFails, Server!ComputeDone, Server!Unload,
       Server!Answered, Server!Goes
<1>4. QED
  BY <1>1, <1>2, <1>3

\* The rows of a good answer to the worker's own request are those of its model.
LEMMA AnswerRows ==
  ASSUME FallbackInv, wpc = "awaiting", call \in Slots, answer[call].status = "200"
  PROVE  out[call] = Rows(Remote, Texts(Primary)) /\ out[call] \in Stored
<1>1. Manager!SlotInv(call) /\ Manager!TypeOK /\ CallInv /\ TypeOK
  BY DEF FallbackInv, Manager!ManagerInv
<1>2. out[call] = [i \in 1..req[call].texts |-> [text |-> i, by |-> req[call].name]]
  BY <1>1 DEF Manager!SlotInv, Manager!Computes, CallInv
<1>3. req[call].name = Remote /\ req[call].texts = Texts(Primary)
  BY <1>1 DEF CallInv
<1>4. out[call] = Rows(Remote, Texts(Primary))
  BY <1>2, <1>3 DEF Rows
<1>5. Texts(Primary) \in 1..NTexts
  BY ServiceAssumption DEF Texts
<1>6. Remote \in Models
  <2>1. out[call] \in Seq(Manager!OutRow)
    BY <1>1 DEF Manager!TypeOK
  <2>2. Len(out[call]) = Texts(Primary) /\ out[call][1] = [text |-> 1, by |-> Remote]
    <3>1. 1 \in 1..Texts(Primary) /\ Texts(Primary) \in Nat
      BY <1>5, ServiceAssumption
    <3>2. DOMAIN out[call] = 1..Texts(Primary) /\ out[call][1] = [text |-> 1, by |-> Remote]
      BY <1>4, <3>1 DEF Rows
    <3>3. QED
      BY <2>1, <3>1, <3>2
  <2>3. out[call][1] \in Manager!OutRow
    BY <1>5, <2>1, <2>2, ServiceAssumption
  <2>4. QED
    BY <2>2, <2>3 DEF Manager!OutRow
<1>7. QED
  BY <1>4, <1>5, <1>6 DEF Stored

-----------------------------------------------------------------------------
(* Steps of one shape each. *)

\* The types of the service are those of ModelManager.
LEMMA ServerTypes == Manager!TypeOK => Server!TypeOK
BY DEF Manager!TypeOK, Server!TypeOK,
       Manager!Weights, Manager!NoWeights, Manager!Request, Manager!Answer, Manager!OutRow,
       Manager!Ops, Manager!Requested, Manager!Statuses,
       Server!Weights, Server!NoWeights, Server!Request, Server!Answer, Server!OutRow,
       Server!Ops, Server!Requested, Server!Statuses

\* The types after a step: those of the worker, and those of the service.
LEMMA TypesAfter ==
  ASSUME Manager!ManagerInv',
         place' \in [Tasks -> Places], task' \in Tasks \cup {NoTask}, wpc' \in Steps,
         (task' = NoTask) <=> (wpc' = "poll"), call' \in Slots \cup {Free},
         vectors' \in [Tasks -> Stored],
         running' \in SUBSET Primaries, blocked' \in SUBSET Primaries,
         active' \in SUBSET Primaries, died' \in SUBSET Primaries,
         kills' \in [Primaries -> 0..MaxKills],
         recreates' \in 0..MaxTroubles, troubles' \in 0..MaxTroubles
  PROVE  TypeOK'
<1>1. Server!TypeOK'
  BY DEF Manager!ManagerInv, Manager!TypeOK, Server!TypeOK,
         Manager!Weights, Manager!NoWeights, Manager!Request, Manager!Answer, Manager!OutRow,
         Manager!Ops, Manager!Requested, Manager!Statuses,
         Server!Weights, Server!NoWeights, Server!Request, Server!Answer, Server!OutRow,
         Server!Ops, Server!Requested, Server!Statuses
<1>2. Stored' = Stored
  BY DEF Stored, Rows
<1>3. QED
  BY <1>1, <1>2 DEF TypeOK

\* The worker goes on with the task in hand, outside its local runs.
LEMMA GoesStep ==
  ASSUME FallbackInv, Manager!ManagerInv', NEW step \in Steps, step \notin {"poll", "run"},
         wpc \notin {"poll", "run"}, Goes(step), UNCHANGED <<guard, history>>,
         troubles' \in troubles..MaxTroubles, call' \in Slots \cup {Free},
         CallInv', step = "direct" => Primary \notin Guarded
  PROVE  FallbackInv'
<1>1. /\ TypeOK /\ TaskInv /\ GuardInv
      /\ UNCHANGED <<place, task, vectors, running, blocked, active, died, kills, recreates>>
      /\ wpc' = step
  BY DEF FallbackInv, Goes, guard, history
<1>2. TypeOK'
  <2>1. troubles' \in 0..MaxTroubles
    BY <1>1 DEF TypeOK
  <2>2. (task' = NoTask) <=> (wpc' = "poll")
    BY <1>1 DEF TypeOK
  <2>3. QED
    BY <1>1, <2>1, <2>2, TypesAfter DEF TypeOK
<1>3. TaskInv'
  BY <1>1 DEF TaskInv, RowsOfOwnModel
<1>4. GuardInv'
  <2>1. recreates' <= troubles'
    BY <1>1 DEF GuardInv, TypeOK
  <2>2. Primary' = Primary
    BY <1>1 DEF Primary
  <2>3. QED
    BY <1>1, <2>1, <2>2 DEF GuardInv
<1>5. QED
  BY <1>2, <1>3, <1>4 DEF FallbackInv

\* The task ends, in whatever way.
LEMMA EndsStep ==
  ASSUME FallbackInv, Manager!ManagerInv', NEW how \in {"stored", "skipped", "dead"},
         wpc # "poll", Ends(how), UNCHANGED history,
         troubles' \in troubles..MaxTroubles, call' \in Slots \cup {Free},
         NEW rows \in Stored,
         \/ how # "stored" /\ vectors' = vectors
         \/ /\ vectors' = [vectors EXCEPT ![task] = rows]
            /\ rows \in {Rows(Remote, Texts(Primary)), Rows(Primary, Texts(Primary))},
         \/ wpc # "run" /\ UNCHANGED guard
         \/ wpc = "run" /\ LocalEnd
         \/ /\ wpc = "local" /\ Primary \in running \ active /\ active' = active
            /\ running' = running \ {Primary} /\ blocked' = blocked \cup {Primary}
  PROVE  FallbackInv'
<1>1. /\ TypeOK /\ TaskInv /\ GuardInv /\ task \in Tasks
      /\ UNCHANGED <<died, kills, recreates>>
      /\ place' = [place EXCEPT ![task] = how] /\ task' = NoTask /\ wpc' = "poll"
  BY DEF FallbackInv, TypeOK, Ends, history
<1>2. Primary \in Primaries
  BY <1>1, FallbackAssumption DEF Primary
<1>3. /\ active' = {} /\ running' \in SUBSET Primaries /\ blocked' \in SUBSET Primaries
      /\ blocked \cup (running \ active) = blocked' \cup running'
  BY <1>1, <1>2 DEF guard, LocalEnd, GuardInv, TypeOK
<1>4. TypeOK'
  <2>1. troubles' \in 0..MaxTroubles
    BY <1>1 DEF TypeOK
  <2>2. place' \in [Tasks -> Places] /\ vectors' \in [Tasks -> Stored]
    BY <1>1 DEF TypeOK, Places
  <2>3. /\ task' \in Tasks \cup {NoTask} /\ wpc' \in Steps
        /\ (task' = NoTask) <=> (wpc' = "poll")
    BY <1>1 DEF Steps
  <2>4. QED
    BY <1>1, <1>3, <2>1, <2>2, <2>3, TypesAfter DEF TypeOK
<1>5. TaskInv'
  <2>1. ASSUME NEW t \in Tasks, place'[t] = "stored"
        PROVE  vectors'[t] \in {Rows(RemoteId[PrimaryOf[t]], Texts(PrimaryOf[t])),
                                Rows(PrimaryOf[t], Texts(PrimaryOf[t]))}
    <3>1. CASE t = task
      BY <1>1, <2>1, <3>1 DEF TypeOK, Primary, Remote
    <3>2. CASE t # task
      BY <1>1, <2>1, <3>2 DEF TypeOK, TaskInv, RowsOfOwnModel
    <3>3. QED
      BY <3>1, <3>2
  <2>2. QED
    BY <1>1, <2>1 DEF TaskInv, RowsOfOwnModel
<1>6. GuardInv'
  <2>1. recreates' <= troubles'
    BY <1>1 DEF GuardInv, TypeOK
  <2>2. QED
    BY <1>1, <1>3, <2>1 DEF GuardInv
<1>7. CallInv'
  BY <1>1 DEF CallInv
<1>8. QED
  BY <1>4, <1>5, <1>6, <1>7 DEF FallbackInv

\* The service moves and the worker does not, or nobody does.
LEMMA AloneStep ==
  ASSUME FallbackInv,
         \/ Threads
         \/ Server!Service /\ Alone
         \/ \E s \in Slots : Drop(s)
         \/ UNCHANGED vars
  PROVE  FallbackInv'
<1>1. /\ TypeOK /\ TaskInv /\ GuardInv /\ CallInv /\ Manager!ManagerInv
      /\ UNCHANGED <<place, task, wpc, call, vectors, running, blocked, active, died, kills,
                     recreates, troubles>>
  BY DEF FallbackInv, Threads, Alone, Drop, vars, worker, guard, history
<1>2. Manager!ManagerInv' /\ CallInv'
  <2>1. CASE Server!Service \/ \E s \in Slots : Server!Step(s)
    <3>1. Manager!ManagerInv'
      BY <1>1, <2>1, ServerService, ServerStep
    <3>2. CallInv'
      BY <1>1, <2>1, ServiceKeeps DEF CallInv, Remote, Primary
    <3>3. QED
      BY <3>1, <3>2
  <2>2. ASSUME NEW s \in Slots, Drop(s) PROVE Manager!ManagerInv' /\ CallInv'
    <3>1. s # call /\ Server!Collect(s)
      BY <2>2 DEF Drop
    <3>2. Manager!ManagerInv'
      BY <1>1, <3>1, ServerCollect
    <3>3. \A t \in Slots : t # s => pc'[t] = pc[t] /\ req'[t] = req[t]
      BY <1>1, <3>1 DEF Server!Collect, Server!Goes, TypeOK, Server!TypeOK
    <3>4. CallInv'
      BY <1>1, <3>1, <3>3 DEF CallInv, Remote, Primary
    <3>5. QED
      BY <3>2, <3>4
  <2>3. CASE UNCHANGED vars
    <3>1. UNCHANGED <<up, lock, model_id, model, quantized, idle, pc, req, local, out, answer,
                      posted, bad, stops>>
      BY <2>3 DEF vars, server
    <3>2. UNCHANGED Manager!vars
      BY <3>1 DEF Manager!vars, Manager!resident, Manager!slot, Manager!bounds
    <3>3. Manager!ManagerInv'
      BY <1>1, <3>2, ServiceAssumed, Manager!ManagerStep
    <3>4. CallInv'
      BY <1>1, <3>1 DEF CallInv, Remote, Primary
    <3>5. QED
      BY <3>3, <3>4
  <2>4. QED
    BY <2>1, <2>2, <2>3 DEF Threads
<1>3. TypeOK'
  BY <1>1, <1>2, TypesAfter DEF TypeOK
<1>4. TaskInv' /\ GuardInv'
  BY <1>1 DEF TaskInv, RowsOfOwnModel, GuardInv, Primary
<1>5. QED
  BY <1>2, <1>3, <1>4 DEF FallbackInv

\* A step in which the service does not move.
LEMMA ServerStays ==
  ASSUME FallbackInv, UNCHANGED server
  PROVE  Manager!ManagerInv'
<1>1. UNCHANGED Manager!vars
  BY DEF server, Manager!vars, Manager!resident, Manager!slot, Manager!bounds
<1>2. QED
  BY <1>1, ServiceAssumed, Manager!ManagerStep DEF FallbackInv

\* The worker takes a task.
LEMMA PollStep ==
  ASSUME FallbackInv, NEW t \in Tasks, Poll(t)
  PROVE  FallbackInv'
<1>1. /\ TypeOK /\ TaskInv /\ GuardInv /\ Manager!ManagerInv'
      /\ wpc = "poll" /\ place[t] = "ready"
      /\ place' = [place EXCEPT ![t] = "held"] /\ task' = t /\ wpc' = "route"
      /\ UNCHANGED <<call, vectors, running, blocked, active, died, kills, recreates, troubles>>
  BY ServerStays DEF FallbackInv, Poll, guard, history
<1>2. TypeOK'
  <2>1. /\ place' \in [Tasks -> Places] /\ wpc' \in Steps /\ task' # NoTask
        /\ task' \in Tasks \cup {NoTask}
    BY <1>1, FallbackAssumption DEF TypeOK, Places, Steps
  <2>2. QED
    BY <1>1, <2>1, TypesAfter DEF TypeOK
<1>3. TaskInv'
  BY <1>1 DEF TypeOK, TaskInv, RowsOfOwnModel
<1>4. GuardInv' /\ CallInv'
  BY <1>1 DEF GuardInv, CallInv
<1>5. QED
  BY <1>1, <1>2, <1>3, <1>4 DEF FallbackInv

\* A local run starts: it is not one that was killed before.
LEMMA LocalStartStep ==
  ASSUME FallbackInv, LocalStart
  PROVE  FallbackInv'
<1>1. /\ TypeOK /\ TaskInv /\ GuardInv /\ Manager!ManagerInv'
      /\ wpc = "local" /\ wpc' = "run" /\ Primary \notin running \ active /\ Primary \notin blocked
      /\ running' = running \cup {Primary} /\ active' = active \cup {Primary}
      /\ UNCHANGED <<place, task, call, vectors, blocked, died, kills, recreates, troubles>>
  BY ServerStays DEF FallbackInv, LocalStart, Killed, Goes, history
<1>2. task \in Tasks /\ Primary \in Primaries
  BY <1>1, FallbackAssumption DEF TypeOK, Primary
<1>3. TypeOK'
  <2>1. /\ wpc' \in Steps /\ (task' = NoTask <=> wpc' = "poll")
        /\ running' \in SUBSET Primaries /\ active' \in SUBSET Primaries
    BY <1>1, <1>2 DEF TypeOK, Steps
  <2>2. QED
    BY <1>1, <2>1, TypesAfter DEF TypeOK
<1>4. TaskInv' /\ CallInv'
  BY <1>1 DEF TaskInv, RowsOfOwnModel, CallInv
<1>5. GuardInv'
  <2>1. active = {} /\ active' = {Primary} /\ Primary' = Primary
    BY <1>1 DEF GuardInv, Primary
  <2>2. blocked' \cup (running' \ active') = blocked \cup (running \ active)
    BY <1>1, <2>1
  <2>3. QED
    BY <1>1, <2>1, <2>2 DEF GuardInv
<1>6. QED
  BY <1>1, <1>3, <1>4, <1>5 DEF FallbackInv

\* The process ends: a marker of a local run stays, and what it stands for.
LEMMA RestartStep ==
  ASSUME FallbackInv, OutOfMemory \/ Crash \/ Recreate
  PROVE  FallbackInv'
<1> USE FallbackAssumption
<1>1. /\ TypeOK /\ TaskInv /\ GuardInv /\ Manager!ManagerInv'
      /\ place' = [t \in Tasks |-> IF t = task THEN "ready" ELSE place[t]]
      /\ task' = NoTask /\ wpc' = "poll" /\ call' = Free /\ active' = {} /\ vectors' = vectors
  BY ServerStays DEF FallbackInv, OutOfMemory, Crash, Recreate, Dies, Restarted
<1>2. /\ recreates \in Nat /\ troubles \in 0..MaxTroubles /\ recreates <= troubles
      /\ kills \in [Primaries -> 0..MaxKills]
  BY <1>1 DEF TypeOK, GuardInv
<1>3. CallInv'
  BY <1>1 DEF CallInv
<1>4. TaskInv'
  BY <1>1 DEF TypeOK, TaskInv, RowsOfOwnModel
<1>5. /\ running' \in SUBSET Primaries /\ blocked' \in SUBSET Primaries
      /\ died' \in SUBSET Primaries /\ kills' \in [Primaries -> 0..MaxKills]
      /\ recreates' \in 0..MaxTroubles /\ troubles' \in 0..MaxTroubles
      /\ recreates' <= troubles' /\ blocked' \cup running' \subseteq died'
      /\ \A p \in Guarded : /\ p \in died' => p \in blocked' \cup running'
                            /\ kills'[p] <= recreates' + (IF p \in died' THEN 1 ELSE 0)
  <2>1. CASE Recreate
    <3>1. /\ running' = {} /\ blocked' = {} /\ died' = {} /\ kills' = kills
          /\ recreates' = recreates + 1 /\ troubles < MaxTroubles /\ troubles' = troubles + 1
      BY <2>1 DEF Recreate, Trouble
    <3>2. ASSUME NEW p \in Guarded PROVE kills'[p] <= recreates'
      <4>1. kills[p] <= recreates + (IF p \in died THEN 1 ELSE 0) /\ kills[p] \in Nat
        BY <1>1, <1>2 DEF GuardInv, Guarded
      <4>2. QED
        BY <1>2, <3>1, <4>1
    <3>3. QED
      BY <1>2, <3>1, <3>2
  <2>2. CASE OutOfMemory \/ Crash
    <3>1. /\ Dies /\ running' = running /\ blocked' = blocked /\ recreates' = recreates
          /\ troubles' \in troubles..MaxTroubles
      BY <1>2, <2>2 DEF OutOfMemory, Crash, Dies, Trouble, history
    <3>2. CASE wpc \in {"run", "direct"}
      <4>1. task \in Tasks /\ Primary \in Primaries
        BY <1>1, <3>2 DEF TypeOK, Primary
      <4>2. PICK q \in Primaries : q = Primary
        BY <4>1
      <4>3. /\ died' = died \cup {q}
            /\ kills' = [kills EXCEPT ![q] = IF kills[q] < MaxKills THEN kills[q] + 1 ELSE kills[q]]
        BY <3>1, <3>2, <4>2 DEF Dies
      <4>4. /\ kills' \in [Primaries -> 0..MaxKills] /\ kills'[q] <= kills[q] + 1
            /\ \A p \in Primaries : p # q => kills'[p] = kills[p]
        BY <1>2, <4>3
      <4>5. /\ running \in SUBSET Primaries /\ blocked \in SUBSET Primaries
            /\ died' \in SUBSET Primaries /\ blocked \cup running \subseteq died'
        BY <1>1, <3>2, <4>2, <4>3 DEF TypeOK, GuardInv
      <4>6. ASSUME NEW p \in Guarded
            PROVE  /\ p \in died' => p \in blocked \cup running
                   /\ kills'[p] <= recreates + (IF p \in died' THEN 1 ELSE 0)
        <5>1. /\ p \in died => p \in blocked \cup (running \ active)
              /\ kills[p] <= recreates + (IF p \in died THEN 1 ELSE 0)
              /\ p \in Primaries
          BY <1>1 DEF GuardInv, Guarded
        <5>2. CASE p = q
          <6>1. wpc = "run" /\ p \notin died /\ p \in running
            BY <1>1, <3>2, <4>2, <5>2 DEF GuardInv
          <6>2. kills[p] \in Nat /\ kills'[p] \in Nat
            BY <1>2, <4>4, <5>1
          <6>3. QED
            BY <1>2, <4>3, <4>4, <5>1, <5>2, <6>1, <6>2
        <5>3. CASE p # q
          BY <4>3, <4>4, <5>1, <5>3
        <5>4. QED
          BY <5>2, <5>3
      <4>7. QED
        BY <1>2, <3>1, <4>4, <4>5, <4>6
    <3>3. CASE wpc \notin {"run", "direct"}
      <4>1. died' = died /\ kills' = kills /\ active = {}
        BY <1>1, <3>1, <3>3 DEF Dies, history, GuardInv
      <4>2. QED
        BY <1>1, <1>2, <3>1, <4>1 DEF TypeOK, GuardInv
    <3>4. QED
      BY <3>2, <3>3
  <2>3. QED
    BY <2>1, <2>2
<1>6. TypeOK'
  <2>1. /\ place' \in [Tasks -> Places] /\ task' \in Tasks \cup {NoTask} /\ wpc' \in Steps
        /\ call' \in Slots \cup {Free} /\ vectors' \in [Tasks -> Stored]
        /\ active' \in SUBSET Primaries /\ (task' = NoTask <=> wpc' = "poll")
    BY <1>1 DEF TypeOK, Places, Steps
  <2>2. QED
    BY <1>1, <1>5, <2>1, TypesAfter
<1>7. GuardInv'
  BY <1>1, <1>5 DEF GuardInv
<1>8. QED
  BY <1>1, <1>3, <1>4, <1>6, <1>7 DEF FallbackInv

-----------------------------------------------------------------------------
(* The worker's steps. *)

\* The legs of a task: a guarded model has no direct one.
LEMMA RouteStep ==
  ASSUME FallbackInv, Route \/ RouteReranker
  PROVE  FallbackInv'
<1>1. /\ wpc = "route" /\ ChooseLegs /\ Manager!ManagerInv' /\ TypeOK
      /\ UNCHANGED <<call, guard, history, troubles>>
  BY ServerStays DEF Route, RouteReranker, ChooseLegs, FallbackInv
<1>2. troubles' \in troubles..MaxTroubles /\ call' \in Slots \cup {Free}
  BY <1>1, FallbackAssumption DEF TypeOK
<1>3. ASSUME NEW step \in {"health", "direct"}, Goes(step), step = "direct" => Primary \notin Guarded
      PROVE  FallbackInv'
  <2>1. CallInv' /\ step \in Steps
    BY <1>3 DEF CallInv, Goes, Steps
  <2>2. QED
    BY <1>1, <1>2, <1>3, <2>1, GoesStep
<1>4. CASE UseRemote[Primary]
  BY <1>1, <1>3, <1>4 DEF ChooseLegs
<1>5. CASE ~UseRemote[Primary] /\ AllowLocal[Primary]
  BY <1>1, <1>3, <1>5 DEF ChooseLegs, Guarded
<1>6. CASE ~UseRemote[Primary] /\ ~AllowLocal[Primary]
  <2>1. Ends("dead") /\ vectors' = vectors /\ <<>> \in Stored
    BY <1>1, <1>6 DEF ChooseLegs, Stored
  <2>2. QED
    BY <1>1, <1>2, <2>1, EndsStep
<1>7. QED
  BY <1>4, <1>5, <1>6

\* The questions that are asked of the service before a request, and the ways to the
\* local leg.
LEMMA AskStep ==
  ASSUME FallbackInv, Healthy \/ Available \/ AlreadyLoaded \/ CannotSend \/ GiveUp \/ LocalReranker
  PROVE  FallbackInv'
<1>1. PICK step \in {"available", "local", "ensure", "send", "direct"} :
        /\ Goes(step) /\ UNCHANGED <<server, guard, history>>
        /\ wpc \in {"health", "available", "ensure", "send", "loading", "awaiting", "local"}
        /\ call' \in {call, Free} /\ (troubles' = troubles \/ Trouble)
        /\ step = "direct" => AllowLocal[Primary] /\ Primary \in Rerankers
  BY DEF Healthy, Available, AlreadyLoaded, CannotSend, GiveUp, LocalReranker, Unreachable
<1>2. Manager!ManagerInv' /\ TypeOK
  BY <1>1, ServerStays DEF FallbackInv
<1>3. troubles' \in troubles..MaxTroubles /\ call' \in Slots \cup {Free}
  BY <1>1, <1>2, FallbackAssumption DEF TypeOK, Trouble
<1>4. CallInv' /\ step \in Steps
  BY <1>1 DEF CallInv, Goes, Steps
<1>5. step = "direct" => Primary \notin Guarded
  BY <1>1 DEF Guarded
<1>6. QED
  BY <1>1, <1>2, <1>3, <1>4, <1>5, GoesStep

\* A load or a batch is posted.
LEMMA PostedStep ==
  ASSUME FallbackInv, NEW s \in Slots, RequestLoad(s) \/ Send(s)
  PROVE  FallbackInv'
<1> USE ServiceAssumption, FallbackAssumption
<1>1. TypeOK /\ Manager!ManagerInv /\ wpc \in {"ensure", "send"} /\ task \in Tasks
  BY DEF FallbackInv, RequestLoad, Send, TypeOK
<1>2. Primary \in Primaries /\ Remote \in Names /\ Texts(Primary) \in 1..NTexts
  BY <1>1 DEF Primary, Remote, Texts
<1>3. PICK op \in {"load", "encode", "rerank"}, precision \in Server!Requested, n \in 1..NTexts,
           step \in {"loading", "awaiting"} :
        /\ Server!Post(s, op, Remote, precision, n) /\ Goes(step) /\ call' = s
        /\ UNCHANGED <<guard, history, troubles>>
        /\ step = "awaiting" => op # "load" /\ n = Texts(Primary)
  <2>1. CASE RequestLoad(s)
    <3>1. Quantization[Primary] \in Server!Requested /\ 1 \in 1..NTexts
      BY <1>2 DEF Server!Requested
    <3>2. /\ Server!Post(s, "load", Remote, Quantization[Primary], 1) /\ Goes("loading")
          /\ call' = s /\ UNCHANGED <<guard, history, troubles>>
      BY <2>1 DEF RequestLoad
    <3>3. QED
      BY <3>1, <3>2
  <2>2. CASE Send(s)
    <3>1. "unset" \in Server!Requested
      BY DEF Server!Requested
    <3>2. PICK op \in {"encode", "rerank"} :
            /\ Server!Post(s, op, Remote, "unset", Texts(Primary)) /\ Goes("awaiting")
            /\ call' = s /\ UNCHANGED <<guard, history, troubles>>
      BY <2>2 DEF Send
    <3>3. QED
      BY <1>2, <3>1, <3>2
  <2>3. QED
    BY <2>1, <2>2
<1>4. Manager!ManagerInv'
  <2>1. op \in Server!Ops /\ n \in 0..NTexts
    BY DEF Server!Ops
  <2>2. QED
    BY <1>1, <1>2, <1>3, <2>1, ServerPost
<1>5. CallInv'
  <2>1. /\ pc \in [Slots -> {"idle", "waiting", "locked", "loading", "report", "label",
                             "work", "checked", "answered"}]
        /\ req \in [Slots -> Server!Request]
    BY <1>1 DEF TypeOK, Server!TypeOK
  <2>2. /\ req' = [req EXCEPT ![s] = [op |-> op, name |-> Remote, precision |-> precision,
                                      texts |-> n]]
        /\ \E next \in {"waiting", "answered"} : pc' = [pc EXCEPT ![s] = next]
    BY <1>3 DEF Server!Post, Server!Goes, Server!Answered
  <2>3. pc'[s] # "idle" /\ req'[s] = [op |-> op, name |-> Remote, precision |-> precision, texts |-> n]
    BY <2>1, <2>2
  <2>4. wpc' = step /\ Primary' = Primary /\ Remote' = Remote
    BY <1>3 DEF Goes, Primary, Remote
  <2>5. QED
    BY <1>3, <2>3, <2>4 DEF CallInv
<1>6. troubles' \in troubles..MaxTroubles /\ call' \in Slots \cup {Free} /\ step \in Steps
  BY <1>1, <1>3 DEF TypeOK, Steps
<1>7. QED
  BY <1>1, <1>3, <1>4, <1>5, <1>6, GoesStep

\* An answer: to a load, or with the rows of the batch.
LEMMA AnsweredStep ==
  ASSUME FallbackInv, LoadAnswered \/ Answered \/ Scored
  PROVE  FallbackInv'
<1>1. /\ TypeOK /\ Manager!ManagerInv /\ call \in Slots /\ Server!Collect(call) /\ call' = Free
      /\ wpc \in {"loading", "awaiting"} /\ UNCHANGED <<guard, history, troubles>>
  BY DEF FallbackInv, LoadAnswered, Answered, Scored, TakeAnswer
<1>2. Manager!ManagerInv'
  <2>1. PICK s \in Slots : s = call
    BY <1>1
  <2>2. QED
    BY <1>1, <2>1, ServerCollect
<1>3. troubles' \in troubles..MaxTroubles /\ call' \in Slots \cup {Free}
  BY <1>1, FallbackAssumption DEF TypeOK
<1>4. ASSUME NEW step \in {"send", "local"}, Goes(step) PROVE FallbackInv'
  <2>1. CallInv' /\ step \in Steps
    BY <1>4 DEF CallInv, Goes, Steps
  <2>2. QED
    BY <1>1, <1>2, <1>3, <1>4, <2>1, GoesStep
<1>5. CASE LoadAnswered
  BY <1>4, <1>5 DEF LoadAnswered
<1>6. CASE wpc = "awaiting" /\ TakeAnswer
  <2>1. CASE answer[call].status = "200"
    <3>1. /\ Ends("stored") /\ vectors' = [vectors EXCEPT ![task] = out[call]]
      BY <1>6, <2>1 DEF TakeAnswer
    <3>2. out[call] = Rows(Remote, Texts(Primary)) /\ out[call] \in Stored
      BY <1>1, <1>6, <2>1, AnswerRows
    <3>3. QED
      BY <1>1, <1>2, <1>3, <3>1, <3>2, EndsStep
  <2>2. CASE answer[call].status # "200"
    BY <1>4, <1>6, <2>2 DEF TakeAnswer
  <2>3. QED
    BY <2>1, <2>2
<1>7. QED
  BY <1>5, <1>6 DEF Answered, Scored

\* The local leg ends: refused, with rows, or with an exception.
LEMMA LocalStep ==
  ASSUME FallbackInv, NoLocalFallback \/ LocalBlocked \/ LocalEncoded \/ LocalScored \/ LocalRaises
  PROVE  FallbackInv'
<1> USE ServiceAssumption, FallbackAssumption
<1>1. /\ TypeOK /\ Manager!ManagerInv' /\ call' = call /\ UNCHANGED history
      /\ wpc \in {"local", "run", "direct"} /\ (troubles' = troubles \/ Trouble)
  BY ServerStays DEF FallbackInv, NoLocalFallback, LocalBlocked, LocalEncoded, LocalScored,
       LocalRaises, LocalRows
<1>2. troubles' \in troubles..MaxTroubles /\ call' \in Slots \cup {Free} /\ wpc # "poll"
  BY <1>1 DEF TypeOK, Trouble
<1>3. /\ task \in Tasks /\ Primary \in Primaries
      /\ Rows(Primary, Texts(Primary)) \in Stored
  BY <1>1 DEF TypeOK, Primary, Texts, Stored
<1>4. PICK how \in {"stored", "skipped", "dead"} :
        /\ Ends(how)
        /\ \/ how # "stored" /\ vectors' = vectors
           \/ vectors' = [vectors EXCEPT ![task] = Rows(Primary, Texts(Primary))]
        /\ \/ wpc # "run" /\ UNCHANGED guard
           \/ wpc = "run" /\ LocalEnd
           \/ /\ wpc = "local" /\ Primary \in running \ active /\ active' = active
              /\ running' = running \ {Primary} /\ blocked' = blocked \cup {Primary}
  <2>1. CASE NoLocalFallback
    BY <2>1 DEF NoLocalFallback
  <2>2. CASE LocalBlocked
    BY <2>2 DEF LocalBlocked, Killed, guard
  <2>3. CASE LocalEncoded \/ LocalScored
    BY <2>3 DEF LocalEncoded, LocalScored, LocalRows
  <2>4. CASE LocalRaises
    BY <2>4 DEF LocalRaises
  <2>5. QED
    BY <2>1, <2>2, <2>3, <2>4
<1>5. QED
  BY <1>1, <1>2, <1>3, <1>4, EndsStep

-----------------------------------------------------------------------------
\* The first state.
LEMMA FallbackInit == Init => FallbackInv
<1> SUFFICES ASSUME Init PROVE FallbackInv
  OBVIOUS
<1> USE FallbackAssumption
<1>1. Manager!ManagerInv
  BY ServerInit DEF Init
<1>2. Server!TypeOK
  BY <1>1, ServerTypes DEF Manager!ManagerInv
<1>3. <<>> \in Stored /\ "ready" \in Places /\ "poll" \in Steps
  BY DEF Stored, Places, Steps
<1>4. TypeOK
  BY <1>2, <1>3 DEF Init, TypeOK
<1>5. CallInv /\ TaskInv
  BY DEF Init, CallInv, TaskInv, RowsOfOwnModel
<1>6. GuardInv
  BY DEF Init, GuardInv, Guarded
<1>7. QED
  BY <1>1, <1>4, <1>5, <1>6 DEF FallbackInv

\* Every step keeps the invariant.
LEMMA FallbackStep == FallbackInv /\ [Next]_vars => FallbackInv'
<1> SUFFICES ASSUME FallbackInv, [Next]_vars PROVE FallbackInv'
  OBVIOUS
<1>1. CASE Work
  <2>1. CASE \E t \in Tasks : Poll(t)
    BY <2>1, PollStep
  <2>2. CASE Route \/ RouteReranker
    BY <2>2, RouteStep
  <2>3. CASE Healthy \/ Available \/ AlreadyLoaded \/ CannotSend \/ GiveUp \/ LocalReranker
    BY <2>3, AskStep
  <2>4. CASE \E s \in Slots : RequestLoad(s) \/ Send(s)
    BY <2>4, PostedStep
  <2>5. CASE LoadAnswered \/ Answered \/ Scored
    BY <2>5, AnsweredStep
  <2>6. CASE NoLocalFallback \/ LocalBlocked \/ LocalEncoded \/ LocalScored \/ LocalRaises
    BY <2>6, LocalStep
  <2>7. CASE LocalStart
    BY <2>7, LocalStartStep
  <2>8. CASE OutOfMemory
    BY <2>8, RestartStep
  <2>9. QED
    BY <1>1, <2>1, <2>2, <2>3, <2>4, <2>5, <2>6, <2>7, <2>8 DEF Work
<1>2. CASE Crash \/ Recreate
  BY <1>2, RestartStep
<1>3. CASE Threads \/ (Server!Service /\ Alone) \/ (\E s \in Slots : Drop(s)) \/ UNCHANGED vars
  BY <1>3, AloneStep
<1>4. QED
  BY <1>1, <1>2, <1>3 DEF Next

\* The invariant holds in every state of the worker and the service together.
THEOREM FallbackInvariant == Spec => []FallbackInv
BY FallbackInit, FallbackStep, PTL DEF Spec

\* Every task, file and request has its type.
THEOREM FallbackTypeCorrect == Spec => []TypeOK
<1>1. FallbackInv => TypeOK
  BY DEF FallbackInv
<1>2. QED
  BY <1>1, FallbackInvariant, PTL

\* Whichever leg served a task, its rows are those of its own model, one per text and
\* in order, whatever the service does for calls that were given up.
THEOREM RowsAreOwn == Spec => []RowsOfOwnModel
<1>1. FallbackInv => RowsOfOwnModel
  BY DEF FallbackInv, TaskInv
<1>2. QED
  BY <1>1, FallbackInvariant, PTL

\* LocalRunGuard refuses a model only after one of its local runs was killed.
THEOREM BlockedAfterDeath == Spec => []BlockedOnlyAfterDeath
<1>1. FallbackInv => BlockedOnlyAfterDeath
  BY DEF FallbackInv, GuardInv, BlockedOnlyAfterDeath
<1>2. QED
  BY <1>1, FallbackInvariant, PTL

\* A model whose local runs are all watched over kills at most one process per
\* container, however often its message is delivered again.
THEOREM GuardedKilledOnce == Spec => []GuardedKilledAtMostOnce
<1>1. FallbackInv => GuardedKilledAtMostOnce
  <2>1. SUFFICES ASSUME FallbackInv, NEW p \in Guarded PROVE kills[p] <= recreates + 1
    BY DEF GuardedKilledAtMostOnce
  <2>2. /\ kills[p] <= recreates + (IF p \in died THEN 1 ELSE 0)
        /\ recreates \in Nat /\ kills[p] \in Nat
    BY <2>1, FallbackAssumption DEF FallbackInv, GuardInv, TypeOK, Guarded
  <2>3. QED
    BY <2>2
<1>2. QED
  BY <1>1, FallbackInvariant, PTL

\* So where every model is one of those, no model kills a second one.  With a model
\* that has only a local leg, or a reranker with one, it may: those runs are direct.
THEOREM KilledOnce ==
  ASSUME Guarded = Primaries
  PROVE  Spec => []KilledAtMostOnce
<1>1. GuardedKilledAtMostOnce => KilledAtMostOnce
  BY DEF GuardedKilledAtMostOnce, KilledAtMostOnce
<1>2. QED
  BY <1>1, GuardedKilledOnce, PTL

=============================================================================
