------------------------- MODULE EmbedWorkerProofs -------------------------
(* Proofs about EmbedWorker, for every set of tasks and models and every      *)
(* batch size.                                                                *)
EXTENDS EmbedWorker, TLAPS

\* Every variable keeps its type through every step of the worker.
THEOREM TypeCorrect == Spec => []TypeOK
<1>1. Init => TypeOK
  BY WorkerAssumption DEF Init, TypeOK
<1>2. TypeOK /\ [Next]_vars => TypeOK'
  <2> SUFFICES ASSUME TypeOK, [Next]_vars PROVE TypeOK'
    OBVIOUS
  <2> USE WorkerAssumption DEF TypeOK, batchState, Move, Faulting, Forget, Outcome
  <2>1. ASSUME NEW t \in Tasks, Publish(t) PROVE TypeOK'
    BY <2>1 DEF Publish
  <2>2. ASSUME NEW m \in Models, Poll(m) PROVE TypeOK'
    BY <2>2 DEF Poll, Polled, Ready
  <2>3. CASE Load
    BY <2>3 DEF Load, Loaded
  <2>4. CASE LoadFails
    BY <2>4 DEF LoadFails
  <2>5. ASSUME NEW t \in todo, Fetch(t) \/ FetchFails(t) PROVE TypeOK'
    BY <2>5 DEF Fetch, FetchFails
  <2>6. ASSUME NEW t \in todo, Save(t) \/ Announce(t) PROVE TypeOK'
    BY <2>6 DEF Save, Announce
  <2>7. CASE NothingToEncode \/ Encode \/ EncodeUnavailable \/ EncodeFails \/ Finish
    BY <2>7 DEF NothingToEncode, Encode, EncodeUnavailable, EncodeFails, Finish
  <2>8. ASSUME NEW t \in ok, Ack(t) PROVE TypeOK'
    BY <2>8 DEF Ack
  <2>9. ASSUME NEW t \in failed, Nack(t) PROVE TypeOK'
    BY <2>9 DEF Nack
  <2>10. CASE Settled \/ IdleUnload
    BY <2>10 DEF Settled, IdleUnload
  <2>11. CASE ConnectionLost \/ Crash
    BY <2>11 DEF ConnectionLost, Crash
  <2>12. CASE UNCHANGED vars
    BY <2>12 DEF vars
  <2> QED
    BY <2>1, <2>2, <2>3, <2>4, <2>5, <2>6, <2>7, <2>8, <2>9, <2>10, <2>11, <2>12
    DEF Next, Batch
<1> QED
  BY <1>1, <1>2, PTL DEF Spec

\* The locals of the worker describe the messages it holds, at every step.
THEOREM BatchSound == Spec => []BatchInvariant
<1>1. Init => BatchInvariant
  BY DEF Init, BatchInvariant, Handling, Unacked
<1>2. TypeOK /\ BatchInvariant /\ [Next]_vars => BatchInvariant'
  <2> SUFFICES ASSUME TypeOK, BatchInvariant, [Next]_vars PROVE BatchInvariant'
    OBVIOUS
  <2> USE DEF TypeOK, BatchInvariant, Handling, Unacked, batchState
  <2>1. ASSUME NEW t \in Tasks, Publish(t) PROVE BatchInvariant'
    BY <2>1 DEF Publish, Move, Done
  <2>2. ASSUME NEW m \in Models, Poll(m) PROVE BatchInvariant'
    BY <2>2 DEF Poll, Polled, Ready
  <2>3. CASE Load
    BY <2>3 DEF Load, Loaded
  <2>4. CASE LoadFails
    BY <2>4 DEF LoadFails, Faulting
  <2>5. ASSUME NEW t \in todo, Fetch(t) PROVE BatchInvariant'
    BY <2>5 DEF Fetch
  <2>6. ASSUME NEW t \in todo, FetchFails(t) PROVE BatchInvariant'
    BY <2>6 DEF FetchFails, Faulting
  <2>7. ASSUME NEW t \in todo, Save(t) PROVE BatchInvariant'
    BY <2>7 DEF Save
  <2>8. ASSUME NEW t \in todo, Announce(t) PROVE BatchInvariant'
    BY <2>8 DEF Announce
  <2>9. CASE NothingToEncode
    BY <2>9 DEF NothingToEncode, Outcome, Done
  <2>10. CASE Encode
    BY <2>10 DEF Encode
  <2>11. CASE EncodeUnavailable
    BY <2>11 DEF EncodeUnavailable, Outcome, Faulting, Done
  <2>12. CASE EncodeFails
    BY <2>12 DEF EncodeFails, Outcome, Faulting
  <2>13. CASE Finish
    BY <2>13, WorkerAssumption DEF Finish, Outcome, Done
  <2>14. ASSUME NEW t \in ok, Ack(t) PROVE BatchInvariant'
    BY <2>14 DEF Ack, Move, Done
  <2>15. ASSUME NEW t \in failed, Nack(t) PROVE BatchInvariant'
    BY <2>15 DEF Nack, Move, Done
  <2>16. CASE Settled
    BY <2>16 DEF Settled, Forget
  <2>17. CASE IdleUnload
    BY <2>17 DEF IdleUnload
  <2>18. CASE ConnectionLost \/ Crash
    BY <2>18 DEF ConnectionLost, Crash, Forget, Move
  <2>19. CASE UNCHANGED vars
    BY <2>19 DEF vars, Done
  <2> QED
    BY <2>1, <2>2, <2>3, <2>4, <2>5, <2>6, <2>7, <2>8, <2>9, <2>10, <2>11, <2>12,
       <2>13, <2>14, <2>15, <2>16, <2>17, <2>18, <2>19
    DEF Next, Batch
<1> QED
  BY <1>1, <1>2, TypeCorrect, PTL DEF Spec

\* Vectors are only written by Save, with the loaded model, which is the model of
\* the polled queue and so the one every task of the batch was published for.
THEOREM SpacesApart == Spec => []OneSpacePerTable
<1>1. Init => OneSpacePerTable
  BY DEF Init, OneSpacePerTable
<1>2. TypeOK /\ BatchInvariant /\ OneSpacePerTable /\ [Next]_vars => OneSpacePerTable'
  <2> SUFFICES ASSUME TypeOK, BatchInvariant, OneSpacePerTable, [Next]_vars
               PROVE  OneSpacePerTable'
    OBVIOUS
  <2>1. ASSUME NEW t \in todo, Save(t) PROVE OneSpacePerTable'
    <3>1. model = ModelOf[t] /\ t \in Tasks
      BY <2>1 DEF Save, BatchInvariant, Handling, TypeOK
    <3> QED
      BY <2>1, <3>1 DEF Save, OneSpacePerTable, TypeOK
  <2>2. CASE UNCHANGED vector
    BY <2>2 DEF OneSpacePerTable
  <2> QED
    BY <2>1, <2>2 DEF Next, Batch, vars, Publish, Poll, Load, LoadFails, Fetch, FetchFails,
       Announce, NothingToEncode, Encode, EncodeUnavailable, EncodeFails, Finish, Ack, Nack,
       Settled, IdleUnload, ConnectionLost, Crash
<1> QED
  BY <1>1, <1>2, TypeCorrect, BatchSound, PTL DEF Spec

\* A stored vector is never removed, so what is announced stays stored.
LEMMA VectorStays ==
  ASSUME TypeOK, BatchInvariant, [Next]_vars, NEW t \in Tasks, vector[t] # NoModel
  PROVE  vector'[t] # NoModel
<1>1. ASSUME NEW u \in todo, Save(u) PROVE vector'[t] # NoModel
  <2>1. model = name /\ u \in batch
    BY <1>1 DEF Save, BatchInvariant, Handling
  <2>2. name = ModelOf[u] /\ u \in Tasks
    BY <2>1 DEF BatchInvariant, TypeOK
  <2>3. model \in Models
    BY <2>1, <2>2, WorkerAssumption
  <2> QED
    BY <1>1, <2>3, WorkerAssumption DEF Save, TypeOK
<1>2. CASE UNCHANGED vector
  BY <1>2
<1> QED
  BY <1>1, <1>2 DEF Next, Batch, vars, Publish, Poll, Load, LoadFails, Fetch, FetchFails,
     Announce, NothingToEncode, Encode, EncodeUnavailable, EncodeFails, Finish, Ack, Nack,
     Settled, IdleUnload, ConnectionLost, Crash

\* embedding.completed is only published for saved rows.
THEOREM StoredFirst == Spec => []AnnouncedIsStored
<1>1. Init => AnnouncedIsStored
  BY DEF Init, AnnouncedIsStored
<1>2. TypeOK /\ BatchInvariant /\ AnnouncedIsStored /\ [Next]_vars => AnnouncedIsStored'
  <2> SUFFICES ASSUME TypeOK, BatchInvariant, AnnouncedIsStored, [Next]_vars,
                      NEW t \in announced'
               PROVE  vector'[t] # NoModel
    BY DEF AnnouncedIsStored
  <2>1. CASE t \in announced
    BY <2>1, VectorStays DEF AnnouncedIsStored, TypeOK
  <2>2. CASE t \notin announced
    <3>1. t \in todo /\ Announce(t)
      BY <2>2 DEF Next, Batch, vars, Publish, Poll, Load, LoadFails, Fetch, FetchFails, Save,
         Announce, NothingToEncode, Encode, EncodeUnavailable, EncodeFails, Finish, Ack, Nack,
         Settled, IdleUnload, ConnectionLost, Crash, batchState
    <3> QED
      BY <3>1, VectorStays, WorkerAssumption DEF Announce, BatchInvariant, TypeOK
  <2> QED
    BY <2>1, <2>2
<1> QED
  BY <1>1, <1>2, TypeCorrect, BatchSound, PTL DEF Spec

\* A message is acknowledged only when its chunks are embedded and announced, were
\* skipped for want of a backend, or do not exist; and that stays so.
THEOREM AckSound == Spec => []AckedIsDone
<1>1. Init => AckedIsDone
  BY DEF Init, AckedIsDone
<1>2. TypeOK /\ BatchInvariant /\ AckedIsDone /\ [Next]_vars => AckedIsDone'
  <2> SUFFICES ASSUME TypeOK, BatchInvariant, AckedIsDone, [Next]_vars,
                      NEW t \in Tasks, place'[t] = "acked"
               PROVE  Done(t)'
    BY DEF AckedIsDone
  <2>1. announced \subseteq announced' /\ skipped \subseteq skipped'
    BY DEF Next, Batch, vars, Publish, Poll, Load, LoadFails, Fetch, FetchFails, Save,
       Announce, NothingToEncode, Encode, EncodeUnavailable, EncodeFails, Finish, Ack, Nack,
       Settled, IdleUnload, ConnectionLost, Crash, batchState
  <2>2. Done(t) => Done(t)'
    BY <2>1, VectorStays DEF Done
  <2>3. CASE place[t] = "acked"
    BY <2>2, <2>3 DEF AckedIsDone
  <2>4. CASE place[t] # "acked"
    <3>1. t \in ok /\ Ack(t)
      BY <2>4 DEF Next, Batch, vars, Publish, Poll, Load, LoadFails, Fetch, FetchFails, Save,
         Announce, NothingToEncode, Encode, EncodeUnavailable, EncodeFails, Finish, Ack, Nack,
         Settled, IdleUnload, ConnectionLost, Crash, batchState, Move, TypeOK
    <3> QED
      BY <2>2, <3>1 DEF Ack, BatchInvariant
  <2> QED
    BY <2>3, <2>4
<1> QED
  BY <1>1, <1>2, TypeCorrect, BatchSound, PTL DEF Spec
=============================================================================
