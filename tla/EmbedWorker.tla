---------------------------- MODULE EmbedWorker ----------------------------
(***************************************************************************)
(* GpuEmbedWorker with EmbedHandler.embed_chunks: a single process polls   *)
(* one queue per embedding model, keeps one model loaded, and embeds the   *)
(* chunk tasks of a queue in batches.  A batch is settled as a whole, at   *)
(* the end: until then its messages are unacknowledged, and a crash or a   *)
(* lost connection gives them back to their queue.                         *)
(*                                                                         *)
(* A message is identified with its task and the task with its chunks,     *)
(* which are fetched, saved and announced together.  Query and rerank      *)
(* batches are in SearchPipeline.                                          *)
(***************************************************************************)
EXTENDS Integers, FiniteSets

CONSTANTS
    Models,         \* embedding models, each with its queue
    NoModel,        \* no model is loaded; no vector is stored
    Tasks,          \* chunk tasks
    ModelOf,        \* the model whose queue a task is published to
    Malformed,      \* messages that do not parse
    Stale,          \* tasks whose table or rows do not exist
    MaxBatch,       \* max_batch
    MaxCrashes,     \* bound: worker exits and lost connections
    MaxFaults       \* bound: calls that raise inside the batch

ASSUME WorkerAssumption ==
    /\ NoModel \notin Models
    /\ ModelOf \in [Tasks -> Models]
    /\ Malformed \subseteq Tasks
    /\ Stale \subseteq Tasks
    /\ MaxBatch \in Nat \ {0}
    /\ MaxCrashes \in Nat
    /\ MaxFaults \in Nat

VARIABLES
    place,          \* where each task's message is
    pc,             \* the worker's step
    model,          \* _current_model_name
    name,           \* the model name of the polled queue
    batch,          \* the parsed messages of this batch
    todo,           \* tasks the current loop has still to visit
    triples,        \* tasks with rows to encode
    fetch_failed,   \* tasks whose fetch raised
    ok, failed,     \* the outcome still to be settled
    vector,         \* the model of the vector stored for a task's chunks
    announced,      \* tasks with an embedding.completed event
    skipped,        \* history: tasks acknowledged because no backend was there
    crashes, faults

batchState == <<name, batch, todo, triples, fetch_failed, ok, failed>>
vars == <<place, pc, model, name, batch, todo, triples, fetch_failed, ok, failed,
          vector, announced, skipped, crashes, faults>>

Init ==
    /\ place = [t \in Tasks |-> "unsent"]
    /\ pc = "scan"
    /\ model = NoModel
    /\ name = NoModel
    /\ batch = {}
    /\ todo = {}
    /\ triples = {}
    /\ fetch_failed = {}
    /\ ok = {}
    /\ failed = {}
    /\ vector = [t \in Tasks |-> NoModel]
    /\ announced = {}
    /\ skipped = {}
    /\ crashes = 0
    /\ faults = 0

Faulting == faults < MaxFaults /\ faults' = faults + 1

\* Messages of the tasks T move to p.
Move(T, p) == place' = [t \in Tasks |-> IF t \in T THEN p ELSE place[t]]

-----------------------------------------------------------------------------
(* ChunkDispatcher publishes an EmbedTask to its model's queue. *)

\* Mutant of Publish: the routing key names a queue nobody declared.
PublishUnrouted(t) ==
    /\ place[t] = "unsent"
    /\ Move({t}, "unroutable")
    /\ UNCHANGED <<pc, model, batchState, vector, announced, skipped, crashes, faults>>

Publish(t) ==
    /\ place[t] = "unsent"
    /\ Move({t}, "ready")
    /\ UNCHANGED <<pc, model, batchState, vector, announced, skipped, crashes, faults>>

-----------------------------------------------------------------------------
(* _run_inner. *)

Ready(m) == {t \in Tasks : place[t] = "ready" /\ ModelOf[t] = m}

\* Mutant of Polled: the worker waits for a full batch.
PolledFull(m) == {B \in SUBSET Ready(m) : Cardinality(B) = MaxBatch}

\* What _poll_queue may return: messages until the queue or the batch is full.
Polled(m) ==
    {B \in SUBSET Ready(m) :
        /\ B # {}
        /\ Cardinality(B) <= MaxBatch
        /\ Cardinality(B) = MaxBatch \/ B = Ready(m)}

\* Malformed messages are rejected at once; the scan goes on if none is left.
Poll(m) ==
    \E B \in Polled(m) :
        LET parsed == B \ Malformed IN
        /\ pc = "scan"
        /\ place' = [t \in Tasks |-> IF t \in parsed THEN "unacked"
                                     ELSE IF t \in B THEN "dead" ELSE place[t]]
        /\ name' = m
        /\ batch' = parsed
        /\ pc' = IF parsed = {} THEN "scan" ELSE "load"
        /\ UNCHANGED <<model, todo, triples, fetch_failed, ok, failed,
                       vector, announced, skipped, crashes, faults>>

\* Mutant of Loaded: a model that is warm is kept.
LoadedAny == IF model # NoModel THEN model ELSE name

\* _ensure_model: after it the model of the polled queue is the one loaded.
Loaded == name

Load ==
    /\ pc = "load"
    /\ model' = Loaded
    /\ todo' = batch
    /\ pc' = "fetch"
    /\ UNCHANGED <<place, name, batch, triples, fetch_failed, ok, failed,
                   vector, announced, skipped, crashes, faults>>

\* The old model is unloaded, the new one cannot be loaded: reject the batch.
LoadFails ==
    /\ pc = "load"
    /\ model # name
    /\ Faulting
    /\ model' = NoModel
    /\ failed' = batch
    /\ pc' = "settle"
    /\ UNCHANGED <<place, name, batch, todo, triples, fetch_failed, ok,
                   vector, announced, skipped, crashes>>

\* The scans found nothing for idle_timeout_s; a message may have come since.
IdleUnload ==
    /\ pc = "scan"
    /\ model # NoModel
    /\ model' = NoModel
    /\ UNCHANGED <<place, pc, batchState, vector, announced, skipped, crashes, faults>>

-----------------------------------------------------------------------------
(* _embed_chunks_inner. *)

\* fetch_texts: a task without table or rows adds no triple and is passed over.
Fetch(t) ==
    /\ pc = "fetch"
    /\ t \in todo
    /\ todo' = todo \ {t}
    /\ triples' = triples \cup ({t} \ Stale)
    /\ UNCHANGED <<place, pc, model, name, batch, fetch_failed, ok, failed,
                   vector, announced, skipped, crashes, faults>>

FetchFails(t) ==
    /\ pc = "fetch"
    /\ t \in todo
    /\ Faulting
    /\ todo' = todo \ {t}
    /\ fetch_failed' = fetch_failed \cup {t}
    /\ UNCHANGED <<place, pc, model, name, batch, triples, ok, failed,
                   vector, announced, skipped, crashes>>

\* The handler returns and _run_inner starts to settle.
Outcome(good, bad) == ok' = good /\ failed' = bad /\ pc' = "settle"

NothingToEncode ==
    /\ pc = "fetch" /\ todo = {} /\ triples = {}
    /\ Outcome(batch \ fetch_failed, fetch_failed)
    /\ UNCHANGED <<place, model, name, batch, todo, triples, fetch_failed,
                   vector, announced, skipped, crashes, faults>>

\* Mutant of Encode: the events are published before the vectors are saved.
EncodeAnnouncing ==
    /\ pc = "fetch" /\ todo = {} /\ triples # {}
    /\ todo' = triples
    /\ pc' = "announce"
    /\ UNCHANGED <<place, model, name, batch, triples, fetch_failed, ok, failed,
                   vector, announced, skipped, crashes, faults>>

\* The fetched texts are encoded by the loaded model.
Encode ==
    /\ pc = "fetch" /\ todo = {} /\ triples # {}
    /\ todo' = triples
    /\ pc' = "save"
    /\ UNCHANGED <<place, model, name, batch, triples, fetch_failed, ok, failed,
                   vector, announced, skipped, crashes, faults>>

\* Mutant of EncodeUnavailable: the tasks whose fetch failed are acknowledged too.
EncodeUnavailableAll ==
    /\ pc = "fetch" /\ todo = {} /\ triples # {}
    /\ Faulting
    /\ Outcome(batch, {})
    /\ skipped' = skipped \cup triples
    /\ UNCHANGED <<place, model, name, batch, todo, triples, fetch_failed,
                   vector, announced, crashes>>

\* EmbeddingUnavailableError: acknowledged, to be found by the requeue endpoint.
EncodeUnavailable ==
    /\ pc = "fetch" /\ todo = {} /\ triples # {}
    /\ Faulting
    /\ Outcome(batch \ fetch_failed, fetch_failed)
    /\ skipped' = skipped \cup triples
    /\ UNCHANGED <<place, model, name, batch, todo, triples, fetch_failed,
                   vector, announced, crashes>>

EncodeFails ==
    /\ pc = "fetch" /\ todo = {} /\ triples # {}
    /\ Faulting
    /\ Outcome({}, batch)
    /\ UNCHANGED <<place, model, name, batch, todo, triples, fetch_failed,
                   vector, announced, skipped, crashes>>

\* save_batch, an UPDATE per table.
Save(t) ==
    /\ pc = "save"
    /\ t \in todo
    /\ vector' = [vector EXCEPT ![t] = model]
    /\ todo' = IF todo = {t} THEN triples ELSE todo \ {t}
    /\ pc' = IF todo = {t} THEN "announce" ELSE "save"
    /\ UNCHANGED <<place, model, name, batch, triples, fetch_failed, ok, failed,
                   announced, skipped, crashes, faults>>

\* One embedding.completed per post and table, after every row was saved.
Announce(t) ==
    /\ pc = "announce"
    /\ t \in todo
    /\ announced' = announced \cup {t}
    /\ todo' = todo \ {t}
    /\ UNCHANGED <<place, pc, model, name, batch, triples, fetch_failed, ok, failed,
                   vector, skipped, crashes, faults>>

\* Mutant of Finish: the tasks whose fetch failed are left out of the outcome.
FinishForgetting ==
    /\ pc = "announce" /\ todo = {}
    /\ Outcome(triples, {})
    /\ UNCHANGED <<place, model, name, batch, todo, triples, fetch_failed,
                   vector, announced, skipped, crashes, faults>>

\* Only the tasks that contributed a triple, and the failed ones, are returned.
Finish ==
    /\ pc = "announce" /\ todo = {}
    /\ Outcome(triples, fetch_failed)
    /\ UNCHANGED <<place, model, name, batch, todo, triples, fetch_failed,
                   vector, announced, skipped, crashes, faults>>

-----------------------------------------------------------------------------
(* Settlement, and what interrupts it. *)

\* The locals of the batch go out of scope.
Forget ==
    /\ pc' = "scan"
    /\ name' = NoModel
    /\ batch' = {} /\ todo' = {} /\ triples' = {} /\ fetch_failed' = {}
    /\ ok' = {} /\ failed' = {}

Ack(t) ==
    /\ pc = "settle"
    /\ t \in ok
    /\ Move({t}, "acked")
    /\ ok' = ok \ {t}
    /\ UNCHANGED <<pc, model, name, batch, todo, triples, fetch_failed, failed,
                   vector, announced, skipped, crashes, faults>>

\* nack with requeue=False, once every ack is out.
Nack(t) ==
    /\ pc = "settle"
    /\ ok = {}
    /\ t \in failed
    /\ Move({t}, "dead")
    /\ failed' = failed \ {t}
    /\ UNCHANGED <<pc, model, name, batch, todo, triples, fetch_failed, ok,
                   vector, announced, skipped, crashes, faults>>

Settled ==
    /\ pc = "settle"
    /\ ok = {} /\ failed = {}
    /\ Forget
    /\ UNCHANGED <<place, model, vector, announced, skipped, crashes, faults>>

Unacked == {t \in Tasks : place[t] = "unacked"}

\* BaseWorker.run opens a new connection; the broker requeues; the model stays.
ConnectionLost ==
    /\ pc \in {"scan", "settle"}
    /\ crashes < MaxCrashes
    /\ crashes' = crashes + 1
    /\ Move(Unacked, "ready")
    /\ Forget
    /\ UNCHANGED <<model, vector, announced, skipped, faults>>

\* The process dies, or an exception of save_batch or publish ends its loop.
Crash ==
    /\ crashes < MaxCrashes
    /\ crashes' = crashes + 1
    /\ Move(Unacked, "ready")
    /\ Forget
    /\ model' = NoModel
    /\ UNCHANGED <<vector, announced, skipped, faults>>

-----------------------------------------------------------------------------
Batch ==
    \/ \E m \in Models : Poll(m)
    \/ Load \/ LoadFails
    \/ \E t \in todo : Fetch(t) \/ FetchFails(t) \/ Save(t) \/ Announce(t)
    \/ NothingToEncode \/ Encode \/ EncodeUnavailable \/ EncodeFails \/ Finish
    \/ \E t \in ok : Ack(t)
    \/ \E t \in failed : Nack(t)
    \/ Settled

Next ==
    \/ \E t \in Tasks : Publish(t)
    \/ Batch
    \/ IdleUnload
    \/ ConnectionLost \/ Crash

Spec == Init /\ [][Next]_vars

\* The worker's loop runs on and the container restarts it; a batch ends because
\* every call in it returns or raises.
FairSpec == Spec /\ WF_vars(Batch)

-----------------------------------------------------------------------------
TypeOK ==
    /\ place \in [Tasks -> {"unsent", "ready", "unacked", "acked", "dead"}]
    /\ pc \in {"scan", "load", "fetch", "save", "announce", "settle"}
    /\ model \in Models \cup {NoModel}
    /\ name \in Models \cup {NoModel}
    /\ batch \in SUBSET Tasks
    /\ todo \in SUBSET Tasks
    /\ triples \in SUBSET Tasks
    /\ fetch_failed \in SUBSET Tasks
    /\ ok \in SUBSET Tasks
    /\ failed \in SUBSET Tasks
    /\ vector \in [Tasks -> Models \cup {NoModel}]
    /\ announced \in SUBSET Tasks
    /\ skipped \in SUBSET Tasks
    /\ crashes \in 0..MaxCrashes
    /\ faults \in 0..MaxFaults

\* A chunk table only ever holds vectors of its own model, although the worker
\* switches models between batches, keeps one over a lost connection and may
\* fail to load the next: vectors of two embedding spaces never mix.
OneSpacePerTable ==
    \A t \in Tasks : vector[t] \in {NoModel, ModelOf[t]}

\* Nothing is left to do for task t, or nothing can be done.
Done(t) ==
    \/ vector[t] # NoModel /\ t \in announced
    \/ t \in skipped
    \/ t \in Stale

\* A message is acknowledged only when nothing is left to do for it: its chunks
\* carry a vector and were announced, or there was no backend and the requeue
\* endpoint will find them, or they do not exist.
AckedIsDone ==
    \A t \in Tasks : place[t] = "acked" => Done(t)

\* embedding.completed is never published for chunks without a stored vector.
AnnouncedIsStored == \A t \in announced : vector[t] # NoModel

Handling == pc \in {"fetch", "save", "announce"}

\* What the worker's locals say of the messages it holds, at every step of a
\* batch: which of them are fetched, encoded and saved with which model, and that
\* the outcome lists leave out nothing but stale tasks.  With TypeOK it is
\* inductive and implies the safety properties above.
BatchInvariant ==
    /\ pc = "scan" => /\ batch = {} /\ todo = {} /\ triples = {} /\ fetch_failed = {}
                      /\ Unacked \subseteq Stale
    /\ pc \notin {"settle"} => ok = {} /\ failed = {}
    /\ pc \notin {"scan", "settle"} =>
           batch \subseteq Unacked /\ Unacked \subseteq batch \cup Stale
    /\ pc = "load" => todo = {} /\ triples = {} /\ fetch_failed = {}
    /\ \A t \in batch : ModelOf[t] = name
    /\ todo \cup triples \cup fetch_failed \subseteq batch
    /\ Handling => model = name
    /\ pc = "fetch" =>
           /\ batch \subseteq todo \cup triples \cup fetch_failed \cup Stale
           /\ todo \cap (triples \cup fetch_failed) = {}
    /\ pc \in {"save", "announce"} =>
           batch \subseteq triples \cup fetch_failed \cup Stale /\ todo \subseteq triples
    /\ triples \cap fetch_failed = {}
    /\ pc = "save" => \A t \in triples \ todo : vector[t] = name
    /\ pc = "announce" => \A t \in triples : vector[t] = name /\ (t \in todo \/ t \in announced)
    /\ pc = "settle" =>
           /\ ok \cup failed \subseteq Unacked /\ Unacked \subseteq ok \cup failed \cup Stale
           /\ ok \cap failed = {}
           /\ \A t \in ok : Done(t)

\* Every message that can be embedded is settled in the end, however often the
\* worker crashed or had to give the batch back.
EventuallySettled ==
    \A t \in Tasks \ Stale : place[t] = "ready" ~> place[t] \in {"acked", "dead"}

=============================================================================
