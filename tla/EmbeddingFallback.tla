------------------------- MODULE EmbeddingFallback -------------------------
(***************************************************************************)
(* The GPU worker as client of the remote embedder: FallbackEmbeddingModel *)
(* and FallbackRerankModel ask the remote service first and fall back to a *)
(* model in the worker's own process, whose embedding runs LocalRunGuard   *)
(* watches over.                                                           *)
(*                                                                         *)
(* Composed with ModelManager, the service: a call is a request in one of  *)
(* its slots, and a call the client gave up on goes on there.  A task is a *)
(* batch of one message; what is done with its rows is in EmbedWorker and  *)
(* SearchPipeline.                                                         *)
(***************************************************************************)
EXTENDS Integers, Sequences

CONSTANTS
    Models, NoModel, Names, Kind, Default, Slots, Free, NTexts,
    MaxRequests, MaxFaults, MaxStops,       \* of ModelManager
    Primaries,      \* the pipeline's models: `primary`
    Rerankers,      \* the ones in RERANK_CONFIGS
    RemoteId,       \* remote_id: the model's name at the service
    UseRemote,      \* EMBED_REMOTE_URL is set and allow_remote
    AllowLocal,     \* allow_local
    Quantization,   \* the precision the config asks for
    Heavy,          \* models that may exceed the container's memory, depending on the batch
    Tasks, NoTask,
    PrimaryOf,      \* the model of a task
    MaxTroubles,    \* bound: lost calls, crashes and recreated containers together
    MaxKills        \* where the count of deaths in local runs stops

\* What ModelManager assumes of its own constants.
ASSUME ServiceAssumption ==
    /\ Models \subseteq Names /\ NoModel \notin Names
    /\ Kind \in [Models -> {"embed", "rerank"}]
    /\ Default \in [Models -> BOOLEAN]
    /\ Free \notin Slots
    /\ NTexts \in Nat \ {0}
    /\ MaxRequests \in Nat /\ MaxFaults \in Nat /\ MaxStops \in Nat

ASSUME FallbackAssumption ==
    /\ Rerankers \subseteq Primaries
    /\ RemoteId \in [Primaries -> Names]
    /\ \A p \in Primaries : RemoteId[p] \in Models =>
           (Kind[RemoteId[p]] = "rerank" <=> p \in Rerankers)
    /\ UseRemote \in [Primaries -> BOOLEAN]
    /\ AllowLocal \in [Primaries -> BOOLEAN]
    /\ Quantization \in [Primaries -> {"unset", "int8", "int4", "off", "other"}]
    /\ Heavy \subseteq Primaries
    /\ NoTask \notin Tasks
    /\ PrimaryOf \in [Tasks -> Primaries]
    /\ MaxTroubles \in Nat
    /\ MaxKills \in Nat /\ MaxTroubles + 1 < MaxKills

VARIABLES
    up, lock, model_id, model, quantized, idle, pc, req, local, out, answer,
    posted, bad, stops,     \* of ModelManager
    place,          \* where each task's message is, or how it ended
    task,           \* the task in hand
    wpc,            \* the worker's step
    call,           \* the slot whose answer the worker waits for
    vectors,        \* per task: the rows that were stored
    running,        \* models with a .running file
    blocked,        \* models with a .blocked file
    active,         \* _active: models this process is running
    died,           \* history: models in whose local run a process died since the files were new
    kills,          \* history: how often that happened, up to MaxKills
    recreates,      \* history: how often the container was recreated
    troubles

Server == INSTANCE ModelManager

server == <<up, lock, model_id, model, quantized, idle, pc, req, local, out, answer,
            posted, bad, stops>>
worker == <<place, task, wpc, call, vectors>>
guard == <<running, blocked, active>>
history == <<died, kills, recreates>>
vars == <<server, worker, guard, history, troubles>>

Init ==
    /\ Server!Init
    /\ place = [t \in Tasks |-> "ready"]
    /\ task = NoTask
    /\ wpc = "poll"
    /\ call = Free
    /\ vectors = [t \in Tasks |-> <<>>]
    /\ running = {} /\ blocked = {} /\ active = {}
    /\ died = {} /\ kills = [p \in Primaries |-> 0] /\ recreates = 0
    /\ troubles = 0

\* The model of the task in hand, and its name at the service.
Primary == PrimaryOf[task]
Remote == RemoteId[Primary]

Texts(p) == IF p \in Rerankers THEN 1 ELSE NTexts
Rows(m, n) == [i \in 1..n |-> [text |-> i, by |-> m]]

\* The worker goes on with another step of the same task.
Goes(step) == wpc' = step /\ UNCHANGED <<place, task, vectors>>

\* Mutant of Ends: the settled task stays in hand.
EndsKeeping(how) ==
    /\ place' = [place EXCEPT ![task] = how]
    /\ UNCHANGED task
    /\ wpc' = "poll"

\* The task ends: its message is acknowledged or rejected.
Ends(how) ==
    /\ place' = [place EXCEPT ![task] = how]
    /\ task' = NoTask
    /\ wpc' = "poll"

Trouble == troubles < MaxTroubles /\ troubles' = troubles + 1

\* A call fails: the service is down, or the call is lost on the client's side.
Unreachable == (~up /\ UNCHANGED troubles) \/ (up /\ Trouble)

-----------------------------------------------------------------------------
(* The worker takes a task; _load_model or _load_reranker chooses its legs. *)

Poll(t) ==
    /\ wpc = "poll"
    /\ place[t] = "ready"
    /\ place' = [place EXCEPT ![t] = "held"]
    /\ task' = t
    /\ wpc' = "route"
    /\ UNCHANGED <<server, call, vectors, guard, history, troubles>>

\* Remote with a fallback, local only (never guarded), or neither.
ChooseLegs ==
    /\ IF UseRemote[Primary] THEN Goes("health")
       ELSE IF AllowLocal[Primary] THEN Goes("direct")
       ELSE Ends("dead") /\ UNCHANGED vectors
    /\ UNCHANGED <<server, call, guard, history, troubles>>

Route == wpc = "route" /\ Primary \notin Rerankers /\ ChooseLegs
RouteReranker == wpc = "route" /\ Primary \in Rerankers /\ ChooseLegs

-----------------------------------------------------------------------------
(* RemoteEmbeddingModel and RemoteRerankModel. *)

\* is_endpoint_healthy.
Healthy ==
    /\ wpc = "health"
    /\ \/ up /\ Goes("available") /\ UNCHANGED troubles
       \/ Unreachable /\ Goes("local")
    /\ UNCHANGED <<server, call, guard, history>>

\* is_model_available: an unlisted model and a failed request look the same.
Available ==
    /\ wpc = "available"
    /\ \/ up /\ Goes(IF Server!Listed(Remote) THEN "ensure" ELSE "local") /\ UNCHANGED troubles
       \/ Unreachable /\ Goes("local")
    /\ UNCHANGED <<server, call, guard, history>>

\* ensure_model_loaded finds the model loaded, as the service says without its lock.
AlreadyLoaded ==
    /\ wpc = "ensure"
    /\ up
    /\ Server!IsLoaded(Remote)
    /\ Goes("send")
    /\ UNCHANGED <<server, call, guard, history, troubles>>

\* It is not: POST /api/v1/models/load with the configured precision.
RequestLoad(s) ==
    /\ wpc = "ensure"
    /\ up
    /\ ~ Server!IsLoaded(Remote)
    /\ Server!Post(s, "load", Remote, Quantization[Primary], 1)
    /\ call' = s
    /\ Goes("loading")
    /\ UNCHANGED <<guard, history, troubles>>

LoadAnswered ==
    /\ wpc = "loading"
    /\ call \in Slots
    /\ Goes(IF answer[call].status = "200" THEN "send" ELSE "local")
    /\ Server!Collect(call)
    /\ call' = Free
    /\ UNCHANGED <<guard, history, troubles>>

\* Mutant of Send: the request names whatever the service had loaded.
SendLoaded(s) ==
    /\ wpc = "send"
    /\ up
    /\ Server!Post(s, "encode", IF model_id = NoModel THEN Remote ELSE model_id,
                   "unset", Texts(Primary))
    /\ call' = s
    /\ Goes("awaiting")
    /\ UNCHANGED <<guard, history, troubles>>

\* POST /embeddings, or /rerank for a reranker.
Send(s) ==
    /\ wpc = "send"
    /\ up
    /\ Server!Post(s, IF Primary \in Rerankers THEN "rerank" ELSE "encode", Remote,
                   "unset", Texts(Primary))
    /\ call' = s
    /\ Goes("awaiting")
    /\ UNCHANGED <<guard, history, troubles>>

\* Connection refused, or no thread of the pool before the timeout.
CannotSend ==
    /\ wpc \in {"ensure", "send"}
    /\ Unreachable \/ (up /\ (\A s \in Slots : pc[s] # "idle") /\ UNCHANGED troubles)
    /\ Goes("local")
    /\ UNCHANGED <<server, call, guard, history>>

\* The rows of the answer are the result; any other answer sends the batch on.
TakeAnswer ==
    /\ call \in Slots
    /\ Server!Collect(call)
    /\ call' = Free
    /\ IF answer[call].status = "200"
       THEN /\ Ends("stored")
            /\ vectors' = [vectors EXCEPT ![task] = out[call]]
       ELSE Goes("local")
    /\ UNCHANGED <<guard, history, troubles>>

\* FallbackEmbeddingModel.encode and FallbackRerankModel.score; scores are put
\* back in the order of the documents.
Answered == wpc = "awaiting" /\ Primary \notin Rerankers /\ TakeAnswer
Scored == wpc = "awaiting" /\ Primary \in Rerankers /\ TakeAnswer

\* httpx.TimeoutException: the worker goes on, and so does the service.
GiveUp ==
    /\ wpc \in {"loading", "awaiting"}
    /\ Trouble
    /\ call' = Free
    /\ Goes("local")
    /\ UNCHANGED <<server, guard, history>>

\* The answer of a call that nobody waits for.
Drop(s) ==
    /\ s # call
    /\ Server!Collect(s)
    /\ UNCHANGED <<worker, guard, history, troubles>>

-----------------------------------------------------------------------------
(* The local leg. *)

\* Mutant of NoLocalFallback: the message is put back into the queue.
NoLocalRequeue ==
    /\ wpc = "local"
    /\ ~AllowLocal[Primary]
    /\ Ends("ready")
    /\ UNCHANGED <<server, call, vectors, guard, history, troubles>>

\* _NoLocalFallback, _NoLocalRerankFallback: EmbeddingUnavailableError.
NoLocalFallback ==
    /\ wpc = "local"
    /\ ~AllowLocal[Primary]
    /\ Ends("skipped")
    /\ UNCHANGED <<server, call, vectors, guard, history, troubles>>

\* _LazyLocalReranker has no guard.
LocalReranker ==
    /\ wpc = "local"
    /\ AllowLocal[Primary]
    /\ Primary \in Rerankers
    /\ Goes("direct")
    /\ UNCHANGED <<server, call, guard, history, troubles>>

\* Mutant of Killed: a marker of an earlier process is taken for the own one.
KilledNever(p) == FALSE

\* check(): a marker that this process has not written.
Killed(p) == p \in running \ active

\* check() raises, after it has turned a marker left behind into a block.
LocalBlocked ==
    /\ wpc = "local"
    /\ AllowLocal[Primary]
    /\ Primary \notin Rerankers
    /\ Killed(Primary) \/ Primary \in blocked
    /\ IF Killed(Primary)
       THEN running' = running \ {Primary} /\ blocked' = blocked \cup {Primary}
       ELSE UNCHANGED <<running, blocked>>
    /\ Ends("skipped")
    /\ UNCHANGED <<server, call, vectors, active, history, troubles>>

\* run(): the marker is written before the model is loaded.
LocalStart ==
    /\ wpc = "local"
    /\ AllowLocal[Primary]
    /\ Primary \notin Rerankers
    /\ ~Killed(Primary) /\ Primary \notin blocked
    /\ running' = running \cup {Primary}
    /\ active' = active \cup {Primary}
    /\ Goes("run")
    /\ UNCHANGED <<server, call, blocked, history, troubles>>

\* Mutant of LocalEnd: an exception leaves the marker.
LocalEndLeaving ==
    /\ active' = active \ {Primary}
    /\ UNCHANGED <<running, blocked>>

\* The finally of run().
LocalEnd ==
    /\ active' = active \ {Primary}
    /\ running' = running \ {Primary}
    /\ UNCHANGED blocked

\* The model fits into memory and gives the rows.
LocalRows ==
    /\ vectors' = [vectors EXCEPT ![task] = Rows(Primary, Texts(Primary))]
    /\ Ends("stored")
    /\ UNCHANGED <<server, call, history, troubles>>

\* It is loaded if need be and encodes, or scores.
LocalEncoded ==
    /\ wpc \in {"run", "direct"}
    /\ Primary \notin Rerankers
    /\ IF wpc = "run" THEN LocalEnd ELSE UNCHANGED guard
    /\ LocalRows

LocalScored ==
    /\ wpc = "direct"
    /\ Primary \in Rerankers
    /\ LocalRows
    /\ UNCHANGED guard

\* The load or the encode raises: the message is rejected.
LocalRaises ==
    /\ wpc \in {"run", "direct"}
    /\ Trouble
    /\ IF wpc = "run" THEN LocalEnd ELSE UNCHANGED guard
    /\ Ends("dead")
    /\ UNCHANGED <<server, call, vectors, history>>

-----------------------------------------------------------------------------
(* The end of the worker process; the container restarts it. *)

\* Docker restarts the container, RabbitMQ redelivers; _active was memory.
Restarted ==
    /\ place' = [t \in Tasks |-> IF t = task THEN "ready" ELSE place[t]]
    /\ task' = NoTask
    /\ wpc' = "poll"
    /\ call' = Free
    /\ active' = {}
    /\ UNCHANGED <<server, vectors>>

\* A process dies; if it was in a local run, the history remembers.
Dies ==
    /\ Restarted
    /\ UNCHANGED <<running, blocked>>
    /\ IF wpc \in {"run", "direct"}
       THEN /\ died' = died \cup {Primary}
            /\ kills' = [kills EXCEPT ![Primary] = IF @ < MaxKills THEN @ + 1 ELSE @]
            /\ UNCHANGED recreates
       ELSE UNCHANGED history

\* The kernel kills the process that exceeds the memory limit.
OutOfMemory ==
    /\ wpc \in {"run", "direct"}
    /\ Primary \in Heavy
    /\ Dies
    /\ UNCHANGED troubles

Crash ==
    /\ Trouble
    /\ Dies

\* A deployment: the files were in the container's writable layer.
Recreate ==
    /\ Trouble
    /\ recreates' = recreates + 1
    /\ Restarted
    /\ running' = {} /\ blocked' = {}
    /\ died' = {}
    /\ UNCHANGED kills

-----------------------------------------------------------------------------
Work ==
    \/ \E t \in Tasks : Poll(t)
    \/ Route \/ RouteReranker \/ Healthy \/ Available \/ AlreadyLoaded
    \/ \E s \in Slots : RequestLoad(s) \/ Send(s)
    \/ LoadAnswered \/ CannotSend \/ Answered \/ Scored \/ GiveUp
    \/ NoLocalFallback \/ LocalReranker \/ LocalBlocked \/ LocalStart
    \/ LocalEncoded \/ LocalScored \/ LocalRaises \/ OutOfMemory

Alone == UNCHANGED <<worker, guard, history, troubles>>

\* The threads of the service go on with the requests they have.
Threads == (\E s \in Slots : Server!Step(s)) /\ Alone

Next ==
    \/ Work
    \/ Threads
    \/ Server!Service /\ Alone
    \/ \E s \in Slots : Drop(s)
    \/ Crash \/ Recreate

Spec == Init /\ [][Next]_vars

\* The worker's loop and the threads of the service do not stop together: the calls
\* they make return, raise or time out.
FairSpec == Spec /\ WF_vars(Work \/ Threads)

-----------------------------------------------------------------------------
Places == {"ready", "held", "stored", "skipped", "dead"}
Steps == {"poll", "route", "health", "available", "ensure", "loading", "send",
          "awaiting", "local", "run", "direct"}

\* What may be stored for a task: the rows of some model, or nothing yet.
Stored == {<<>>} \cup {Rows(m, n) : m \in Models \cup Primaries, n \in 1..NTexts}

TypeOK ==
    /\ Server!TypeOK
    /\ place \in [Tasks -> Places]
    /\ task \in Tasks \cup {NoTask}
    /\ wpc \in Steps
    /\ (task = NoTask) <=> (wpc = "poll")
    /\ call \in Slots \cup {Free}
    /\ vectors \in [Tasks -> Stored]
    /\ running \subseteq Primaries /\ blocked \subseteq Primaries
    /\ active \subseteq Primaries /\ died \subseteq Primaries
    /\ kills \in [Primaries -> 0..MaxKills]
    /\ recreates \in 0..MaxTroubles /\ troubles \in 0..MaxTroubles

\* Whichever leg served a task, and whatever loads the service still works on for
\* calls that were given up, the rows that are stored are those of the task's own
\* model, one per text and in order.
RowsOfOwnModel ==
    \A t \in Tasks : place[t] = "stored" =>
        LET p == PrimaryOf[t] IN
        vectors[t] \in {Rows(RemoteId[p], Texts(p)), Rows(p, Texts(p))}

\* A local run that killed its process is not started a second time when the
\* message is redelivered: at most one death per model and container.
KilledAtMostOnce ==
    \A p \in Primaries : kills[p] <= recreates + 1

\* The models whose local runs all go through the guard, if there are any: embedders
\* that are asked for remotely first, and models without a local leg.
Guarded == {p \in Primaries : ~AllowLocal[p] \/ (UseRemote[p] /\ p \notin Rerankers)}

\* The same for those models, which is as far as the guard goes: through every death,
\* redelivery, outage of the service and new container, a run that killed its process
\* is not started again in the container.
GuardedKilledAtMostOnce ==
    \A p \in Guarded : kills[p] <= recreates + 1

\* Local runs of a model are refused only after one of them was killed in this
\* container: an exception or a remote outage never blocks a model.
BlockedOnlyAfterDeath ==
    /\ blocked \cup (running \ active) \subseteq died
    /\ wpc = "run" => Primary \in active

\* Every batch ends, with rows, with a skip or in the dead-letter queue, although
\* the service may be down, keep the worker waiting, or lose its model between the
\* load and the request.
EveryBatchEnds ==
    <>(\A t \in Tasks : place[t] \in {"stored", "skipped", "dead"})
=============================================================================
