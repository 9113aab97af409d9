--------------------------- MODULE SearchPipeline ---------------------------
(***************************************************************************)
(* The asynchronous search: POST /search inserts a job and publishes       *)
(* search_job.created; dispatchers turn events into queue messages; the    *)
(* GPU worker embeds the query; the CPU process runs the nearest-neighbour *)
(* search and finalizes, or the GPU worker reranks.  Every awaited         *)
(* statement of a handler is a step.                                       *)
(*                                                                         *)
(* Messages are acknowledged after their handler returned, so a crash      *)
(* delivers them again.  Events are consumed at most once (EventBus), so a *)
(* crash of the dispatcher may lose one.  The three CPU workers run in     *)
(* three threads that share one asyncio loop.                              *)
(*                                                                         *)
(* Queries, vectors, candidates and texts are abstracted away; of a job's  *)
(* results only their kind is kept.                                        *)
(***************************************************************************)
EXTENDS Integers, FiniteSets, Sequences

CONSTANTS
    Jobs,           \* the search jobs that may be requested
    NoMsg,          \* what an idle worker holds
    GpuBatch,       \* GpuEmbedWorker's max_batch
    MaxCrashes,     \* bound: process crashes and lost broker connections
    MaxFaults       \* bound: statements or model calls that raise

ASSUME SearchAssumption ==
    /\ NoMsg \notin [q : {"embed", "rerank", "run", "finalize"}, j : Jobs]
    /\ GpuBatch \in Nat \ {0}
    /\ MaxCrashes \in Nat
    /\ MaxFaults \in Nat

VARIABLES
    job,            \* the search_jobs rows
    api,            \* where POST /search is, per job
    log,            \* events published and not yet consumed: topic, job -> count
    queue,          \* ready messages: queue, job -> count
    dlq,            \* dead-lettered messages: queue, job -> count
    pc,             \* the step each worker is at
    msg,            \* the message its handler works on
    done,           \* messages it handled and has not settled yet, acks first
    loop,           \* who runs the CPU process's event loop
    lost,           \* history: events lost in a dispatcher crash, per job
    crashes, faults

vars == <<job, api, log, queue, dlq, pc, msg, done, loop, lost, crashes, faults>>

Topics == {"created", "embedded", "candidates", "completed"}
Queues == {"embed", "rerank", "run", "finalize"}
CpuWorkers == {"search", "finalize"}
Workers == CpuWorkers \cup {"gpu"}
QueuesOf(w) == CASE w = "gpu" -> {"embed", "rerank"}
                 [] w = "search" -> {"run"}
                 [] w = "finalize" -> {"finalize"}
BatchOf(w) == IF w = "gpu" THEN GpuBatch ELSE 1
Message == [q : Queues, j : Jobs]
Settlement == [q : Queues, j : Jobs, outcome : {"ack", "nack"}]

Row == [status : {"absent", "embedding", "searching", "reranking", "complete", "failed"},
        rerank : BOOLEAN, embedding : BOOLEAN, results : {"none", "ann", "reranked"},
        error_code : {"none", "rerank_unavailable"}]

Init ==
    /\ job = [j \in Jobs |-> [status |-> "absent", rerank |-> FALSE, embedding |-> FALSE,
                              results |-> "none", error_code |-> "none"]]
    /\ api = [j \in Jobs |-> "idle"]
    /\ log = [t \in Topics |-> [j \in Jobs |-> 0]]
    /\ queue = [q \in Queues |-> [j \in Jobs |-> 0]]
    /\ dlq = [q \in Queues |-> [j \in Jobs |-> 0]]
    /\ pc = [w \in Workers |-> "idle"]
    /\ msg = [w \in Workers |-> NoMsg]
    /\ done = [w \in Workers |-> <<>>]
    /\ loop = "free"
    /\ lost = [j \in Jobs |-> 0]
    /\ crashes = 0
    /\ faults = 0

JobOf(w) == msg[w].j
Add(bag, k, j) == [bag EXCEPT ![k][j] = @ + 1]
Remove(bag, k, j) == [bag EXCEPT ![k][j] = @ - 1]

Crashing == crashes < MaxCrashes /\ crashes' = crashes + 1
Faulting == faults < MaxFaults /\ faults' = faults + 1

Goto(w, step) == pc' = [pc EXCEPT ![w] = step]

-----------------------------------------------------------------------------
(* POST /search.  A refused request (unknown library or profile, reranker   *)
(* unavailable) leaves nothing behind and is not a step.                    *)

CreateJob(j, rerank) ==
    /\ api[j] = "idle"
    /\ job' = [job EXCEPT ![j].status = "embedding", ![j].rerank = rerank]
    /\ api' = [api EXCEPT ![j] = "inserted"]
    /\ UNCHANGED <<log, queue, dlq, pc, msg, done, loop, lost, crashes, faults>>

PublishCreated(j) ==
    /\ api[j] = "inserted"
    /\ log' = Add(log, "created", j)
    /\ api' = [api EXCEPT ![j] = "answered"]
    /\ UNCHANGED <<job, queue, dlq, pc, msg, done, loop, lost, crashes, faults>>

\* The API process dies, or publish raises, between the two writes.
ApiCrash(j) ==
    /\ api[j] = "inserted"
    /\ Crashing
    /\ api' = [api EXCEPT ![j] = "crashed"]
    /\ UNCHANGED <<job, log, queue, dlq, pc, msg, done, loop, lost, faults>>

-----------------------------------------------------------------------------
(* SearchDispatcher and EmbeddingDispatcher: one event in, one message out. *)

\* Mutants of RouteOf: the rerank flag is ignored; reranked jobs are skipped.
RouteOfIgnoringRerank(t, j) ==
    CASE t = "created" -> {"embed"} [] t = "embedded" -> {"run"}
      [] t = "candidates" -> {"finalize"}
RouteOfSkippingRerank(t, j) ==
    CASE t = "created" -> {"embed"} [] t = "embedded" -> {"run"}
      [] t = "candidates" -> IF job[j].rerank THEN {} ELSE {"finalize"}

\* The queues an event's task is published to.  The event carries the job's own
\* rerank flag, and the profiles were checked when the job was created.
RouteOf(t, j) ==
    CASE t = "created" -> {"embed"} [] t = "embedded" -> {"run"}
      [] t = "candidates" -> IF job[j].rerank THEN {"rerank"} ELSE {"finalize"}

\* Mutant of Dispatch: a task is published for an event that was consumed.
DispatchAgain(t, j) ==
    /\ t # "completed"
    /\ job[j].status # "absent"
    /\ log' = Remove(log, t, j)
    /\ queue' = [q \in Queues |-> IF q \in RouteOf(t, j)
                                  THEN [queue[q] EXCEPT ![j] = @ + 1] ELSE queue[q]]
    /\ UNCHANGED <<job, api, dlq, pc, msg, done, loop, lost, crashes, faults>>

Dispatch(t, j) ==
    /\ t # "completed"      \* nobody subscribes to search_job.completed
    /\ log[t][j] > 0
    /\ log' = Remove(log, t, j)
    /\ queue' = [q \in Queues |-> IF q \in RouteOf(t, j)
                                  THEN [queue[q] EXCEPT ![j] = @ + 1] ELSE queue[q]]
    /\ UNCHANGED <<job, api, dlq, pc, msg, done, loop, lost, crashes, faults>>

\* The dispatcher dies between committing the offset and publishing the task.
DispatcherCrash(t, j) ==
    /\ t # "completed"
    /\ log[t][j] > 0
    /\ Crashing
    /\ log' = Remove(log, t, j)
    /\ lost' = [lost EXCEPT ![j] = @ + 1]
    /\ UNCHANGED <<job, api, queue, dlq, pc, msg, done, loop, faults>>

-----------------------------------------------------------------------------
(* Delivery and settlement.  The GPU worker collects a batch from one queue, *)
(* handles its messages one by one and settles them all at the end: here a   *)
(* batch is the messages it handles before it settles.                       *)

FirstStep(q) == CASE q = "embed" -> "store_embedding" [] q = "run" -> "mark_searching"
                  [] q = "rerank" -> "mark_reranking" [] q = "finalize" -> "complete_ann"

Outcome(m, o) == [q |-> m.q, j |-> m.j, outcome |-> o]

\* ok messages are acknowledged before failed ones are rejected.
Handled(w, o) ==
    IF o.outcome = "ack" THEN <<o>> \o done[w] ELSE Append(done[w], o)

\* run_until_complete raises at once when another thread runs the loop.
MayRun(w) == w \in CpuWorkers => loop = "free"

Deliver(w, q, j) ==
    LET m == [q |-> q, j |-> j] IN
    /\ pc[w] = "idle"
    /\ Len(done[w]) < BatchOf(w)
    /\ \A i \in DOMAIN done[w] : done[w][i].q = q
    /\ queue[q][j] > 0
    /\ queue' = Remove(queue, q, j)
    /\ IF MayRun(w)
       THEN /\ msg' = [msg EXCEPT ![w] = m]
            /\ Goto(w, FirstStep(q))
            /\ loop' = IF w \in CpuWorkers THEN w ELSE loop
            /\ UNCHANGED done
       ELSE /\ done' = [done EXCEPT ![w] = Handled(w, Outcome(m, "nack"))]
            /\ UNCHANGED <<msg, pc, loop>>
    /\ UNCHANGED <<job, api, log, dlq, lost, crashes, faults>>

\* The handler's coroutine is done and its thread gives the loop back.
Return(w) ==
    /\ pc[w] \in {"returned", "raised"}
    /\ done' = [done EXCEPT ![w] = Handled(w, Outcome(msg[w],
                    IF pc[w] = "returned" THEN "ack" ELSE "nack"))]
    /\ msg' = [msg EXCEPT ![w] = NoMsg]
    /\ Goto(w, "idle")
    /\ loop' = IF w \in CpuWorkers THEN "free" ELSE loop
    /\ UNCHANGED <<job, api, log, queue, dlq, lost, crashes, faults>>

\* ack, or nack with requeue=False: the broker moves the message to the DLQ.
Settle(w) ==
    /\ pc[w] \in {"idle", "settling"}
    /\ done[w] # <<>>
    /\ LET m == Head(done[w])
       IN  dlq' = IF m.outcome = "nack" THEN Add(dlq, m.q, m.j) ELSE dlq
    /\ done' = [done EXCEPT ![w] = Tail(@)]
    /\ Goto(w, IF Len(done[w]) = 1 THEN "idle" ELSE "settling")
    /\ UNCHANGED <<job, api, log, queue, msg, loop, lost, crashes, faults>>

\* The unacknowledged messages of the workers W go back to their queues.
Requeued(W) ==
    [q \in Queues |-> [j \in Jobs |->
        LET m == [q |-> q, j |-> j]
        IN  queue[q][j] + Cardinality({w \in W : msg[w] = m})
              + Cardinality({p \in W \X (1..GpuBatch) :
                    /\ p[2] \in DOMAIN done[p[1]]
                    /\ done[p[1]][p[2]].q = q
                    /\ done[p[1]][p[2]].j = j})]]

\* The broker connection is gone when the messages are settled.
ConnectionLost(w) ==
    /\ pc[w] \in {"idle", "settling"}
    /\ done[w] # <<>>
    /\ Crashing
    /\ queue' = Requeued({w})
    /\ done' = [done EXCEPT ![w] = <<>>]
    /\ Goto(w, "idle")
    /\ UNCHANGED <<job, api, log, dlq, msg, loop, lost, faults>>

\* The process of the workers W dies and is restarted.
ProcessCrash(W) ==
    /\ \E w \in W : msg[w] # NoMsg \/ done[w] # <<>>
    /\ Crashing
    /\ queue' = Requeued(W)
    /\ pc' = [w \in Workers |-> IF w \in W THEN "idle" ELSE pc[w]]
    /\ msg' = [w \in Workers |-> IF w \in W THEN NoMsg ELSE msg[w]]
    /\ done' = [w \in Workers |-> IF w \in W THEN <<>> ELSE done[w]]
    /\ loop' = IF W = CpuWorkers THEN "free" ELSE loop
    /\ UNCHANGED <<job, api, log, dlq, lost, faults>>

\* The chunk worker of the same process takes and returns the loop.
ChunkTakesLoop ==
    /\ loop = "free"
    /\ loop' = "chunk"
    /\ UNCHANGED <<job, api, log, queue, dlq, pc, msg, done, lost, crashes, faults>>

ChunkReturnsLoop ==
    /\ loop = "chunk"
    /\ loop' = "free"
    /\ UNCHANGED <<job, api, log, queue, dlq, pc, msg, done, lost, crashes, faults>>

-----------------------------------------------------------------------------
(* The handlers, a step for each statement that writes.  What a handler      *)
(* reads or computes before a write belongs to the write's step.             *)

Write(w, step, row, next) ==
    /\ pc[w] = step
    /\ job' = [job EXCEPT ![JobOf(w)] = row]
    /\ Goto(w, next)
    /\ UNCHANGED <<api, log, queue, dlq, msg, done, loop, lost, crashes, faults>>

Emit(w, step, topic) ==
    /\ pc[w] = step
    /\ log' = Add(log, topic, JobOf(w))
    /\ Goto(w, "returned")
    /\ UNCHANGED <<job, api, queue, dlq, msg, done, loop, lost, crashes, faults>>

Failed(row) == [row EXCEPT !.status = "failed", !.error_code = "none"]

\* Mutant of StoreEmbedding: the composite store ignores the row.
StoreEmbeddingIgnored(w) ==
    Write(w, "store_embedding", job[JobOf(w)], "emit_embedded")

\* EmbedHandler.embed_query: encode, save_batch, search_query.embedded.
StoreEmbedding(w) ==
    Write(w, "store_embedding", [job[JobOf(w)] EXCEPT !.embedding = TRUE], "emit_embedded")

EmitEmbedded(w) == Emit(w, "emit_embedded", "embedded")

\* Mutant of MarkSearching: a job already past "embedding" is skipped.
MarkSearchingOnce(w) ==
    /\ pc[w] = "mark_searching"
    /\ LET row == job[JobOf(w)]
           skip == row.status # "embedding"
       IN  Write(w, "mark_searching",
                 IF skip THEN row ELSE [row EXCEPT !.status = "searching"],
                 IF skip THEN "returned" ELSE "emit_candidates")

\* SearchHandler.handle: without an embedding the job fails and the message is
\* acknowledged; otherwise mark_searching, search, search_candidates.retrieved.
MarkSearching(w) ==
    /\ pc[w] = "mark_searching"
    /\ LET row == job[JobOf(w)]
       IN  Write(w, "mark_searching",
                 IF row.embedding THEN [row EXCEPT !.status = "searching"] ELSE Failed(row),
                 IF row.embedding THEN "emit_candidates" ELSE "returned")

EmitCandidates(w) == Emit(w, "emit_candidates", "candidates")

\* SearchFinalizeHandler.handle: hydrate, complete_job, search_job.completed.
CompleteAnn(w) ==
    Write(w, "complete_ann",
          [job[JobOf(w)] EXCEPT !.status = "complete", !.results = "ann"], "emit_completed")

EmitCompleted(w) == Emit(w, "emit_completed", "completed")

\* RerankHandler.handle: mark_reranking, score, complete_job, search_job.completed.
MarkReranking(w) ==
    Write(w, "mark_reranking",
          [job[JobOf(w)] EXCEPT !.status = "reranking"], "complete_reranked")

CompleteReranked(w) ==
    Write(w, "complete_reranked",
          [job[JobOf(w)] EXCEPT !.status = "complete", !.results = "reranked"],
          "emit_completed")

\* The remote reranker went away after POST /search had probed it.
RerankerGone(w) ==
    /\ Faulting
    /\ pc[w] = "complete_reranked"
    /\ Goto(w, "fail_unavailable")
    /\ UNCHANGED <<job, api, log, queue, dlq, msg, done, loop, lost, crashes>>

\* The except clauses.  A RerankHandler whose fail_job raises stops its worker,
\* which is ProcessCrash; the other handlers' messages are rejected.
FailJob(w) == Write(w, "fail", Failed(job[JobOf(w)]), "raised")

FailUnavailable(w) ==
    Write(w, "fail_unavailable",
          [job[JobOf(w)] EXCEPT !.status = "failed", !.error_code = "rerank_unavailable"],
          "returned")

\* Where a raised exception leads: outside the handler's try block the message
\* is rejected and the job's row is left alone, inside it the job is failed
\* first.  For mark_reranking it is the model that cannot be loaded.
OnFault(w) ==
    CASE pc[w] \in {"store_embedding", "emit_embedded", "mark_searching", "mark_reranking"}
            -> {"raised"}
      [] pc[w] \in {"emit_candidates", "complete_reranked", "emit_completed"} -> {"fail"}
      [] pc[w] = "complete_ann" -> {"raised", "fail"}
      [] pc[w] = "fail" -> IF w = "gpu" THEN {} ELSE {"raised"}
      [] OTHER -> {}

Fault(w) ==
    /\ Faulting
    /\ \E step \in OnFault(w) : Goto(w, step)
    /\ UNCHANGED <<job, api, log, queue, dlq, msg, done, loop, lost, crashes>>

-----------------------------------------------------------------------------
Handler(w) ==
    \/ StoreEmbedding(w) \/ EmitEmbedded(w)
    \/ MarkSearching(w) \/ EmitCandidates(w)
    \/ CompleteAnn(w) \/ EmitCompleted(w)
    \/ MarkReranking(w) \/ CompleteReranked(w)
    \/ FailJob(w) \/ FailUnavailable(w)

Work(w) ==
    \/ \E q \in QueuesOf(w), j \in Jobs : Deliver(w, q, j)
    \/ Handler(w)
    \/ Return(w)
    \/ Settle(w)

Next ==
    \/ \E j \in Jobs, rerank \in BOOLEAN : CreateJob(j, rerank)
    \/ \E j \in Jobs : PublishCreated(j) \/ ApiCrash(j)
    \/ \E t \in Topics, j \in Jobs : Dispatch(t, j) \/ DispatcherCrash(t, j)
    \/ \E w \in Workers : Work(w) \/ RerankerGone(w) \/ Fault(w) \/ ConnectionLost(w)
    \/ ProcessCrash(CpuWorkers) \/ ProcessCrash({"gpu"})
    \/ ChunkTakesLoop \/ ChunkReturnsLoop

Spec == Init /\ [][Next]_vars

\* The services restart when they exit and no loop of theirs waits for another:
\* requests, dispatchers and workers keep taking steps; no client need ask.
FairSpec ==
    /\ Spec
    /\ \A j \in Jobs : WF_vars(PublishCreated(j))
    /\ \A t \in Topics, j \in Jobs : WF_vars(Dispatch(t, j))
    /\ \A w \in Workers : WF_vars(Work(w))
    /\ WF_vars(ChunkReturnsLoop)

-----------------------------------------------------------------------------
Terminal == {"complete", "failed"}

Steps == {"idle", "settling", "returned", "raised", "store_embedding", "emit_embedded",
          "mark_searching", "emit_candidates", "complete_ann", "mark_reranking",
          "complete_reranked", "emit_completed", "fail", "fail_unavailable"}

TypeOK ==
    /\ job \in [Jobs -> Row]
    /\ api \in [Jobs -> {"idle", "inserted", "answered", "crashed"}]
    /\ log \in [Topics -> [Jobs -> Nat]]
    /\ queue \in [Queues -> [Jobs -> Nat]]
    /\ dlq \in [Queues -> [Jobs -> Nat]]
    /\ pc \in [Workers -> Steps]
    /\ msg \in [Workers -> Message \cup {NoMsg}]
    /\ done \in [Workers -> Seq(Settlement)]
    /\ loop \in {"free", "chunk"} \cup CpuWorkers
    /\ lost \in [Jobs -> Nat]
    /\ crashes \in 0..MaxCrashes
    /\ faults \in 0..MaxFaults

\* A worker has a handler running for a message of queue q and job j.
Running(w, q, j) == msg[w] = [q |-> q, j |-> j]

\* Whoever reads search_job.completed finds the results in the row, of the kind
\* the request asked for: a job is published as completed, or shown as complete,
\* only once complete_job stored results, and reranked results are never replaced
\* by nearest-neighbour ones or the reverse, whatever is delivered twice.
CompletedHasResults ==
    \A j \in Jobs :
        log["completed"][j] > 0 \/ job[j].status = "complete"
            => job[j].results = IF job[j].rerank THEN "reranked" ELSE "ann"

\* SearchHandler's "no embedding stored" branch is never taken: a job's vector is
\* in its row before any search_query.embedded event, any run message and any
\* run handler for it exists, through every crash and redelivery.
EmbeddedBeforeRun ==
    \A j \in Jobs :
        \/ log["embedded"][j] > 0
        \/ queue["run"][j] > 0
        \/ \E w \in Workers : Running(w, "run", j)
        => job[j].embedding

\* Something still carries job j on: its request, an event, a ready message, one
\* being handled, or one rejected or waiting to be requeued.
InFlight(j) ==
    \/ api[j] = "inserted"
    \/ \E t \in Topics \ {"completed"} : log[t][j] > 0
    \/ \E q \in Queues : queue[q][j] > 0
    \/ \E w \in Workers : msg[w] # NoMsg /\ msg[w].j = j
    \/ \E w \in Workers : \E i \in DOMAIN done[w] :
           done[w][i].j = j /\ done[w][i].outcome = "nack"

\* What left a trace of j being given up: a dead-lettered message, an event lost
\* by a dispatcher, a request that died before publishing.
GivenUp(j) ==
    \/ \E q \in Queues : dlq[q][j] > 0
    \/ lost[j] > 0
    \/ api[j] = "crashed"

\* No job is forgotten: while its status is not final, either something still
\* carries it on or it was given up where an operator can see it.  In particular
\* a crash at any statement of a handler, followed by redelivery, does not leave
\* a job with a status nobody will ever change.
NeverForgotten ==
    \A j \in Jobs :
        job[j].status \in Terminal \cup {"absent"} \/ InFlight(j) \/ GivenUp(j)

\* Every job that was created comes to rest: complete, failed or given up, and
\* stays so.
EventuallySettled ==
    \A j \in Jobs :
        job[j].status # "absent" ~> [](job[j].status \in Terminal \/ GivenUp(j))

-----------------------------------------------------------------------------
(* What the repository says of search jobs; the code behaves otherwise. *)

\* api/search.py: "Clients poll GET /search/{job_id} until status is 'complete'
\* or 'failed'."  So every job whose request was answered reaches one of them.
EveryJobTerminates ==
    \A j \in Jobs : api[j] = "answered" ~> job[j].status \in Terminal
=============================================================================
