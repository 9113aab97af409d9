------------------------------ MODULE Recovery ------------------------------
(***************************************************************************)
(* How a chunk without a vector is found again.  Between the post and the  *)
(* vector a task can be lost at every hop: the chunk task is rejected, the *)
(* worker dies between its INSERT and the event, the dispatcher fails with *)
(* an event it has already consumed, the broker restarts or a stale queue  *)
(* is deleted, the GPU worker skips or rejects the batch.  The maintenance *)
(* endpoints scan for rows whose embedding IS NULL and publish tasks for   *)
(* them, while everything else goes on.  BackfillTrigger calls the scan    *)
(* again and again, as long as the remote embedder runs, and only where it *)
(* is given the URL of the pipeline.                                       *)
(*                                                                         *)
(* A group is the chunks of one post in one chunk table; a message carries *)
(* chunks of one group.                                                    *)
(***************************************************************************)
EXTENDS Integers, Sequences

CONSTANTS
    Chunks,
    Groups,
    GroupOf,        \* the group of a chunk
    Tables,         \* chunk tables
    TableOf,        \* the table of a group
    Recognised,     \* tables whose name parses to an entry of EMBED_CONFIGS
    Summaries,      \* summary_title groups of posts with a summary
    Scans,          \* requests to the maintenance endpoints
    NoScan,
    PipelineUrlSet, \* PIPELINE_URL of the remote embedder is not empty
    MaxQueue,       \* bound: messages in the queue
    MaxTroubles     \* bound: losses, failures, crashes and calls by hand

ASSUME RecoveryAssumption ==
    /\ GroupOf \in [Chunks -> Groups]
    /\ TableOf \in [Groups -> Tables]
    /\ Recognised \subseteq Tables
    /\ Summaries \subseteq Groups
    /\ \A g \in Summaries : TableOf[g] \in Recognised
    /\ NoScan \notin Scans
    /\ PipelineUrlSet \in BOOLEAN
    /\ MaxQueue \in Nat \ {0}
    /\ MaxTroubles \in Nat

VARIABLES
    row,            \* per chunk: no row yet, embedding NULL, or a vector
    tasks,          \* groups with a ChunkTask in the chunk queue
    events,         \* groups with a chunks.created event to be dispatched
    queue,          \* EmbedTask messages, each the chunks it names
    held,           \* the message the GPU worker works on
    spc,            \* per scan: its step
    left,           \* per scan: tables of the listing not yet read
    found,          \* per scan: tasks still to be published for the table read
    owed,           \* history: chunks without a vector since the scan started, and no task yet
    tpc,            \* BackfillTrigger.run; "off" while there is no trigger
    tcall,          \* the scan whose answer the trigger waits for
    troubles

pipeline == <<row, tasks, events, queue, held>>
scan == <<spc, left, found, owed>>
trigger == <<tpc, tcall>>
vars == <<pipeline, scan, trigger, troubles>>

Rows(g) == {c \in Chunks : GroupOf[c] = g}
TableOfChunk(c) == TableOf[GroupOf[c]]
Null == {c \in Chunks : row[c] = "null"}
NullIn(T) == {c \in Null : TableOfChunk(c) \in T}

\* Tables are created with their first row; one of a model that is no longer
\* configured keeps its unembedded rows.
Init ==
    /\ row = [c \in Chunks |-> IF TableOfChunk(c) \in Recognised THEN "absent" ELSE "null"]
    /\ tasks = {g \in Groups : TableOf[g] \in Recognised}
    /\ events = {}
    /\ queue = <<>>
    /\ held = {}
    /\ spc = [s \in Scans |-> "idle"]
    /\ left = [s \in Scans |-> {}]
    /\ found = [s \in Scans |-> {}]
    /\ owed = [s \in Scans |-> {}]
    /\ tpc = "off"
    /\ tcall = NoScan
    /\ troubles = 0

Trouble == troubles < MaxTroubles /\ troubles' = troubles + 1

Becomes(C, state) == row' = [c \in Chunks |-> IF c \in C THEN state ELSE row[c]]

-----------------------------------------------------------------------------
(* From the post to the embed queue. *)

\* The chunk worker stores the rows and announces them; what is stored already is
\* neither stored nor announced again.
ChunkPost(g) ==
    /\ g \in tasks
    /\ tasks' = tasks \ {g}
    /\ IF \E c \in Rows(g) : row[c] # "absent" THEN UNCHANGED <<row, events>>
       ELSE Becomes(Rows(g), "null") /\ events' = events \cup {g}
    /\ UNCHANGED <<queue, held, scan, trigger, troubles>>

\* It dies between the INSERT and the event; the task is delivered again.
ChunkPostDies(g) ==
    /\ g \in tasks
    /\ \A c \in Rows(g) : row[c] = "absent"
    /\ Trouble
    /\ Becomes(Rows(g), "null")
    /\ UNCHANGED <<tasks, events, queue, held, scan, trigger>>

\* The handler raises: the task goes to the dead-letter queue.
ChunkPostFails(g) ==
    /\ g \in tasks
    /\ Trouble
    /\ tasks' = tasks \ {g}
    /\ UNCHANGED <<row, events, queue, held, scan, trigger>>

Publish(message) == Len(queue) < MaxQueue /\ queue' = Append(queue, message)

\* ChunkDispatcher; the event was consumed when it was read.
Dispatch(g) ==
    /\ g \in events
    /\ events' = events \ {g}
    /\ Publish(Rows(g))
    /\ UNCHANGED <<row, tasks, held, scan, trigger, troubles>>

DispatchFails(g) ==
    /\ g \in events
    /\ Trouble
    /\ events' = events \ {g}
    /\ UNCHANGED <<row, tasks, queue, held, scan, trigger>>

-----------------------------------------------------------------------------
(* The embed queue and the GPU worker. *)

\* Messages are not persistent: a broker that restarts has none.
BrokerRestarts ==
    /\ Trouble
    /\ queue' = <<>>
    /\ UNCHANGED <<row, tasks, events, held, scan, trigger>>

\* _ensure_work_queue deletes a queue with a stale definition, messages included.
RecreateQueue ==
    /\ queue # <<>>
    /\ Trouble
    /\ queue' = <<>>
    /\ UNCHANGED <<row, tasks, events, held, scan, trigger>>

Take ==
    /\ held = {}
    /\ queue # <<>>
    /\ held' = Head(queue)
    /\ queue' = Tail(queue)
    /\ UNCHANGED <<row, tasks, events, scan, trigger, troubles>>

\* Mutant of Embed: the UPDATE only matches rows that have a vector.
EmbedAgainOnly ==
    /\ held # {}
    /\ held' = {}
    /\ UNCHANGED <<row, tasks, events, queue, scan, trigger, troubles>>

\* The chunks named are embedded, also those that have a vector by now.
Embed ==
    /\ held # {}
    /\ Becomes(held, "vector")
    /\ held' = {}
    /\ owed' = [s \in Scans |-> owed[s] \ held]
    /\ UNCHANGED <<tasks, events, queue, spc, left, found, trigger, troubles>>

\* No backend: acknowledged and skipped; an error: rejected.
EmbedFails ==
    /\ held # {}
    /\ Trouble
    /\ held' = {}
    /\ UNCHANGED <<row, tasks, events, queue, scan, trigger>>

\* The worker dies: the message is delivered again.
WorkerDies ==
    /\ held # {}
    /\ Trouble
    /\ queue' = <<held>> \o queue
    /\ held' = {}
    /\ UNCHANGED <<row, tasks, events, scan, trigger>>

-----------------------------------------------------------------------------
(* RequeueService.requeue_missing_embeddings. *)

\* list_chunk_tables: the tables that exist when the scan starts.
ListChunkTables == {t \in Tables : \E c \in Chunks : TableOfChunk(c) = t /\ row[c] # "absent"}

Starts(s) ==
    /\ spc[s] = "idle"
    /\ spc' = [spc EXCEPT ![s] = "scan"]
    /\ left' = [left EXCEPT ![s] = ListChunkTables]
    /\ found' = [found EXCEPT ![s] = {}]
    /\ owed' = [owed EXCEPT ![s] = NullIn(Recognised)]

\* Mutant of Missing: the first post of the table only.
MissingFirst(t) ==
    LET all == {NullIn({t}) \cap Rows(g) : g \in Groups} \ {{}} IN
    IF all = {} THEN {} ELSE {CHOOSE m \in all : TRUE}

\* fetch_unembedded_chunks, grouped by post: one task per group.
Missing(t) == {NullIn({t}) \cap Rows(g) : g \in Groups} \ {{}}

\* parse_chunk_table_name against the configured models.
Parses(t) == t \in Recognised

\* An unrecognised table is skipped.
ReadTable(s, t) ==
    /\ spc[s] = "scan"
    /\ found[s] = {}
    /\ t \in left[s]
    /\ left' = [left EXCEPT ![s] = @ \ {t}]
    /\ found' = [found EXCEPT ![s] = IF Parses(t) THEN Missing(t) ELSE {}]
    /\ UNCHANGED <<pipeline, spc, owed, trigger, troubles>>

PublishTask(s, m) ==
    /\ spc[s] = "scan"
    /\ m \in found[s]
    /\ Publish(m)
    /\ found' = [found EXCEPT ![s] = @ \ {m}]
    /\ owed' = [owed EXCEPT ![s] = @ \ m]
    /\ UNCHANGED <<row, tasks, events, held, spc, left, trigger, troubles>>

ScanDone(s) ==
    /\ spc[s] = "scan"
    /\ left[s] = {} /\ found[s] = {}
    /\ spc' = [spc EXCEPT ![s] = "done"]
    /\ UNCHANGED <<pipeline, left, found, owed, trigger, troubles>>

Cleared(s) ==
    /\ spc' = [spc EXCEPT ![s] = "idle"]
    /\ left' = [left EXCEPT ![s] = {}]
    /\ found' = [found EXCEPT ![s] = {}]
    /\ owed' = [owed EXCEPT ![s] = {}]

\* The trigger hears of its call: it waits interval_s, or retry_s after an error.
Heard(s, how) ==
    IF tcall = s THEN tpc' = how /\ tcall' = NoScan ELSE UNCHANGED trigger

\* The answer of the endpoint; whoever called may be gone.
Reply(s) ==
    /\ spc[s] = "done"
    /\ Cleared(s)
    /\ Heard(s, "interval")
    /\ UNCHANGED <<pipeline, troubles>>

\* A read or a publish raises: what is published is published, the rest is not.
ScanFails(s) ==
    /\ spc[s] = "scan"
    /\ Trouble
    /\ Cleared(s)
    /\ Heard(s, "retry")
    /\ UNCHANGED <<pipeline>>

-----------------------------------------------------------------------------
(* Callers. *)

\* Somebody switches the remote embedder on: it has a trigger if it knows the URL.
EmbedderStarts ==
    /\ tpc = "off"
    /\ PipelineUrlSet
    /\ tpc' = "due"
    /\ UNCHANGED <<pipeline, scan, tcall, troubles>>

\* It is switched off, or dies: a scan it called goes on in the pipeline.
EmbedderStops ==
    /\ tpc # "off"
    /\ Trouble
    /\ tpc' = "off"
    /\ tcall' = NoScan
    /\ UNCHANGED <<pipeline, scan>>

\* trigger_once.
TriggerOnce(s) ==
    /\ tpc = "due"
    /\ tpc' = "posted"
    /\ tcall' = s
    /\ Starts(s)
    /\ UNCHANGED <<pipeline, troubles>>

\* Mutant of TriggerFails: the call that was given up is still waited for.
TriggerFailsWaiting ==
    /\ tpc \in {"due", "posted"}
    /\ Trouble
    /\ tpc' = "retry"
    /\ UNCHANGED <<pipeline, scan, tcall>>

\* The pipeline cannot be reached, or does not answer in time and scans on.
TriggerFails ==
    /\ tpc \in {"due", "posted"}
    /\ Trouble
    /\ tpc' = "retry"
    /\ tcall' = NoScan
    /\ UNCHANGED <<pipeline, scan>>

\* run(): the delay is over.
TriggerWakes ==
    /\ tpc \in {"interval", "retry"}
    /\ tpc' = "due"
    /\ UNCHANGED <<pipeline, scan, tcall, troubles>>

\* POST /maintenance/requeue-missing-embeddings by hand.
CallRequeueEmbeddings(s) ==
    /\ Trouble
    /\ Starts(s)
    /\ UNCHANGED <<pipeline, trigger>>

\* fetch_posts_with_summary, over the post tables.
PostsWithSummary == Summaries

\* POST /maintenance/requeue-missing-chunks: a summary_title ChunkTask for every
\* post with a summary, before the scan.
CallRequeueChunks(s) ==
    /\ Trouble
    /\ tasks' = tasks \cup PostsWithSummary
    /\ Starts(s)
    /\ UNCHANGED <<row, events, queue, held, trigger>>

\* The endpoint raises while it publishes the chunk tasks: no scan follows.
CallRequeueChunksFails ==
    /\ Trouble
    /\ \E G \in SUBSET PostsWithSummary : tasks' = tasks \cup G
    /\ UNCHANGED <<row, events, queue, held, scan, trigger>>

-----------------------------------------------------------------------------
Ingest == \E g \in Groups : ChunkPost(g) \/ Dispatch(g)
Worker == Take \/ Embed
ScanStep(s) ==
    \/ \E t \in left[s] : ReadTable(s, t)
    \/ \E m \in found[s] : PublishTask(s, m)
    \/ ScanDone(s) \/ Reply(s)
Trigger == TriggerWakes \/ \E s \in Scans : TriggerOnce(s)

Next ==
    \/ Ingest
    \/ \E g \in Groups : ChunkPostDies(g) \/ ChunkPostFails(g) \/ DispatchFails(g)
    \/ Worker \/ EmbedFails \/ WorkerDies \/ BrokerRestarts \/ RecreateQueue
    \/ \E s \in Scans : ScanStep(s) \/ ScanFails(s)
                        \/ CallRequeueEmbeddings(s) \/ CallRequeueChunks(s)
    \/ Trigger \/ TriggerFails \/ EmbedderStarts \/ EmbedderStops
    \/ CallRequeueChunksFails

Spec == Init /\ [][Next]_vars

\* The GPU worker goes on while it has a message; of the others it is enough that
\* they do not all stop: the trigger's thread does not end while the remote embedder
\* runs.  Nothing is assumed of when that runs: it is on a PC of its own.
FairSpec ==
    /\ Spec
    /\ WF_vars(Worker)
    /\ WF_vars(Ingest \/ Trigger \/ \E s \in Scans : ScanStep(s))

-----------------------------------------------------------------------------
TypeOK ==
    /\ row \in [Chunks -> {"absent", "null", "vector"}]
    /\ tasks \subseteq Groups
    /\ events \subseteq Groups
    /\ queue \in Seq(SUBSET Chunks) /\ Len(queue) <= MaxQueue + 1
    /\ held \subseteq Chunks
    /\ spc \in [Scans -> {"idle", "scan", "done"}]
    /\ left \in [Scans -> SUBSET Tables]
    /\ found \in [Scans -> SUBSET (SUBSET Chunks)]
    /\ owed \in [Scans -> SUBSET Chunks]
    /\ tpc \in {"off", "due", "posted", "interval", "retry"}
    /\ tcall \in Scans \cup {NoScan}
    /\ tpc = "posted" <=> tcall # NoScan
    /\ troubles \in 0..MaxTroubles

\* A scan that ends without an error has published a task for every chunk that
\* had no vector when it started and has none yet, although rows were added and
\* embedded, tables created and tasks taken from the queue while it read.
ScanFindsAll == \A s \in Scans : spc[s] = "done" => owed[s] = {}

\* Where the remote embedder has the URL of the pipeline and stays on from some time
\* on, a chunk of a configured model that was stored is embedded in the end,
\* whichever hop lost its task.
EveryChunkEmbedded == <>[](tpc # "off") => []<>(NullIn(Recognised) = {})
=============================================================================
