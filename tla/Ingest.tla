------------------------------- MODULE Ingest -------------------------------
(***************************************************************************)
(* The ingestion of one post: POST /sync requests upsert it and publish    *)
(* post.synced; PostDispatcher fans the event out into chunk tasks;        *)
(* CpuChunkWorker splits the post's text, stores the chunks that are new   *)
(* and publishes chunks.created.  Embedding them is EmbedWorker.           *)
(*                                                                         *)
(* Every awaited statement is a step.  Requests run concurrently, and a    *)
(* task names the post, not a revision: the worker reads whatever the row  *)
(* holds when it gets there.                                               *)
(*                                                                         *)
(* A text is the list of windows it is split into, <<>> when it is empty   *)
(* or NULL; a window may come twice in it.  Title and summary together     *)
(* make one window.                                                        *)
(***************************************************************************)
EXTENDS Integers, Sequences

CONSTANTS
    Windows,        \* pieces of text
    Requests,       \* POST /sync requests; a client's retry is one of its own
    Revision,       \* the post each request carries
    NoPost,         \* the row does not exist
    Workers,        \* chunk workers
    Loads,          \* which requests are sent, to how many workers that run
    MaxFailures     \* bound: crashes, lost connections and raised exceptions

Fields == {"body_text", "custom_body", "summary", "title", "custom_title"}
Post == [updated_at : Nat, text : [Fields -> Seq(Windows)]]

ASSUME IngestAssumption ==
    /\ Revision \in [Requests -> Post]
    /\ NoPost \notin Post
    /\ Loads \in SUBSET [requests : SUBSET Requests, workers : SUBSET Workers]
    /\ MaxFailures \in Nat

VARIABLES
    row,            \* the post's row
    pc,             \* the step of each request
    existing,       \* the row each request fetched
    log,            \* post.synced events not yet consumed
    dispatching,    \* kinds of chunk task PostDispatcher has still to publish
    tasks,          \* ready chunk tasks, per kind
    dead,           \* kinds of which a task was dead-lettered
    wpc,            \* the step of each worker
    task,           \* the kind of its task
    text,           \* the windows of the text it fetched
    new,            \* the chunks it has to insert and announce
    chunks,         \* the inserts of each chunk table, one per kind, in their order
    announced,      \* the chunks of each chunks.created event, per kind
    \* History, for the properties only:
    lost,           \* kinds whose task a failed request or dispatch left out
    raced,          \* kinds whose text changed unnoticed in a race of requests
    failures        \* number of failures so far

sync == <<row, pc, existing, raced>>
workers == <<wpc, task, text, new>>
tables == <<chunks, announced>>
vars == <<row, pc, existing, log, dispatching, tasks, dead, wpc, task, text, new,
          chunks, announced, lost, raced, failures>>

\* The kinds of chunk task, in the order PostDispatcher publishes them.
Rank == [body |-> 1, title |-> 2, summary_title |-> 3]
Kinds == DOMAIN Rank
Window == Windows \cup (Seq(Windows) \X Seq(Windows))

\* A row of a chunk table, chunk_index counted from 1; its id is a fresh uuid, so
\* equal ones of two inserts are two rows.
Chunk == [chunk_index : Nat, text : Window]
Insert == [worker : Workers, rows : SUBSET Chunk]

WindowsOf(t) == {t[i] : i \in DOMAIN t}
TextsOf(rows) == {c.text : c \in rows}

\* The windows in the table of kind k.
Stored(k) == UNION {TextsOf(chunks[k][i].rows) : i \in DOMAIN chunks[k]}

Init ==
    /\ \E load \in Loads :
           /\ pc = [r \in Requests |-> IF r \in load.requests THEN "idle" ELSE "never"]
           /\ wpc = [w \in Workers |-> IF w \in load.workers THEN "idle" ELSE "off"]
    /\ row = NoPost
    /\ existing = [r \in Requests |-> NoPost]
    /\ log = <<>>
    /\ dispatching = {}
    /\ tasks = [k \in Kinds |-> 0]
    /\ dead = {}
    /\ task = [w \in Workers |-> "body"]
    /\ text = [w \in Workers |-> <<>>]
    /\ new = [w \in Workers |-> {}]
    /\ chunks = [k \in Kinds |-> <<>>]
    /\ announced = [k \in Kinds |-> <<>>]
    /\ lost = {}
    /\ raced = {}
    /\ failures = 0

\* The handler is left and its locals go out of scope.
Leave(w) ==
    /\ wpc' = [wpc EXCEPT ![w] = "idle"]
    /\ task' = [task EXCEPT ![w] = "body"]
    /\ text' = [text EXCEPT ![w] = <<>>]
    /\ new' = [new EXCEPT ![w] = {}]

Failing == failures < MaxFailures /\ failures' = failures + 1

-----------------------------------------------------------------------------
(* sync_posts, for one post of the batch. *)

\* Unchanged text and a first sync look alike: both give no field.
ChangedFields(post, old) ==
    IF old = NoPost THEN {} ELSE {f \in Fields : post.text[f] # old.text[f]}

SyncedEvent(r) == [fields_changed |-> ChangedFields(Revision[r], existing[r]),
                   has_summary |-> Revision[r].text["summary"] # <<>>]

\* Mutant of Triggers: custom_body is forgotten.
TriggersBodyOnly(k) ==
    CASE k = "body" -> {"body_text"}
      [] k = "title" -> {"title", "custom_title"}
      [] k = "summary_title" -> {"summary", "title", "custom_title"}

Triggers(k) ==
    CASE k = "body" -> {"body_text", "custom_body"}
      [] k = "title" -> {"title", "custom_title"}
      [] k = "summary_title" -> {"summary", "title", "custom_title"}

\* The kinds of task an event calls for; no changed field stands for all of them.
KindsOf(e) ==
    {k \in Kinds :
        /\ e.fields_changed = {} \/ e.fields_changed \cap Triggers(k) # {}
        /\ k = "summary_title" => e.has_summary}

FetchExisting(r) ==
    /\ pc[r] = "idle"
    /\ existing' = [existing EXCEPT ![r] = row]
    /\ pc' = [pc EXCEPT ![r] = "select"]
    /\ UNCHANGED <<row, raced, log, dispatching, tasks, dead, workers, tables, lost, failures>>

Newer(r) == row = NoPost \/ row.updated_at < Revision[r].updated_at

\* upsert's first statement: a row that is as new is left alone.
SelectUpdatedAt(r) ==
    /\ pc[r] = "select"
    /\ pc' = [pc EXCEPT ![r] = IF Newer(r) THEN "upsert" ELSE "skipped"]
    /\ existing' = [existing EXCEPT ![r] = IF Newer(r) THEN @ ELSE NoPost]
    /\ UNCHANGED <<row, raced, log, dispatching, tasks, dead, workers, tables,
                   lost, failures>>

Or(a, b) == IF a # <<>> THEN a ELSE b

\* The windows of the text a kind of task is about.
ResolveText(k, t) ==
    CASE k = "body" -> Or(t["custom_body"], t["body_text"])
      [] k = "title" -> Or(t["custom_title"], t["title"])
      [] k = "summary_title" ->
            IF t["title"] = <<>> /\ t["summary"] = <<>> THEN <<>>
            ELSE << <<t["title"], t["summary"]>> >>

\* The windows of kind k a search should find when the row is post.
Expected(k, post) ==
    IF post = NoPost \/ (k = "summary_title" /\ post.text["summary"] = <<>>)
    THEN {} ELSE WindowsOf(ResolveText(k, post.text))

\* Mutant of Written: ON CONFLICT DO UPDATE without its WHERE clause.
WrittenAlways(r) == Revision[r]

\* The row after ON CONFLICT DO UPDATE ... WHERE updated_at < EXCLUDED.updated_at.
Written(r) == IF Newer(r) THEN Revision[r] ELSE row

\* The kinds whose text the upsert changes but the event will not name, because
\* the row is not the one its request compared with.
Unnoticed(r) ==
    {k \in Kinds \ KindsOf(SyncedEvent(r)) :
        row # existing[r] /\ ~ Expected(k, Written(r)) \subseteq Expected(k, row)}

Upsert(r) ==
    /\ pc[r] = "upsert"
    /\ row' = Written(r)
    /\ raced' = raced \cup Unnoticed(r)
    /\ pc' = [pc EXCEPT ![r] = "publish"]
    /\ UNCHANGED <<existing, log, dispatching, tasks, dead, workers, tables, lost, failures>>

PublishSynced(r) ==
    /\ pc[r] = "publish"
    /\ log' = Append(log, SyncedEvent(r))
    /\ pc' = [pc EXCEPT ![r] = "answered"]
    /\ existing' = [existing EXCEPT ![r] = NoPost]
    /\ UNCHANGED <<row, raced, dispatching, tasks, dead, workers, tables, lost, failures>>

\* A statement raises, or the API process dies: nothing is undone.
RequestFails(r) ==
    /\ pc[r] \in {"select", "upsert", "publish"}
    /\ Failing
    /\ pc' = [pc EXCEPT ![r] = "error"]
    /\ existing' = [existing EXCEPT ![r] = NoPost]
    /\ lost' = IF pc[r] = "publish" THEN lost \cup KindsOf(SyncedEvent(r)) ELSE lost
    /\ UNCHANGED <<row, raced, log, dispatching, tasks, dead, workers, tables>>

-----------------------------------------------------------------------------
(* PostDispatcher. *)

Consume ==
    /\ dispatching = {}
    /\ log # <<>>
    /\ dispatching' = KindsOf(Head(log))
    /\ log' = Tail(log)
    /\ UNCHANGED <<sync, tasks, dead, workers, tables, lost, failures>>

PublishTask(k) ==
    /\ k \in dispatching
    /\ \A l \in dispatching : Rank[k] <= Rank[l]
    /\ tasks' = [tasks EXCEPT ![k] = @ + 1]
    /\ dispatching' = dispatching \ {k}
    /\ UNCHANGED <<sync, log, dead, workers, tables, lost, failures>>

\* A publish raises and the event is dropped, or the dispatcher dies.
DispatchFails ==
    /\ dispatching # {}
    /\ Failing
    /\ lost' = lost \cup dispatching
    /\ dispatching' = {}
    /\ UNCHANGED <<sync, log, tasks, dead, workers, tables>>

-----------------------------------------------------------------------------
(* CpuChunkWorker with ChunkPostHandler.handle. *)

\* What the worker finds of kind k; <<>> also when the post is not there.
Found(k) == IF row = NoPost THEN <<>> ELSE ResolveText(k, row.text)

\* Mutant of FetchPost: a message is counted as taken though none is ready.
FetchPostUnasked(w, k) ==
    /\ wpc[w] = "idle"
    /\ tasks' = [tasks EXCEPT ![k] = @ - 1]
    /\ task' = [task EXCEPT ![w] = k]
    /\ text' = [text EXCEPT ![w] = Found(k)]
    /\ wpc' = [wpc EXCEPT ![w] = IF Found(k) = <<>> THEN "ack" ELSE "hashes"]
    /\ UNCHANGED <<sync, log, dispatching, dead, new, tables, lost, failures>>

\* A message arrives and the post is fetched; without text there is nothing to do.
FetchPost(w, k) ==
    /\ wpc[w] = "idle"
    /\ tasks[k] > 0
    /\ tasks' = [tasks EXCEPT ![k] = @ - 1]
    /\ task' = [task EXCEPT ![w] = k]
    /\ text' = [text EXCEPT ![w] = Found(k)]
    /\ wpc' = [wpc EXCEPT ![w] = IF Found(k) = <<>> THEN "ack" ELSE "hashes"]
    /\ UNCHANGED <<sync, log, dispatching, dead, new, tables, lost, failures>>

\* Another thread runs the event loop, or the fetch raises: the task is rejected.
RejectTask(w, k) ==
    /\ wpc[w] = "idle"
    /\ tasks[k] > 0
    /\ Failing
    /\ tasks' = [tasks EXCEPT ![k] = @ - 1]
    /\ dead' = dead \cup {k}
    /\ UNCHANGED <<sync, log, dispatching, workers, tables, lost>>

\* Mutant of Unknown: every chunk is taken for new.
UnknownAll(w) == {[chunk_index |-> i, text |-> text[w][i]] : i \in DOMAIN text[w]}

\* The chunks of the text whose hash get_text_hashes did not return.  Nothing
\* compares them with each other: a window that the text has twice is twice here.
Unknown(w) ==
    {[chunk_index |-> i, text |-> text[w][i]] :
        i \in {j \in DOMAIN text[w] : text[w][j] \notin Stored(task[w])}}

GetTextHashes(w) ==
    /\ wpc[w] = "hashes"
    /\ new' = [new EXCEPT ![w] = Unknown(w)]
    /\ wpc' = [wpc EXCEPT ![w] = IF Unknown(w) = {} THEN "ack" ELSE "insert"]
    /\ UNCHANGED <<sync, log, dispatching, tasks, dead, task, text, tables, lost, failures>>

\* Every chunk has a fresh uuid, so ON CONFLICT (id) never applies.
BulkInsert(w) ==
    /\ wpc[w] = "insert"
    /\ chunks' = [chunks EXCEPT ![task[w]] = Append(@, [worker |-> w, rows |-> new[w]])]
    /\ wpc' = [wpc EXCEPT ![w] = "announce"]
    /\ UNCHANGED <<sync, log, dispatching, tasks, dead, task, text, new, announced, lost, failures>>

PublishCreated(w) ==
    /\ wpc[w] = "announce"
    /\ announced' = [announced EXCEPT ![task[w]] = Append(@, new[w])]
    /\ wpc' = [wpc EXCEPT ![w] = "ack"]
    /\ UNCHANGED <<sync, log, dispatching, tasks, dead, task, text, new, chunks,
                   lost, failures>>

Ack(w) ==
    /\ wpc[w] = "ack"
    /\ Leave(w)
    /\ UNCHANGED <<sync, log, dispatching, tasks, dead, tables, lost, failures>>

\* A statement raises: nack with requeue=False.
HandlerRaises(w) ==
    /\ wpc[w] \in {"hashes", "insert", "announce"}
    /\ Failing
    /\ dead' = dead \cup {task[w]}
    /\ Leave(w)
    /\ UNCHANGED <<sync, log, dispatching, tasks, tables, lost>>

\* Mutant of WorkerCrash: the message had been acknowledged on receipt.
WorkerCrashAutoAck(w) ==
    /\ wpc[w] \notin {"idle", "off"}
    /\ Failing
    /\ Leave(w)
    /\ UNCHANGED <<sync, log, dispatching, tasks, dead, tables, lost>>

\* The process dies or its connection is gone at the ack: the task is requeued.
WorkerCrash(w) ==
    /\ wpc[w] \notin {"idle", "off"}
    /\ Failing
    /\ tasks' = [tasks EXCEPT ![task[w]] = @ + 1]
    /\ Leave(w)
    /\ UNCHANGED <<sync, log, dispatching, dead, tables, lost>>

-----------------------------------------------------------------------------
Request(r) ==
    \/ FetchExisting(r) \/ SelectUpdatedAt(r) \/ Upsert(r) \/ PublishSynced(r)

Dispatcher == Consume \/ \E k \in Kinds : PublishTask(k)

Worker(w) ==
    \/ \E k \in Kinds : FetchPost(w, k)
    \/ GetTextHashes(w) \/ BulkInsert(w) \/ PublishCreated(w) \/ Ack(w)

Next ==
    \/ \E r \in Requests : Request(r) \/ RequestFails(r)
    \/ Dispatcher \/ DispatchFails
    \/ \E w \in Workers : Worker(w) \/ HandlerRaises(w) \/ WorkerCrash(w)
    \/ \E w \in Workers, k \in Kinds : RejectTask(w, k)

Spec == Init /\ [][Next]_vars

\* A request that was accepted runs to its end, the dispatcher's and the workers'
\* loops run on and are restarted when they exit; clients need not send anything.
FairSpec ==
    /\ Spec
    /\ \A r \in Requests : WF_vars(SelectUpdatedAt(r) \/ Upsert(r) \/ PublishSynced(r))
    /\ WF_vars(Dispatcher)
    /\ \A w \in Workers : WF_vars(Worker(w))

-----------------------------------------------------------------------------
Event == [fields_changed : SUBSET Fields, has_summary : BOOLEAN]

TypeOK ==
    /\ row \in Post \cup {NoPost}
    /\ pc \in [Requests -> {"never", "idle", "select", "upsert", "publish", "answered",
                            "skipped", "error"}]
    /\ existing \in [Requests -> Post \cup {NoPost}]
    /\ log \in Seq(Event)
    /\ dispatching \in SUBSET Kinds
    /\ tasks \in [Kinds -> Nat]
    /\ dead \in SUBSET Kinds
    /\ wpc \in [Workers -> {"off", "idle", "hashes", "insert", "announce", "ack"}]
    /\ task \in [Workers -> Kinds]
    /\ text \in [Workers -> Seq(Window)]
    /\ new \in [Workers -> SUBSET Chunk]
    /\ chunks \in [Kinds -> Seq(Insert)]
    /\ announced \in [Kinds -> Seq(SUBSET Chunk)]
    /\ lost \in SUBSET Kinds
    /\ raced \in SUBSET Kinds
    /\ failures \in 0..MaxFailures

\* No accepted revision is lost to an older one: once a request wrote its post or
\* was told that it is not newer, the row is at least as new as that request's,
\* however the fetch, select and upsert of concurrent requests interleave.
NewestWins ==
    \A r \in Requests :
        pc[r] \in {"publish", "answered", "skipped"} =>
            row # NoPost /\ row.updated_at >= Revision[r].updated_at

\* Something under way will store them: an event still to be published or
\* dispatched, a task, or a worker that read the very text.
Pending(k) ==
    \/ \E r \in Requests : pc[r] = "publish" /\ k \in KindsOf(SyncedEvent(r))
    \/ \E i \in DOMAIN log : k \in KindsOf(log[i])
    \/ k \in dispatching
    \/ tasks[k] > 0
    \/ \E w \in Workers :
           /\ task[w] = k
           /\ \/ wpc[w] = "hashes" /\ Expected(k, row) \subseteq WindowsOf(text[w])
              \/ wpc[w] = "insert" /\ Expected(k, row) \subseteq Stored(k) \cup TextsOf(new[w])

\* Kind k was given up by something that failed, or a race of requests hid it.
Excused(k) == k \in raced \/ k \in lost \/ k \in dead

\* The index follows the row: at every moment the chunks of the row's text are
\* stored or something under way will store them, unless a failure dropped the
\* event or the task or a race hid a change.  A
\* task that was published for an older revision, a redelivered task and a
\* revision that only changes some fields never leave the current text out.
CurrentTextIsChunked ==
    \A k \in Kinds : Expected(k, row) \subseteq Stored(k) \/ Pending(k) \/ Excused(k)

\* No worker stores a window in two inserts, whatever is delivered again and
\* however often the post is synced: a later insert repeats a window only where two
\* workers read the hashes before either inserted, so there is at most one
\* insert of it per worker.  (A window that a text has twice makes two rows of one
\* insert.)
StoredOncePerWorker ==
    \A k \in Kinds : \A i, j \in DOMAIN chunks[k] :
        i < j /\ chunks[k][i].worker = chunks[k][j].worker =>
            TextsOf(chunks[k][i].rows) \cap TextsOf(chunks[k][j].rows) = {}

\* Once no more requests come, the index catches up with the row and stays so.
IndexCatchesUp ==
    <>[](\A k \in Kinds : Expected(k, row) \subseteq Stored(k) \/ Excused(k))

=============================================================================
