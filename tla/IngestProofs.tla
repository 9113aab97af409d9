---------------------------- MODULE IngestProofs ----------------------------
(* Proofs about Ingest, for any number of requests, revisions and workers.    *)
EXTENDS Ingest, TLAPS

\* The kinds of chunk task, as the solver needs them.
LEMMA KindNames == Kinds = {"body", "title", "summary_title"}
  BY DEF Kinds, Rank

\* Every text a worker may be asked to split is a list of windows.
LEMMA ResolveTextType ==
    ASSUME NEW k \in Kinds, NEW t \in [Fields -> Seq(Windows)]
    PROVE  ResolveText(k, t) \in Seq(Window)
<1> USE KindNames DEF Fields
<1>0. \A u \in Seq(Windows) : u \in Seq(Window)
  BY DEF Window
<1>1. CASE k = "body"
  BY <1>0, <1>1 DEF ResolveText, Or
<1>2. CASE k = "title"
  BY <1>0, <1>2 DEF ResolveText, Or
<1>3. CASE k = "summary_title"
  <2>1. <<t["title"], t["summary"]>> \in Window
    BY DEF Window
  <2> QED
    BY <1>3, <2>1 DEF ResolveText
<1> QED
  BY <1>1, <1>2, <1>3

\* What a worker finds in the row is a list of windows.
LEMMA FoundType == ASSUME TypeOK, NEW k \in Kinds PROVE Found(k) \in Seq(Window)
<1>1. CASE row = NoPost
  BY <1>1 DEF Found
<1>2. CASE row # NoPost
  <2>1. row.text \in [Fields -> Seq(Windows)]
    BY <1>2 DEF TypeOK, Post
  <2> QED
    BY <1>2, <2>1, ResolveTextType DEF Found
<1> QED
  BY <1>1, <1>2

\* The event a request publishes is well formed.
LEMMA EventType ==
    ASSUME TypeOK, NEW r \in Requests
    PROVE  SyncedEvent(r) \in Event
  BY IngestAssumption DEF TypeOK, SyncedEvent, ChangedFields, Event, Post

\* An event calls for kinds of tasks.
LEMMA KindsOfType == ASSUME NEW e PROVE KindsOf(e) \in SUBSET Kinds
  BY DEF KindsOf

\* Every variable keeps its type through every step.
THEOREM TypeCorrect == Spec => []TypeOK
<1>1. Init => TypeOK
  BY KindNames, IngestAssumption DEF Init, TypeOK
<1>2. TypeOK /\ [Next]_vars => TypeOK'
  <2> SUFFICES ASSUME TypeOK, [Next]_vars PROVE TypeOK'
    OBVIOUS
  <2> USE IngestAssumption DEF TypeOK, sync, workers, tables, Failing
  <2>l. ASSUME NEW w \in Workers, Leave(w)
        PROVE  /\ wpc' \in [Workers -> {"off", "idle", "hashes", "insert", "announce", "ack"}]
               /\ task' \in [Workers -> Kinds]
               /\ text' \in [Workers -> Seq(Window)]
               /\ new' \in [Workers -> SUBSET Chunk]
    <3>1. "body" \in Kinds /\ <<>> \in Seq(Window)
      BY KindNames
    <3> QED
      BY <2>l, <3>1 DEF Leave
  <2>1. ASSUME NEW r \in Requests, FetchExisting(r) \/ SelectUpdatedAt(r) PROVE TypeOK'
    BY <2>1 DEF FetchExisting, SelectUpdatedAt
  <2>2. ASSUME NEW r \in Requests, Upsert(r) PROVE TypeOK'
    BY <2>2 DEF Upsert, Written, Unnoticed
  <2>3. ASSUME NEW r \in Requests, PublishSynced(r) PROVE TypeOK'
    BY <2>3, EventType DEF PublishSynced
  <2>4. ASSUME NEW r \in Requests, RequestFails(r) PROVE TypeOK'
    BY <2>4, KindsOfType DEF RequestFails
  <2>5. CASE Consume
    BY <2>5, KindsOfType DEF Consume
  <2>6. ASSUME NEW k \in Kinds, PublishTask(k) PROVE TypeOK'
    BY <2>6 DEF PublishTask
  <2>7. CASE DispatchFails
    BY <2>7 DEF DispatchFails
  <2>8. ASSUME NEW w \in Workers, NEW k \in Kinds, FetchPost(w, k) PROVE TypeOK'
    <3>1. Found(k) \in Seq(Window)
      BY FoundType
    <3>2. tasks[k] - 1 \in Nat
      BY <2>8 DEF FetchPost
    <3> QED
      BY <2>8, <3>1, <3>2 DEF FetchPost
  <2>9. ASSUME NEW w \in Workers, NEW k \in Kinds, RejectTask(w, k) PROVE TypeOK'
    BY <2>9 DEF RejectTask
  <2>10. ASSUME NEW w \in Workers, GetTextHashes(w) PROVE TypeOK'
    <3>1. Unknown(w) \in SUBSET Chunk
      BY DEF Unknown, Chunk
    <3> QED
      BY <2>10, <3>1 DEF GetTextHashes
  <2>11. ASSUME NEW w \in Workers, BulkInsert(w) PROVE TypeOK'
    <3>1. [worker |-> w, rows |-> new[w]] \in Insert
      BY DEF Insert
    <3>2. Append(chunks[task[w]], [worker |-> w, rows |-> new[w]]) \in Seq(Insert)
      BY <3>1
    <3> QED
      BY <2>11, <3>2 DEF BulkInsert
  <2>12. ASSUME NEW w \in Workers, PublishCreated(w) PROVE TypeOK'
    <3>1. Append(announced[task[w]], new[w]) \in Seq(SUBSET Chunk)
      OBVIOUS
    <3> QED
      BY <2>12, <3>1 DEF PublishCreated
  <2>13. ASSUME NEW w \in Workers, Ack(w) PROVE TypeOK'
    BY <2>13, <2>l DEF Ack
  <2>14. ASSUME NEW w \in Workers, HandlerRaises(w) PROVE TypeOK'
    BY <2>14, <2>l DEF HandlerRaises
  <2>15. ASSUME NEW w \in Workers, WorkerCrash(w) PROVE TypeOK'
    BY <2>15, <2>l DEF WorkerCrash
  <2>16. CASE UNCHANGED vars
    BY <2>16 DEF vars
  <2> QED
    BY <2>1, <2>2, <2>3, <2>4, <2>5, <2>6, <2>7, <2>8, <2>9, <2>10, <2>11, <2>12, <2>13,
       <2>14, <2>15, <2>16 DEF Next, Request, Dispatcher, Worker
<1> QED
  BY <1>1, <1>2, PTL DEF Spec

\* The row never gets older, so no accepted revision is overwritten by an older
\* one: for any number of concurrent requests.
THEOREM NewestRevisionWins == Spec => []NewestWins
<1>1. Init => NewestWins
  BY DEF Init, NewestWins
<1>2. TypeOK /\ NewestWins /\ [Next]_vars => NewestWins'
  <2> SUFFICES ASSUME TypeOK, NewestWins, [Next]_vars PROVE NewestWins'
    OBVIOUS
  <2> USE DEF NewestWins
  <2>1. ASSUME NEW r \in Requests, FetchExisting(r) PROVE NewestWins'
    BY <2>1 DEF FetchExisting, TypeOK
  <2>2. ASSUME NEW r \in Requests, SelectUpdatedAt(r) PROVE NewestWins'
    <3>1. row \in Post \cup {NoPost} /\ Revision[r] \in Post
      BY IngestAssumption DEF TypeOK
    <3> QED
      BY <2>2, <3>1 DEF SelectUpdatedAt, Newer, TypeOK, Post
  <2>3. ASSUME NEW r \in Requests, Upsert(r) PROVE NewestWins'
    <3>1. row \in Post \cup {NoPost} /\ Revision[r] \in Post /\ NoPost \notin Post
      BY IngestAssumption DEF TypeOK
    <3>2. row' # NoPost /\ row'.updated_at >= Revision[r].updated_at
      BY <2>3, <3>1 DEF Upsert, Written, Newer, Post
    <3>3. row # NoPost => row'.updated_at >= row.updated_at
      BY <2>3, <3>1 DEF Upsert, Written, Newer, Post
    <3>4. \A q \in Requests : Revision[q].updated_at \in Nat
      BY IngestAssumption DEF Post
    <3>5. row' \in Post
      BY <2>3, <3>1 DEF Upsert, Written, Newer
    <3>6. \A q \in Requests : q # r => pc'[q] = pc[q]
      BY <2>3 DEF Upsert, TypeOK
    <3>7. row'.updated_at \in Nat /\ (row # NoPost => row.updated_at \in Nat)
      BY <3>1, <3>5 DEF Post
    <3> SUFFICES ASSUME NEW q \in Requests, pc'[q] \in {"publish", "answered", "skipped"}
                 PROVE  row' # NoPost /\ row'.updated_at >= Revision[q].updated_at
      OBVIOUS
    <3>8. CASE q = r
      BY <3>2, <3>8
    <3>9. CASE q # r
      <4>1. row # NoPost /\ row.updated_at >= Revision[q].updated_at
        BY <3>6, <3>9
      <4> QED
        BY <3>2, <3>3, <3>4, <3>7, <4>1
    <3> QED
      BY <3>8, <3>9
  <2>4. ASSUME NEW r \in Requests, PublishSynced(r) PROVE NewestWins'
    BY <2>4 DEF PublishSynced, TypeOK
  <2>5. ASSUME NEW r \in Requests, RequestFails(r) PROVE NewestWins'
    BY <2>5 DEF RequestFails, TypeOK
  <2>6. CASE UNCHANGED <<row, pc>>
    BY <2>6
  <2>7. ASSUME Dispatcher \/ DispatchFails PROVE UNCHANGED <<row, pc>>
    BY <2>7 DEF Dispatcher, Consume, PublishTask, DispatchFails, sync
  <2>8. ASSUME NEW w \in Workers, Worker(w) \/ HandlerRaises(w) \/ WorkerCrash(w)
        PROVE  UNCHANGED <<row, pc>>
    BY <2>8 DEF Worker, FetchPost, GetTextHashes, BulkInsert, PublishCreated, Ack,
                HandlerRaises, WorkerCrash, sync
  <2>9. ASSUME NEW w \in Workers, NEW k \in Kinds, RejectTask(w, k)
        PROVE  UNCHANGED <<row, pc>>
    BY <2>9 DEF RejectTask, sync
  <2>10. CASE UNCHANGED vars
    BY <2>10 DEF vars
  <2> QED
    BY <2>1, <2>2, <2>3, <2>4, <2>5, <2>6, <2>7, <2>8, <2>9, <2>10 DEF Next, Request
<1> QED
  BY <1>1, <1>2, TypeCorrect, PTL DEF Spec

\* A kind that an event does not name has the text it had in the row the request
\* compared with, or none.
LEMMA UnnamedIsUnchanged ==
    ASSUME TypeOK, NEW r \in Requests, NEW k \in Kinds \ KindsOf(SyncedEvent(r))
    PROVE  Expected(k, Revision[r]) \subseteq Expected(k, existing[r])
<1> DEFINE new_text == Revision[r].text
<1>1. Revision[r] \in Post /\ existing[r] \in Post \cup {NoPost} /\ Revision[r] # NoPost
  BY IngestAssumption DEF TypeOK
<1>2. k \in {"body", "title", "summary_title"}
  BY KindNames
<1>3. CASE k = "summary_title" /\ new_text["summary"] = <<>>
  BY <1>3 DEF Expected
<1>4. CASE ~ (k = "summary_title" /\ new_text["summary"] = <<>>)
  <2>1. /\ ChangedFields(Revision[r], existing[r]) # {}
        /\ ChangedFields(Revision[r], existing[r]) \cap Triggers(k) = {}
    BY <1>4 DEF KindsOf, SyncedEvent
  <2>2. existing[r] # NoPost
    BY <2>1 DEF ChangedFields
  <2>3. \A f \in Triggers(k) \cap Fields : new_text[f] = existing[r].text[f]
    BY <2>1, <2>2 DEF ChangedFields
  <2>4. CASE k = "body"
    <3>1. /\ new_text["body_text"] = existing[r].text["body_text"]
          /\ new_text["custom_body"] = existing[r].text["custom_body"]
      BY <2>3, <2>4 DEF Triggers, Fields
    <3> QED
      BY <1>1, <2>2, <2>4, <3>1 DEF Expected, ResolveText, Or
  <2>5. CASE k = "title"
    <3>1. /\ new_text["title"] = existing[r].text["title"]
          /\ new_text["custom_title"] = existing[r].text["custom_title"]
      BY <2>3, <2>5 DEF Triggers, Fields
    <3> QED
      BY <1>1, <2>2, <2>5, <3>1 DEF Expected, ResolveText, Or
  <2>6. CASE k = "summary_title"
    <3>1. /\ new_text["title"] = existing[r].text["title"]
          /\ new_text["summary"] = existing[r].text["summary"]
      BY <2>3, <2>6 DEF Triggers, Fields
    <3> QED
      BY <1>1, <1>4, <2>2, <2>6, <3>1 DEF Expected, ResolveText
  <2> QED
    BY <1>2, <2>4, <2>5, <2>6
<1> QED
  BY <1>3, <1>4

\* The upsert of r leaves nothing of kind k without a chunk or a promise of one.
LEMMA UpsertCovers ==
    ASSUME TypeOK, CurrentTextIsChunked, NEW r \in Requests, Upsert(r), NEW k \in Kinds
    PROVE  Expected(k, row') \subseteq Stored(k)' \/ Pending(k)' \/ Excused(k)'
<1> USE DEF Upsert
<1>s. Stored(k)' = Stored(k)
  BY DEF Stored, tables
<1>1. CASE k \in KindsOf(SyncedEvent(r))
  <2>1. SyncedEvent(r)' = SyncedEvent(r)
    BY DEF SyncedEvent
  <2>2. pc'[r] = "publish"
    BY DEF TypeOK
  <2> QED
    BY <1>1, <2>1, <2>2 DEF Pending
<1>2. CASE k \in Unnoticed(r)
  BY <1>2 DEF Excused
<1>3. CASE k \notin KindsOf(SyncedEvent(r)) /\ k \notin Unnoticed(r)
  <2>1. Expected(k, row') \subseteq Expected(k, row)
    <3>1. CASE row = existing[r]
      BY <1>3, <3>1, UnnamedIsUnchanged DEF Written
    <3>2. CASE row # existing[r]
      BY <1>3, <3>2 DEF Unnoticed
    <3> QED
      BY <3>1, <3>2
  <2>2. CASE Expected(k, row) \subseteq Stored(k)
    BY <1>s, <2>1, <2>2 DEF tables
  <2>3. CASE Excused(k)
    BY <2>3 DEF Excused
  <2>4. CASE Pending(k)
    <3>1. CASE \E q \in Requests : pc[q] = "publish" /\ k \in KindsOf(SyncedEvent(q))
      <4>1. PICK q \in Requests : pc[q] = "publish" /\ k \in KindsOf(SyncedEvent(q))
        BY <3>1
      <4>2. SyncedEvent(q)' = SyncedEvent(q)
        BY DEF SyncedEvent
      <4>3. pc'[q] = "publish"
        BY <4>1 DEF TypeOK
      <4> QED
        BY <4>1, <4>2, <4>3 DEF Pending
    <3>2. CASE (\E i \in DOMAIN log : k \in KindsOf(log[i])) \/ k \in dispatching \/ tasks[k] > 0
      BY <3>2 DEF Pending
    <3>3. ASSUME NEW w \in Workers, task[w] = k,
                 \/ wpc[w] = "hashes" /\ Expected(k, row) \subseteq WindowsOf(text[w])
                 \/ wpc[w] = "insert" /\ Expected(k, row) \subseteq Stored(k) \cup TextsOf(new[w])
          PROVE  Pending(k)'
      BY <1>s, <2>1, <3>3 DEF Pending, workers, tables
    <3> QED
      BY <2>4, <3>1, <3>2, <3>3 DEF Pending
  <2> QED
    BY <2>2, <2>3, <2>4 DEF CurrentTextIsChunked
<1> QED
  BY <1>1, <1>2, <1>3

\* After an insert the table has what it had and the windows of the insert.
LEMMA InsertStores ==
    ASSUME TypeOK, NEW w \in Workers, NEW k \in Kinds,
           chunks' = [chunks EXCEPT ![task[w]] = Append(@, [worker |-> w, rows |-> new[w]])]
    PROVE  Stored(k)' = Stored(k) \cup (IF task[w] = k THEN TextsOf(new[w]) ELSE {})
<1> DEFINE entry == [worker |-> w, rows |-> new[w]]
           n == Len(chunks[k]) + 1
<1>1. CASE task[w] # k
  BY <1>1 DEF TypeOK, Stored
<1>2. CASE task[w] = k
  <2>1. entry \in Insert
    BY DEF TypeOK, Insert
  <2>2. chunks'[k] = Append(chunks[k], entry)
    BY <1>2 DEF TypeOK
  <2>3. chunks[k] \in Seq(Insert)
    BY DEF TypeOK
  <2>4. /\ DOMAIN chunks'[k] = DOMAIN chunks[k] \cup {n}
        /\ chunks'[k][n] = entry /\ entry.rows = new[w]
        /\ \A i \in DOMAIN chunks[k] : chunks'[k][i] = chunks[k][i]
    BY <2>1, <2>2, <2>3
  <2> HIDE DEF entry, n
  <2>5. {TextsOf(chunks'[k][i].rows) : i \in DOMAIN chunks'[k]}
            = {TextsOf(chunks[k][i].rows) : i \in DOMAIN chunks[k]} \cup {TextsOf(new[w])}
    BY <2>4
  <2>6. Stored(k)' = UNION {TextsOf(chunks'[k][i].rows) : i \in DOMAIN chunks'[k]}
    BY DEF Stored, TextsOf
  <2> QED
    BY <1>2, <2>5, <2>6 DEF Stored
<1> QED
  BY <1>1, <1>2

\* The index follows the row through every interleaving of requests, dispatcher
\* and workers: text without chunks has a promise of them or an excuse.
THEOREM IndexFollowsRow == Spec => []CurrentTextIsChunked
<1>1. Init => CurrentTextIsChunked
  BY DEF Init, CurrentTextIsChunked, Expected
<1>2. TypeOK /\ CurrentTextIsChunked /\ [Next]_vars => CurrentTextIsChunked'
  <2> SUFFICES ASSUME TypeOK, CurrentTextIsChunked, [Next]_vars, NEW k \in Kinds
               PROVE  Expected(k, row') \subseteq Stored(k)' \/ Pending(k)' \/ Excused(k)'
    BY DEF CurrentTextIsChunked
  <2> DEFINE Covered == Expected(k, row) \subseteq Stored(k) \/ Pending(k) \/ Excused(k)
             Goal == Expected(k, row') \subseteq Stored(k)' \/ Pending(k)' \/ Excused(k)'
  <2>c. Covered
    BY DEF CurrentTextIsChunked
  <2>s. chunks' = chunks => Stored(k)' = Stored(k)
    BY DEF Stored
  <2> USE DEF TypeOK, sync, workers, tables
  <2>e. ASSUME NEW q \in Requests, existing'[q] = existing[q]
        PROVE  SyncedEvent(q)' = SyncedEvent(q)
    BY <2>e DEF SyncedEvent
  \* A request may end, nothing else moves.
  <2>r. ASSUME UNCHANGED <<row, log, dispatching, tasks, dead, workers, tables, raced>>,
               lost \in SUBSET lost',
               \A q \in Requests : pc[q] = "publish" /\ k \in KindsOf(SyncedEvent(q)) =>
                   \/ pc'[q] = "publish" /\ existing'[q] = existing[q]
                   \/ k \in lost'
        PROVE  Goal
    <3>1. CASE \E q \in Requests : pc[q] = "publish" /\ k \in KindsOf(SyncedEvent(q))
      <4>1. PICK q \in Requests : pc[q] = "publish" /\ k \in KindsOf(SyncedEvent(q))
        BY <3>1
      <4>2. CASE k \in lost'
        BY <4>2 DEF Excused
      <4>3. CASE k \notin lost'
        <5>1. pc'[q] = "publish" /\ existing'[q] = existing[q]
          BY <2>r, <4>1, <4>3
        <5>2. k \in KindsOf(SyncedEvent(q)')
          BY <2>e, <4>1, <5>1
        <5> QED
          BY <5>1, <5>2 DEF Pending
      <4> QED
        BY <4>2, <4>3
    <3>2. CASE ~ \E q \in Requests : pc[q] = "publish" /\ k \in KindsOf(SyncedEvent(q))
      BY <2>r, <2>c, <2>s, <3>2 DEF Pending, Excused
    <3> QED
      BY <3>1, <3>2
  \* A worker moves, and neither the row nor a request does.
  <2>w. ASSUME NEW w \in Workers, UNCHANGED <<row, pc, existing, log, dispatching, lost, raced>>,
               tasks[k] > 0 => tasks'[k] > 0, dead \in SUBSET dead',
               Stored(k) \in SUBSET Stored(k)',
               \A v \in Workers : v # w =>
                   /\ wpc'[v] = wpc[v] /\ task'[v] = task[v]
                   /\ text'[v] = text[v] /\ new'[v] = new[v],
               /\ task[w] = k
               /\ \/ wpc[w] = "hashes" /\ Expected(k, row) \subseteq WindowsOf(text[w])
                  \/ wpc[w] = "insert" /\ Expected(k, row) \subseteq Stored(k) \cup TextsOf(new[w])
               => Goal
        PROVE  Goal
    <3>1. CASE Expected(k, row) \subseteq Stored(k) \/ Excused(k)
      BY <2>w, <3>1 DEF Excused
    <3>2. CASE \E q \in Requests : pc[q] = "publish" /\ k \in KindsOf(SyncedEvent(q))
      <4>1. PICK q \in Requests : pc[q] = "publish" /\ k \in KindsOf(SyncedEvent(q))
        BY <3>2
      <4>2. k \in KindsOf(SyncedEvent(q)') /\ pc'[q] = "publish"
        BY <2>w, <2>e, <4>1
      <4> QED
        BY <4>2 DEF Pending
    <3>3. CASE (\E i \in DOMAIN log : k \in KindsOf(log[i])) \/ k \in dispatching \/ tasks[k] > 0
      BY <2>w, <3>3 DEF Pending
    <3>4. ASSUME NEW v \in Workers, task[v] = k,
                 \/ wpc[v] = "hashes" /\ Expected(k, row) \subseteq WindowsOf(text[v])
                 \/ wpc[v] = "insert" /\ Expected(k, row) \subseteq Stored(k) \cup TextsOf(new[v])
          PROVE  Goal
      <4>1. CASE v = w
        BY <2>w, <3>4, <4>1
      <4>2. CASE v # w
        <5>1. /\ wpc'[v] = wpc[v] /\ task'[v] = k
              /\ WindowsOf(text[v])' = WindowsOf(text[v]) /\ TextsOf(new[v])' = TextsOf(new[v])
          BY <2>w, <3>4, <4>2 DEF WindowsOf, TextsOf
        <5>2. Expected(k, row)' = Expected(k, row)
          BY <2>w
        <5> QED
          BY <2>w, <3>4, <5>1, <5>2 DEF Pending
      <4> QED
        BY <4>1, <4>2
    <3> QED
      BY <2>c, <3>1, <3>2, <3>3, <3>4 DEF Pending
  <2>1. ASSUME NEW r \in Requests, FetchExisting(r) PROVE Goal
    BY <2>1, <2>r DEF FetchExisting
  <2>2. ASSUME NEW r \in Requests, SelectUpdatedAt(r) PROVE Goal
    BY <2>2, <2>r DEF SelectUpdatedAt
  <2>3. ASSUME NEW r \in Requests, Upsert(r) PROVE Goal
    BY <2>3, UpsertCovers
  <2>4. ASSUME NEW r \in Requests, PublishSynced(r) PROVE Goal
    <3>2. CASE \E q \in Requests : pc[q] = "publish" /\ k \in KindsOf(SyncedEvent(q))
      <4>1. PICK q \in Requests : pc[q] = "publish" /\ k \in KindsOf(SyncedEvent(q))
        BY <3>2
      <4>2. CASE q = r
        <5>1. Len(log) + 1 \in DOMAIN log' /\ log'[Len(log) + 1] = SyncedEvent(r)
          BY <2>4, EventType DEF PublishSynced
        <5> QED
          BY <4>1, <4>2, <5>1 DEF Pending
      <4>3. CASE q # r
        <5>1. pc'[q] = "publish" /\ existing'[q] = existing[q]
          BY <2>4, <4>1, <4>3 DEF PublishSynced
        <5>2. k \in KindsOf(SyncedEvent(q)')
          BY <2>e, <4>1, <5>1
        <5> QED
          BY <5>1, <5>2 DEF Pending
      <4> QED
        BY <4>2, <4>3
    <3>3. CASE \E i \in DOMAIN log : k \in KindsOf(log[i])
      <4>1. PICK i \in DOMAIN log : k \in KindsOf(log[i])
        BY <3>3
      <4>2. i \in DOMAIN log' /\ log'[i] = log[i]
        BY <2>4, EventType DEF PublishSynced
      <4> QED
        BY <4>1, <4>2 DEF Pending
    <3>4. CASE /\ ~ \E q \in Requests : pc[q] = "publish" /\ k \in KindsOf(SyncedEvent(q))
               /\ ~ \E i \in DOMAIN log : k \in KindsOf(log[i])
      BY <2>4, <2>c, <2>s, <3>4 DEF PublishSynced, Pending, Excused
    <3> QED
      BY <3>2, <3>3, <3>4
  <2>5. ASSUME NEW r \in Requests, RequestFails(r) PROVE Goal
    BY <2>5, <2>r, KindsOfType DEF RequestFails
  <2>6. CASE Consume
    <3>1. \A q \in Requests : SyncedEvent(q)' = SyncedEvent(q)
      BY <2>6 DEF Consume, SyncedEvent
    <3>2. CASE \E i \in DOMAIN log : k \in KindsOf(log[i])
      <4>1. PICK i \in DOMAIN log : k \in KindsOf(log[i])
        BY <3>2
      <4>2. CASE i = 1
        BY <2>6, <4>1, <4>2 DEF Consume, Pending
      <4>3. CASE i # 1
        <5>1. i - 1 \in DOMAIN log' /\ log'[i - 1] = log[i]
          BY <2>6, <4>1, <4>3 DEF Consume
        <5> QED
          BY <4>1, <5>1 DEF Pending
      <4> QED
        BY <4>2, <4>3
    <3>3. CASE ~ \E i \in DOMAIN log : k \in KindsOf(log[i])
      BY <2>6, <2>c, <2>s, <3>1, <3>3 DEF Consume, Pending, Excused
    <3> QED
      BY <3>2, <3>3
  <2>7. ASSUME NEW l \in Kinds, PublishTask(l) PROVE Goal
    <3>1. CASE l = k
      <4>1. tasks'[k] > 0
        BY <2>7, <3>1 DEF PublishTask
      <4> QED
        BY <4>1 DEF Pending
    <3>2. CASE l # k
      <4>1. tasks'[k] = tasks[k] /\ (k \in dispatching => k \in dispatching')
        BY <2>7, <3>2 DEF PublishTask
      <4> QED
        BY <2>7, <2>c, <2>s, <4>1 DEF PublishTask, Pending, Excused, SyncedEvent
    <3> QED
      BY <3>1, <3>2
  <2>8. CASE DispatchFails
    BY <2>8, <2>c, <2>s DEF DispatchFails, Pending, Excused, SyncedEvent
  <2>9. ASSUME NEW w \in Workers, NEW l \in Kinds, FetchPost(w, l) PROVE Goal
    <3>1. /\ UNCHANGED <<row, pc, existing, log, dispatching, lost, raced, dead, new, chunks>>
          /\ tasks' = [tasks EXCEPT ![l] = @ - 1] /\ wpc[w] = "idle"
          /\ task' = [task EXCEPT ![w] = l] /\ text' = [text EXCEPT ![w] = Found(l)]
          /\ wpc' = [wpc EXCEPT ![w] = IF Found(l) = <<>> THEN "ack" ELSE "hashes"]
      BY <2>9 DEF FetchPost
    <3>2. CASE l = k
      <4>1. Expected(k, row) \subseteq WindowsOf(Found(k))
        BY DEF Expected, Found
      <4>2. CASE Found(k) = <<>>
        <5>1. Expected(k, row) = {}
          BY <4>1, <4>2 DEF WindowsOf
        <5> QED
          BY <3>1, <5>1
      <4>3. CASE Found(k) # <<>>
        <5>1. wpc'[w] = "hashes" /\ task'[w] = k /\ text'[w] = Found(k)
          BY <3>1, <3>2, <4>3
        <5>2. Expected(k, row)' \subseteq WindowsOf(text[w])'
          BY <3>1, <4>1, <5>1
        <5> QED
          BY <5>1, <5>2 DEF Pending
      <4> QED
        BY <4>2, <4>3
    <3>3. CASE l # k
      <4>1. tasks'[k] = tasks[k]
        BY <3>1, <3>3
      <4>2. \A v \in Workers : v # w =>
               /\ wpc'[v] = wpc[v] /\ task'[v] = task[v]
               /\ text'[v] = text[v] /\ new'[v] = new[v]
        BY <3>1
      <4> QED
        BY <2>w, <2>s, <3>1, <4>1, <4>2
    <3> QED
      BY <3>2, <3>3
  <2>10. ASSUME NEW w \in Workers, NEW l \in Kinds, RejectTask(w, l) PROVE Goal
    BY <2>10, <2>c, <2>s DEF RejectTask, Pending, Excused, SyncedEvent
  <2>11. ASSUME NEW w \in Workers, GetTextHashes(w) PROVE Goal
    <3>1. /\ UNCHANGED <<row, pc, existing, log, dispatching, lost, raced, dead, tasks, task,
                         text, chunks>>
          /\ wpc[w] = "hashes" /\ new' = [new EXCEPT ![w] = Unknown(w)]
          /\ wpc' = [wpc EXCEPT ![w] = IF Unknown(w) = {} THEN "ack" ELSE "insert"]
      BY <2>11 DEF GetTextHashes
    <3>2. ASSUME task[w] = k, Expected(k, row) \subseteq WindowsOf(text[w]) PROVE Goal
      <4>1. Expected(k, row) \subseteq Stored(k) \cup TextsOf(Unknown(w))
        <5> SUFFICES ASSUME NEW x \in Expected(k, row), x \notin Stored(k)
                     PROVE  x \in TextsOf(Unknown(w))
          OBVIOUS
        <5>1. PICK i \in DOMAIN text[w] : text[w][i] = x
          BY <3>2 DEF WindowsOf
        <5> DEFINE c == [chunk_index |-> i, text |-> text[w][i]]
        <5>2. c \in Unknown(w)
          BY <3>2, <5>1 DEF Unknown
        <5>3. c.text = x
          BY <5>1
        <5> QED
          BY <5>2, <5>3 DEF TextsOf
      <4>2. CASE Unknown(w) = {}
        <5>1. Expected(k, row) \subseteq Stored(k)
          BY <4>1, <4>2 DEF TextsOf
        <5> QED
          BY <2>s, <3>1, <5>1
      <4>3. CASE Unknown(w) # {}
        <5>1. wpc'[w] = "insert" /\ task'[w] = k /\ new'[w] = Unknown(w)
          BY <3>1, <3>2, <4>3
        <5>2. Expected(k, row)' \subseteq Stored(k)' \cup TextsOf(new[w])'
          BY <2>s, <3>1, <4>1, <5>1
        <5> QED
          BY <5>1, <5>2 DEF Pending
      <4> QED
        BY <4>2, <4>3
    <3>3. \A v \in Workers : v # w => wpc'[v] = wpc[v] /\ new'[v] = new[v]
      BY <3>1
    <3> QED
      BY <2>w, <2>s, <3>1, <3>2, <3>3
  <2>12. ASSUME NEW w \in Workers, BulkInsert(w) PROVE Goal
    <3>1. /\ UNCHANGED <<row, pc, existing, log, dispatching, lost, raced, dead, tasks, task,
                         text, new>>
          /\ wpc[w] = "insert" /\ wpc' = [wpc EXCEPT ![w] = "announce"]
      BY <2>12 DEF BulkInsert
    <3>2. Stored(k)' = Stored(k) \cup (IF task[w] = k THEN TextsOf(new[w]) ELSE {})
      BY <2>12, InsertStores DEF BulkInsert
    <3>3. \A v \in Workers : v # w => wpc'[v] = wpc[v]
      BY <3>1
    <3>4. ASSUME task[w] = k, Expected(k, row) \subseteq Stored(k) \cup TextsOf(new[w]) PROVE Goal
      BY <3>1, <3>2, <3>4
    <3> QED
      BY <2>w, <3>1, <3>2, <3>3, <3>4
  <2>13. ASSUME NEW w \in Workers, PublishCreated(w) PROVE Goal
    <3>1. /\ UNCHANGED <<row, pc, existing, log, dispatching, lost, raced, dead, tasks, task,
                         text, new, chunks>>
          /\ wpc[w] = "announce" /\ wpc' = [wpc EXCEPT ![w] = "ack"]
      BY <2>13 DEF PublishCreated
    <3>2. \A v \in Workers : v # w => wpc'[v] = wpc[v]
      BY <3>1
    <3> QED
      BY <2>w, <2>s, <3>1, <3>2
  <2>l. ASSUME NEW w \in Workers, Leave(w), NEW v \in Workers, v # w
        PROVE  /\ wpc'[v] = wpc[v] /\ task'[v] = task[v]
               /\ text'[v] = text[v] /\ new'[v] = new[v]
    BY <2>l DEF Leave
  <2>14. ASSUME NEW w \in Workers, Ack(w) PROVE Goal
    <3>1. /\ UNCHANGED <<row, pc, existing, log, dispatching, lost, raced, dead, tasks, chunks>>
          /\ wpc[w] = "ack" /\ Leave(w)
      BY <2>14 DEF Ack
    <3> QED
      BY <2>w, <2>s, <2>l, <3>1
  <2>15. ASSUME NEW w \in Workers, HandlerRaises(w) PROVE Goal
    <3>1. /\ UNCHANGED <<row, pc, existing, log, dispatching, lost, raced, tasks, chunks>>
          /\ dead' = dead \cup {task[w]} /\ Leave(w)
      BY <2>15 DEF HandlerRaises
    <3>2. ASSUME task[w] = k PROVE Goal
      BY <3>1, <3>2 DEF Excused
    <3> QED
      BY <2>w, <2>s, <2>l, <3>1, <3>2
  <2>16. ASSUME NEW w \in Workers, WorkerCrash(w) PROVE Goal
    <3>1. /\ UNCHANGED <<row, pc, existing, log, dispatching, lost, raced, dead, chunks>>
          /\ tasks' = [tasks EXCEPT ![task[w]] = @ + 1] /\ Leave(w)
      BY <2>16 DEF WorkerCrash
    <3>2. tasks[k] > 0 => tasks'[k] > 0
      BY <3>1
    <3>3. ASSUME task[w] = k PROVE Goal
      <4>1. tasks'[k] > 0
        BY <3>1, <3>3
      <4> QED
        BY <4>1 DEF Pending
    <3> QED
      BY <2>w, <2>s, <2>l, <3>1, <3>2, <3>3
  <2>17. CASE UNCHANGED vars
    BY <2>17, <2>c, <2>s DEF vars, Pending, Excused, SyncedEvent
  <2> QED
    BY <2>1, <2>2, <2>3, <2>4, <2>5, <2>6, <2>7, <2>8, <2>9, <2>10, <2>11, <2>12, <2>13,
       <2>14, <2>15, <2>16, <2>17 DEF Next, Request, Dispatcher, Worker
<1> QED
  BY <1>1, <1>2, TypeCorrect, PTL DEF Spec

\* What a worker is about to insert, it has not inserted before: the rows were there
\* when it read the hashes.
OwnIsNew ==
    \A w \in Workers : wpc[w] = "insert" =>
        \A i \in DOMAIN chunks[task[w]] :
            chunks[task[w]][i].worker = w =>
                TextsOf(chunks[task[w]][i].rows) \cap TextsOf(new[w]) = {}

\* The chunks that are left after the comparison with the hashes have windows that no
\* insert of the table has.
LEMMA UnknownIsNew ==
    ASSUME TypeOK, NEW w \in Workers, NEW i \in DOMAIN chunks[task[w]]
    PROVE  TextsOf(chunks[task[w]][i].rows) \cap TextsOf(Unknown(w)) = {}
<1>1. TextsOf(chunks[task[w]][i].rows) \subseteq Stored(task[w])
  BY DEF Stored
<1>2. \A x \in TextsOf(Unknown(w)) : x \notin Stored(task[w])
  BY DEF Unknown, TextsOf
<1> QED
  BY <1>1, <1>2

\* No worker stores a window in two inserts, for any number of workers and whatever is
\* redelivered: between its reading of the hashes and its insert only others insert.
THEOREM StoredOnce == Spec => []StoredOncePerWorker
<1> DEFINE Inv == OwnIsNew /\ StoredOncePerWorker
<1>1. Init => Inv
  BY DEF Init, OwnIsNew, StoredOncePerWorker
<1>2. TypeOK /\ Inv /\ [Next]_vars => Inv'
  <2> SUFFICES ASSUME TypeOK, Inv, [Next]_vars PROVE Inv'
    OBVIOUS
  <2> USE DEF TypeOK, OwnIsNew, StoredOncePerWorker, workers, tables
  <2>1. ASSUME NEW r \in Requests, Request(r) \/ RequestFails(r)
        PROVE  UNCHANGED <<workers, tables>>
    BY <2>1 DEF Request, FetchExisting, SelectUpdatedAt, Upsert, PublishSynced, RequestFails
  <2>2. ASSUME Dispatcher \/ DispatchFails PROVE UNCHANGED <<workers, tables>>
    BY <2>2 DEF Dispatcher, Consume, PublishTask, DispatchFails
  <2>3. ASSUME NEW w \in Workers, NEW k \in Kinds, RejectTask(w, k)
        PROVE  UNCHANGED <<workers, tables>>
    BY <2>3 DEF RejectTask
  <2>4. ASSUME NEW w \in Workers, NEW k \in Kinds, FetchPost(w, k) PROVE Inv'
    <3>1. /\ UNCHANGED <<chunks, new>> /\ task' = [task EXCEPT ![w] = k]
          /\ wpc' = [wpc EXCEPT ![w] = IF Found(k) = <<>> THEN "ack" ELSE "hashes"]
      BY <2>4 DEF FetchPost
    <3>2. \A v \in Workers : wpc'[v] = "insert" => wpc[v] = "insert" /\ task'[v] = task[v]
      BY <3>1
    <3>3. OwnIsNew'
      <4> SUFFICES ASSUME NEW v \in Workers, wpc'[v] = "insert"
                   PROVE  \A i \in DOMAIN chunks[task[v]] :
                              chunks[task[v]][i].worker = v =>
                                  TextsOf(chunks[task[v]][i].rows) \cap TextsOf(new[v]) = {}
        BY <3>1, <3>2
      <4> QED
        BY <3>2
    <3>4. StoredOncePerWorker'
      BY <3>1
    <3> QED
      BY <3>3, <3>4
  <2>5. ASSUME NEW w \in Workers, GetTextHashes(w) PROVE Inv'
    <3>1. new' = [new EXCEPT ![w] = Unknown(w)] /\ UNCHANGED <<task, chunks>>
      BY <2>5 DEF GetTextHashes
    <3>2. \A v \in Workers : v # w => wpc'[v] = wpc[v] /\ new'[v] = new[v]
      BY <2>5 DEF GetTextHashes
    <3>3. OwnIsNew'
      BY <3>1, <3>2, UnknownIsNew
    <3> QED
      BY <3>1, <3>3
  <2>6. ASSUME NEW w \in Workers, BulkInsert(w) PROVE Inv'
    <3> DEFINE k == task[w]
               entry == [worker |-> w, rows |-> new[w]]
               n == Len(chunks[k]) + 1
    <3>1. /\ chunks' = [chunks EXCEPT ![k] = Append(@, entry)]
          /\ UNCHANGED <<task, new>> /\ wpc[w] = "insert"
          /\ wpc' = [wpc EXCEPT ![w] = "announce"]
      BY <2>6 DEF BulkInsert
    <3>2. \A l \in Kinds : l # k => chunks'[l] = chunks[l]
      BY <3>1
    <3>3. entry \in Insert
      BY DEF Insert
    <3>4. /\ DOMAIN chunks'[k] = DOMAIN chunks[k] \cup {n}
          /\ chunks'[k][n] = entry
          /\ \A i \in DOMAIN chunks[k] : chunks'[k][i] = chunks[k][i] /\ i < n
      BY <3>1, <3>3
    <3>5. entry.worker = w /\ entry.rows = new[w]
      OBVIOUS
    <3> HIDE DEF entry, n
    <3>6. OwnIsNew'
      <4> SUFFICES ASSUME NEW v \in Workers, wpc'[v] = "insert",
                          NEW i \in DOMAIN chunks'[task'[v]],
                          chunks'[task'[v]][i].worker = v
                   PROVE  TextsOf(chunks'[task'[v]][i].rows) \cap TextsOf(new'[v]) = {}
        BY DEF TextsOf
      <4>1. v # w /\ wpc[v] = "insert"
        BY <3>1
      <4>2. i \in DOMAIN chunks[task[v]] /\ chunks'[task[v]][i] = chunks[task[v]][i]
        BY <3>1, <3>2, <3>4, <3>5, <4>1
      <4>3. task'[v] = task[v] /\ new'[v] = new[v]
        BY <3>1
      <4> QED
        BY <4>1, <4>2, <4>3
    <3>7. StoredOncePerWorker'
      <4> SUFFICES ASSUME NEW l \in Kinds, NEW i \in DOMAIN chunks'[l],
                          NEW j \in DOMAIN chunks'[l], i < j,
                          chunks'[l][i].worker = chunks'[l][j].worker
                   PROVE  TextsOf(chunks'[l][i].rows) \cap TextsOf(chunks'[l][j].rows) = {}
        BY DEF TextsOf
      <4>1. CASE l # k
        BY <3>2, <4>1
      <4>2. CASE l = k /\ j = n
        <5>1. i \in DOMAIN chunks[k]
          BY <3>4, <4>2 DEF n
        <5>2. chunks[k][i].worker = w /\ chunks'[l][j].rows = new[w]
          BY <3>4, <3>5, <4>2, <5>1
        <5>3. TextsOf(chunks[k][i].rows) \cap TextsOf(new[w]) = {}
          BY <3>1, <5>1, <5>2
        <5> QED
          BY <3>4, <4>2, <5>1, <5>2, <5>3
      <4>3. CASE l = k /\ j # n
        <5>1. i \in DOMAIN chunks[k] /\ j \in DOMAIN chunks[k]
          BY <3>4, <4>3 DEF n
        <5> QED
          BY <3>4, <4>3, <5>1
      <4> QED
        BY <4>1, <4>2, <4>3
    <3> QED
      BY <3>6, <3>7
  <2>7. ASSUME NEW w \in Workers, PublishCreated(w) PROVE Inv'
    <3>1. UNCHANGED <<chunks, new, task>> /\ wpc' = [wpc EXCEPT ![w] = "ack"]
      BY <2>7 DEF PublishCreated
    <3>2. \A v \in Workers : wpc'[v] = "insert" => wpc[v] = "insert"
      BY <3>1
    <3>3. OwnIsNew'
      BY <3>1, <3>2
    <3> QED
      BY <3>1, <3>3
  <2>8. ASSUME NEW w \in Workers, Ack(w) PROVE Inv'
    BY <2>8 DEF Ack, Leave
  <2>9. ASSUME NEW w \in Workers, HandlerRaises(w) PROVE Inv'
    BY <2>9 DEF HandlerRaises, Leave
  <2>10. ASSUME NEW w \in Workers, WorkerCrash(w) PROVE Inv'
    BY <2>10 DEF WorkerCrash, Leave
  <2>11. ASSUME UNCHANGED vars PROVE UNCHANGED <<workers, tables>>
    BY <2>11 DEF vars
  <2>12. CASE UNCHANGED <<workers, tables>>
    BY <2>12
  <2> QED
    BY <2>1, <2>2, <2>3, <2>4, <2>5, <2>6, <2>7, <2>8, <2>9, <2>10, <2>11, <2>12
    DEF Next, Worker
<1> QED
  BY <1>1, <1>2, TypeCorrect, PTL DEF Spec
=============================================================================
