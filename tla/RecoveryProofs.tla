--------------------------- MODULE RecoveryProofs ---------------------------
(***************************************************************************)
(* Proofs about Recovery, for every set of chunks, groups, tables and      *)
(* scans, and every bound on the queue and on troubles.                    *)
(***************************************************************************)
EXTENDS Recovery, TLAPS

\* A message that is worked on was taken from a queue that had room for it.
QueueInv == held # {} => Len(queue) <= MaxQueue

\* A chunk that a scan owes a task to still has no vector, and is in a table not
\* yet read or in a task not yet published; a scan that is done has neither.
ScanInv(s) ==
    /\ owed[s] \subseteq NullIn(Recognised)
    /\ \A c \in owed[s] : TableOfChunk(c) \in left[s] \/ \E m \in found[s] : c \in m
    /\ spc[s] = "done" => left[s] = {} /\ found[s] = {}

RecoveryInv == TypeOK /\ QueueInv /\ \A s \in Scans : ScanInv(s)

-----------------------------------------------------------------------------
(* Lemmas on what scans read. *)

\* The table of a row that exists is listed.
LEMMA NullIsListed ==
  ASSUME NEW c \in NullIn(Recognised)
  PROVE  TableOfChunk(c) \in ListChunkTables
BY RecoveryAssumption DEF NullIn, Null, TableOfChunk, ListChunkTables

\* A row without a vector is in a task of its table.
LEMMA NullIsMissing ==
  ASSUME NEW c \in NullIn(Recognised)
  PROVE  \E m \in Missing(TableOfChunk(c)) : c \in m
<1>1. c \in Chunks /\ row[c] = "null" /\ GroupOf[c] \in Groups
  BY RecoveryAssumption DEF NullIn, Null
<1>2. c \in NullIn({TableOfChunk(c)}) \cap Rows(GroupOf[c])
  BY <1>1 DEF NullIn, Null, Rows
<1>3. QED
  BY <1>1, <1>2 DEF Missing

\* What is missing in a table are sets of chunks.
LEMMA MissingType ==
  ASSUME NEW t PROVE Missing(t) \subseteq SUBSET Chunks
BY DEF Missing, NullIn, Null

\* Chunks do not lose the state "null", except those a scan no longer owes to.
LEMMA NullStays ==
  ASSUME NEW C \in SUBSET NullIn(Recognised), \A c \in C : row'[c] = row[c]
  PROVE  C \subseteq NullIn(Recognised)'
BY DEF NullIn, Null, TableOfChunk

\* A scan that takes no step keeps its part of the invariant while rows without a
\* vector stay so, unless its debt is settled.
LEMMA OtherScan ==
  ASSUME NEW s \in Scans, ScanInv(s),
         spc'[s] = spc[s], left'[s] = left[s], found'[s] = found[s],
         owed'[s] \subseteq owed[s], \A c \in owed'[s] : row'[c] = row[c]
  PROVE  ScanInv(s)'
<1>1. owed'[s] \subseteq NullIn(Recognised)
  BY DEF ScanInv
<1>2. owed'[s] \subseteq NullIn(Recognised)'
  BY <1>1, NullStays
<1>3. QED
  BY <1>2 DEF ScanInv, TableOfChunk

-----------------------------------------------------------------------------
(* One lemma per group of steps. *)

\* Init
LEMMA RecoveryInit == Init => RecoveryInv
<1> SUFFICES ASSUME Init PROVE RecoveryInv
  OBVIOUS
<1> USE RecoveryAssumption
<1>1. queue \in Seq(SUBSET Chunks) /\ Len(queue) = 0 /\ held = {}
  BY DEF Init
<1>2. TypeOK
  BY <1>1 DEF Init, TypeOK
<1>3. QueueInv /\ \A s \in Scans : ScanInv(s)
  BY <1>1 DEF Init, QueueInv, ScanInv
<1>4. QED
  BY <1>2, <1>3 DEF RecoveryInv

\* Steps of the pipeline: no scan moves; a row changes only from "absent", or, when
\* it gets its vector, leaves every debt.
LEMMA PipelineStep ==
  ASSUME RecoveryInv,
         row' \in [Chunks -> {"absent", "null", "vector"}],
         tasks' \subseteq Groups, events' \subseteq Groups, held' \subseteq Chunks,
         queue' \in Seq(SUBSET Chunks), Len(queue') <= MaxQueue + 1,
         held' # {} => Len(queue') <= MaxQueue,
         UNCHANGED <<spc, left, found, tpc, tcall>>,
         troubles' \in 0..MaxTroubles,
         owed' \in [Scans -> SUBSET Chunks],
         \A s \in Scans : owed'[s] \subseteq owed[s],
         \A s \in Scans : \A c \in owed'[s] : row'[c] = row[c]
  PROVE  RecoveryInv'
<1>1. TypeOK'
  BY DEF RecoveryInv, TypeOK
<1>2. QueueInv'
  BY DEF QueueInv
<1>3. \A s \in Scans : ScanInv(s)'
  BY OtherScan DEF RecoveryInv
<1>4. QED
  BY <1>1, <1>2, <1>3 DEF RecoveryInv

\* What a step of the pipeline leaves alone when it does not embed.
LEMMA DebtKept ==
  ASSUME RecoveryInv, UNCHANGED owed,
         \A c \in Chunks : row'[c] = row[c] \/ row[c] = "absent"
  PROVE  /\ owed' \in [Scans -> SUBSET Chunks]
         /\ \A s \in Scans : owed'[s] \subseteq owed[s]
         /\ \A s \in Scans : \A c \in owed'[s] : row'[c] = row[c]
<1>1. \A s \in Scans : \A c \in owed[s] : c \in Chunks /\ row[c] = "null"
  BY DEF RecoveryInv, ScanInv, NullIn, Null
<1>2. QED
  BY <1>1 DEF RecoveryInv, TypeOK

\* A step that is counted as a trouble stays within the bound.
LEMMA TroubleBounded ==
  ASSUME RecoveryInv, Trouble PROVE troubles' \in 0..MaxTroubles
BY RecoveryAssumption DEF RecoveryInv, TypeOK, Trouble

\* Publishing keeps the queue within its bound.
LEMMA PublishFits ==
  ASSUME RecoveryInv, NEW m \in SUBSET Chunks, Publish(m)
  PROVE  queue' \in Seq(SUBSET Chunks) /\ Len(queue') <= MaxQueue
BY RecoveryAssumption DEF RecoveryInv, TypeOK, Publish

\* ChunkPost, ChunkPostDies, ChunkPostFails, Dispatch, DispatchFails
LEMMA IngestStep ==
  ASSUME RecoveryInv, NEW g \in Groups,
         \/ ChunkPost(g) \/ ChunkPostDies(g) \/ ChunkPostFails(g)
         \/ Dispatch(g) \/ DispatchFails(g)
  PROVE  RecoveryInv'
<1> USE RecoveryAssumption
<1>1. /\ row \in [Chunks -> {"absent", "null", "vector"}]
      /\ tasks \subseteq Groups /\ events \subseteq Groups /\ held \subseteq Chunks
      /\ queue \in Seq(SUBSET Chunks) /\ Len(queue) <= MaxQueue + 1
      /\ held # {} => Len(queue) <= MaxQueue
      /\ troubles \in 0..MaxTroubles
  BY DEF RecoveryInv, TypeOK, QueueInv
<1>2. /\ UNCHANGED <<spc, left, found, tpc, tcall, held, owed>>
      /\ troubles' \in 0..MaxTroubles
  BY <1>1, TroubleBounded DEF ChunkPost, ChunkPostDies, ChunkPostFails, Dispatch,
     DispatchFails, scan, trigger
<1>3. /\ row' \in [Chunks -> {"absent", "null", "vector"}]
      /\ \A c \in Chunks : row'[c] = row[c] \/ row[c] = "absent"
  <2>1. CASE Becomes(Rows(g), "null") /\ \A c \in Rows(g) : row[c] = "absent"
    BY <1>1, <2>1 DEF Becomes
  <2>2. CASE UNCHANGED row
    BY <1>1, <2>2
  <2>3. \/ UNCHANGED row
        \/ Becomes(Rows(g), "null") /\ \A c \in Rows(g) : row[c] = "absent"
    BY DEF ChunkPost, ChunkPostDies, ChunkPostFails, Dispatch, DispatchFails
  <2>4. QED
    BY <2>1, <2>2, <2>3
<1>4. tasks' \subseteq Groups /\ events' \subseteq Groups
  BY <1>1 DEF ChunkPost, ChunkPostDies, ChunkPostFails, Dispatch, DispatchFails
<1>5. /\ queue' \in Seq(SUBSET Chunks) /\ Len(queue') <= MaxQueue + 1
      /\ held # {} => Len(queue') <= MaxQueue
  <2>1. CASE UNCHANGED queue
    BY <1>1, <2>1
  <2>2. CASE Publish(Rows(g))
    <3>1. Rows(g) \in SUBSET Chunks
      BY DEF Rows
    <3>2. queue' \in Seq(SUBSET Chunks) /\ Len(queue') <= MaxQueue
      BY <2>2, <3>1, PublishFits
    <3>3. QED
      BY <3>2
  <2>3. QED
    BY <2>1, <2>2 DEF ChunkPost, ChunkPostDies, ChunkPostFails, Dispatch, DispatchFails
<1>6. QED
  BY <1>1, <1>2, <1>3, <1>4, <1>5, DebtKept, PipelineStep

\* BrokerRestarts, RecreateQueue, Take, Embed, EmbedFails, WorkerDies
LEMMA WorkerStep ==
  ASSUME RecoveryInv,
         \/ Take \/ Embed \/ EmbedFails \/ WorkerDies \/ BrokerRestarts \/ RecreateQueue
  PROVE  RecoveryInv'
<1> USE RecoveryAssumption
<1>1. /\ row \in [Chunks -> {"absent", "null", "vector"}]
      /\ tasks \subseteq Groups /\ events \subseteq Groups /\ held \subseteq Chunks
      /\ queue \in Seq(SUBSET Chunks) /\ Len(queue) <= MaxQueue + 1
      /\ held # {} => Len(queue) <= MaxQueue
      /\ troubles \in 0..MaxTroubles
      /\ owed \in [Scans -> SUBSET Chunks]
  BY DEF RecoveryInv, TypeOK, QueueInv
<1>2. /\ UNCHANGED <<spc, left, found, tpc, tcall, tasks, events>>
      /\ troubles' \in 0..MaxTroubles
  BY <1>1, TroubleBounded DEF Take, Embed, EmbedFails, WorkerDies, BrokerRestarts,
     RecreateQueue, scan, trigger
<1>3. /\ queue' \in Seq(SUBSET Chunks) /\ Len(queue') <= MaxQueue + 1
      /\ held' # {} => Len(queue') <= MaxQueue
      /\ held' \subseteq Chunks
  <2>1. CASE Take
    <3>1. Head(queue) \in SUBSET Chunks /\ Tail(queue) \in Seq(SUBSET Chunks)
          /\ Len(Tail(queue)) = Len(queue) - 1 /\ Len(queue) \in Nat
      BY <1>1, <2>1 DEF Take
    <3>2. QED
      BY <1>1, <2>1, <3>1 DEF Take
  <2>2. CASE Embed \/ EmbedFails
    BY <1>1, <2>2 DEF Embed, EmbedFails
  <2>3. CASE WorkerDies
    <3>1. <<held>> \in Seq(SUBSET Chunks) /\ Len(<<held>>) = 1
      BY <1>1
    <3>2. <<held>> \o queue \in Seq(SUBSET Chunks) /\ Len(<<held>> \o queue) = Len(queue) + 1
      BY <1>1, <3>1
    <3>3. QED
      BY <1>1, <2>3, <3>2 DEF WorkerDies
  <2>4. CASE BrokerRestarts \/ RecreateQueue
    <3>1. queue' = <<>> /\ held' = held
      BY <2>4 DEF BrokerRestarts, RecreateQueue
    <3>2. queue' \in Seq(SUBSET Chunks) /\ Len(queue') = 0
      BY <3>1
    <3>3. QED
      BY <1>1, <3>1, <3>2
  <2>5. QED
    BY <2>1, <2>2, <2>3, <2>4
<1>4. CASE Embed
  <2>1. row' \in [Chunks -> {"absent", "null", "vector"}]
    BY <1>1, <1>4 DEF Embed, Becomes
  <2>2. \A s \in Scans : owed'[s] = owed[s] \ held
    BY <1>4 DEF Embed
  <2>3. \A s \in Scans : \A c \in owed'[s] : row'[c] = row[c]
    BY <1>1, <1>4, <2>2 DEF Embed, Becomes
  <2>4. owed' \in [Scans -> SUBSET Chunks]
    BY <1>1, <1>4 DEF Embed
  <2>5. QED
    BY <1>1, <1>2, <1>3, <2>1, <2>2, <2>3, <2>4, PipelineStep
<1>5. CASE UNCHANGED <<row, owed>>
  BY <1>1, <1>2, <1>3, <1>5, DebtKept, PipelineStep
<1>6. Embed \/ UNCHANGED <<row, owed>>
  BY DEF Take, EmbedFails, WorkerDies, BrokerRestarts, RecreateQueue, scan
<1>7. QED
  BY <1>4, <1>5, <1>6

\* A scan s moves, the others and the rows stay.
LEMMA ScanMoves ==
  ASSUME RecoveryInv, NEW s \in Scans,
         spc' \in [Scans -> {"idle", "scan", "done"}], left' \in [Scans -> SUBSET Tables],
         found' \in [Scans -> SUBSET (SUBSET Chunks)], owed' \in [Scans -> SUBSET Chunks],
         \A u \in Scans : u # s =>
             spc'[u] = spc[u] /\ left'[u] = left[u] /\ found'[u] = found[u] /\ owed'[u] = owed[u],
         owed'[s] \subseteq NullIn(Recognised),
         \A c \in owed'[s] : TableOfChunk(c) \in left'[s] \/ \E m \in found'[s] : c \in m,
         spc'[s] = "done" => left'[s] = {} /\ found'[s] = {},
         tasks' \subseteq Groups, UNCHANGED <<row, events, held>>,
         queue' \in Seq(SUBSET Chunks), queue' = queue \/ Len(queue') <= MaxQueue,
         tpc' \in {"off", "due", "posted", "interval", "retry"}, tcall' \in Scans \cup {NoScan},
         tpc' = "posted" <=> tcall' # NoScan, troubles' \in 0..MaxTroubles
  PROVE  RecoveryInv'
<1> USE RecoveryAssumption
<1>1. TypeOK'
  <2>1. Len(queue') <= MaxQueue + 1
    BY DEF RecoveryInv, TypeOK
  <2>2. QED
    BY <2>1 DEF RecoveryInv, TypeOK
<1>2. QueueInv'
  BY DEF RecoveryInv, QueueInv
<1>3. ScanInv(s)'
  <2>1. owed'[s] \subseteq NullIn(Recognised)'
    BY NullStays
  <2>2. QED
    BY <2>1 DEF ScanInv, TableOfChunk
<1>4. \A u \in Scans : u # s => ScanInv(u)'
  BY OtherScan DEF RecoveryInv
<1>5. QED
  BY <1>1, <1>2, <1>3, <1>4 DEF RecoveryInv

\* What a scan and the trigger look like before a step.
LEMMA ScanTyped ==
  ASSUME RecoveryInv, NEW s \in Scans
  PROVE  /\ spc \in [Scans -> {"idle", "scan", "done"}]
         /\ left \in [Scans -> SUBSET Tables] /\ left[s] \subseteq Tables
         /\ found \in [Scans -> SUBSET (SUBSET Chunks)] /\ found[s] \subseteq SUBSET Chunks
         /\ owed \in [Scans -> SUBSET Chunks] /\ owed[s] \subseteq Chunks
         /\ queue \in Seq(SUBSET Chunks) /\ tasks \subseteq Groups
         /\ tpc \in {"off", "due", "posted", "interval", "retry"} /\ tcall \in Scans \cup {NoScan}
         /\ tpc = "posted" <=> tcall # NoScan
         /\ troubles \in 0..MaxTroubles
         /\ ScanInv(s)
BY DEF RecoveryInv, TypeOK

\* A table is read, whatever happened since it was listed: each chunk owed a task
\* that is in it has no vector, so it is in one of the tasks found.
LEMMA ReadTableStep ==
  ASSUME RecoveryInv, NEW s \in Scans, NEW t, ReadTable(s, t)
  PROVE  RecoveryInv'
<1> DEFINE F == IF Parses(t) THEN Missing(t) ELSE {}
           T == left[s] \ {t}
<1>1. /\ spc[s] = "scan" /\ found[s] = {}
      /\ left' = [left EXCEPT ![s] = T] /\ found' = [found EXCEPT ![s] = F]
      /\ UNCHANGED <<row, tasks, events, queue, held, spc, owed, tpc, tcall, troubles>>
  BY DEF ReadTable, pipeline, trigger
<1>2. F \in SUBSET (SUBSET Chunks)
  BY MissingType
<1>3. ScanInv(s) /\ left[s] \subseteq Tables
  BY DEF RecoveryInv, TypeOK
<1>4. \A c \in owed[s] : TableOfChunk(c) \in T \/ \E m \in F : c \in m
  <2>1. SUFFICES ASSUME NEW c \in owed[s], TableOfChunk(c) = t
                 PROVE  \E m \in F : c \in m
    BY <1>1, <1>3 DEF ScanInv
  <2>2. c \in NullIn(Recognised) /\ Parses(t)
    BY <1>3, <2>1 DEF ScanInv, NullIn, Parses
  <2>3. QED
    BY <2>1, <2>2, NullIsMissing
<1>5. T \in SUBSET Tables
  BY <1>3
<1> HIDE DEF F, T
<1>6. /\ left' \in [Scans -> SUBSET Tables] /\ found' \in [Scans -> SUBSET (SUBSET Chunks)]
      /\ left'[s] = T /\ found'[s] = F
      /\ \A u \in Scans : u # s => left'[u] = left[u] /\ found'[u] = found[u]
  BY <1>1, <1>2, <1>5, ScanTyped
<1>7. QED
  BY <1>1, <1>3, <1>4, <1>6, ScanMoves, ScanTyped DEF ScanInv

\* A task found is published: its chunks are owed nothing any more.
LEMMA PublishStep ==
  ASSUME RecoveryInv, NEW s \in Scans, NEW m \in found[s], PublishTask(s, m)
  PROVE  RecoveryInv'
<1>1. /\ spc[s] = "scan" /\ Publish(m)
      /\ found' = [found EXCEPT ![s] = @ \ {m}] /\ owed' = [owed EXCEPT ![s] = @ \ m]
      /\ UNCHANGED <<row, tasks, events, held, spc, left, tpc, tcall, troubles>>
  BY DEF PublishTask, trigger
<1>2. m \in SUBSET Chunks /\ ScanInv(s)
  BY ScanTyped
<1>3. queue' \in Seq(SUBSET Chunks) /\ Len(queue') <= MaxQueue
  BY <1>1, <1>2, PublishFits
<1>4. /\ found' \in [Scans -> SUBSET (SUBSET Chunks)] /\ owed' \in [Scans -> SUBSET Chunks]
      /\ found'[s] = found[s] \ {m} /\ owed'[s] = owed[s] \ m
      /\ \A u \in Scans : u # s => found'[u] = found[u] /\ owed'[u] = owed[u]
  BY <1>1, ScanTyped
<1>5. /\ owed'[s] \subseteq NullIn(Recognised)
      /\ \A c \in owed'[s] : TableOfChunk(c) \in left[s] \/ \E k \in found'[s] : c \in k
  BY <1>2, <1>4 DEF ScanInv
<1>6. QED
  BY <1>1, <1>3, <1>4, <1>5, ScanMoves, ScanTyped

\* A scan ends with every table read and every task published.
LEMMA ScanDoneStep ==
  ASSUME RecoveryInv, NEW s \in Scans, ScanDone(s)
  PROVE  RecoveryInv'
<1>1. /\ left[s] = {} /\ found[s] = {}
      /\ spc' = [spc EXCEPT ![s] = "done"]
      /\ UNCHANGED <<row, tasks, events, queue, held, left, found, owed, tpc, tcall, troubles>>
  BY DEF ScanDone, pipeline, trigger
<1>2. spc' \in [Scans -> {"idle", "scan", "done"}] /\ \A u \in Scans : u # s => spc'[u] = spc[u]
  BY <1>1, ScanTyped
<1>3. /\ owed[s] \subseteq NullIn(Recognised)
      /\ \A c \in owed[s] : TableOfChunk(c) \in left[s] \/ \E m \in found[s] : c \in m
  BY ScanTyped DEF ScanInv
<1>4. QED
  BY <1>1, <1>2, <1>3, ScanMoves, ScanTyped

\* Reply, ScanFails
LEMMA ClearedStep ==
  ASSUME RecoveryInv, NEW s \in Scans, Reply(s) \/ ScanFails(s)
  PROVE  RecoveryInv'
<1>1. /\ spc' = [spc EXCEPT ![s] = "idle"] /\ left' = [left EXCEPT ![s] = {}]
      /\ found' = [found EXCEPT ![s] = {}] /\ owed' = [owed EXCEPT ![s] = {}]
      /\ UNCHANGED <<row, tasks, events, queue, held>>
  BY DEF Reply, ScanFails, Cleared, pipeline
<1>2. troubles' \in 0..MaxTroubles
  BY TroubleBounded, ScanTyped DEF Reply, ScanFails
<1>3. /\ tpc' \in {"off", "due", "posted", "interval", "retry"}
      /\ tcall' \in Scans \cup {NoScan}
      /\ tpc' = "posted" <=> tcall' # NoScan
  BY ScanTyped DEF Reply, ScanFails, Heard, trigger
<1>4. /\ spc' \in [Scans -> {"idle", "scan", "done"}] /\ left' \in [Scans -> SUBSET Tables]
      /\ found' \in [Scans -> SUBSET (SUBSET Chunks)] /\ owed' \in [Scans -> SUBSET Chunks]
  BY <1>1, ScanTyped
<1>5. /\ spc'[s] = "idle" /\ owed'[s] = {}
      /\ \A u \in Scans : u # s =>
           spc'[u] = spc[u] /\ left'[u] = left[u] /\ found'[u] = found[u] /\ owed'[u] = owed[u]
  BY <1>1, ScanTyped
<1>6. QED
  BY <1>1, <1>2, <1>3, <1>4, <1>5, ScanMoves, ScanTyped

\* A scan starts, for the trigger or by hand: it owes a task to every chunk of a
\* configured model without a vector, and their tables are all in the listing.
LEMMA StartsStep ==
  ASSUME RecoveryInv, NEW s \in Scans,
         TriggerOnce(s) \/ CallRequeueEmbeddings(s) \/ CallRequeueChunks(s)
  PROVE  RecoveryInv'
<1>1. /\ spc' = [spc EXCEPT ![s] = "scan"]
      /\ left' = [left EXCEPT ![s] = ListChunkTables]
      /\ found' = [found EXCEPT ![s] = {}]
      /\ owed' = [owed EXCEPT ![s] = NullIn(Recognised)]
      /\ UNCHANGED <<row, events, queue, held>>
  BY DEF TriggerOnce, CallRequeueEmbeddings, CallRequeueChunks, Starts, pipeline
<1>2. tasks' \subseteq Groups
  BY RecoveryAssumption, ScanTyped
     DEF TriggerOnce, CallRequeueEmbeddings, CallRequeueChunks, pipeline, PostsWithSummary
<1>3. /\ tpc' \in {"off", "due", "posted", "interval", "retry"}
      /\ tcall' \in Scans \cup {NoScan}
      /\ tpc' = "posted" <=> tcall' # NoScan
  BY RecoveryAssumption, ScanTyped
     DEF TriggerOnce, CallRequeueEmbeddings, CallRequeueChunks, trigger
<1>4. troubles' \in 0..MaxTroubles
  BY TroubleBounded, ScanTyped DEF TriggerOnce, CallRequeueEmbeddings, CallRequeueChunks
<1>5. ListChunkTables \in SUBSET Tables /\ NullIn(Recognised) \in SUBSET Chunks
  BY DEF ListChunkTables, NullIn, Null
<1>6. \A c \in NullIn(Recognised) : TableOfChunk(c) \in ListChunkTables
  BY NullIsListed
<1>7. /\ spc' \in [Scans -> {"idle", "scan", "done"}] /\ left' \in [Scans -> SUBSET Tables]
      /\ found' \in [Scans -> SUBSET (SUBSET Chunks)] /\ owed' \in [Scans -> SUBSET Chunks]
  BY <1>1, <1>5, ScanTyped
<1>8. /\ spc'[s] = "scan" /\ left'[s] = ListChunkTables /\ owed'[s] = NullIn(Recognised)
      /\ \A u \in Scans : u # s =>
           spc'[u] = spc[u] /\ left'[u] = left[u] /\ found'[u] = found[u] /\ owed'[u] = owed[u]
  BY <1>1, ScanTyped
<1>9. QED
  BY <1>1, <1>2, <1>3, <1>4, <1>6, <1>7, <1>8, ScanMoves, ScanTyped

\* The trigger waits, fails, comes or goes, or an endpoint fails early: no scan moves.
LEMMA CallerStep ==
  ASSUME RecoveryInv, TriggerWakes \/ TriggerFails \/ EmbedderStarts \/ EmbedderStops
         \/ CallRequeueChunksFails
  PROVE  RecoveryInv'
<1> USE RecoveryAssumption
<1>1. /\ UNCHANGED <<row, events, queue, held, spc, left, found, owed>>
      /\ troubles' \in 0..MaxTroubles
  BY TroubleBounded DEF TriggerWakes, TriggerFails, EmbedderStarts, EmbedderStops,
     CallRequeueChunksFails, pipeline, scan,
     RecoveryInv, TypeOK
<1>2. tasks' \subseteq Groups
  BY DEF TriggerWakes, TriggerFails, EmbedderStarts, EmbedderStops,
     CallRequeueChunksFails, pipeline, PostsWithSummary,
     RecoveryInv, TypeOK
<1>3. /\ tpc' \in {"off", "due", "posted", "interval", "retry"}
      /\ tcall' \in Scans \cup {NoScan}
      /\ tpc' = "posted" <=> tcall' # NoScan
  BY DEF TriggerWakes, TriggerFails, EmbedderStarts, EmbedderStops,
     CallRequeueChunksFails, trigger, RecoveryInv, TypeOK
<1>4. TypeOK'
  BY <1>1, <1>2, <1>3 DEF RecoveryInv, TypeOK
<1>5. QueueInv' /\ \A s \in Scans : ScanInv(s)'
  BY <1>1, OtherScan DEF RecoveryInv, QueueInv
<1>6. QED
  BY <1>4, <1>5 DEF RecoveryInv

\* No step breaks the invariant.
LEMMA RecoveryStep ==
  ASSUME RecoveryInv, [Next]_vars
  PROVE  RecoveryInv'
<1>1. ASSUME NEW g \in Groups,
             \/ ChunkPost(g) \/ Dispatch(g)
             \/ ChunkPostDies(g) \/ ChunkPostFails(g) \/ DispatchFails(g)
      PROVE  RecoveryInv'
  BY <1>1, IngestStep
<1>2. CASE Worker \/ EmbedFails \/ WorkerDies \/ BrokerRestarts \/ RecreateQueue
  BY <1>2, WorkerStep DEF Worker
<1>3. ASSUME NEW s \in Scans, ScanStep(s) \/ ScanFails(s) PROVE RecoveryInv'
  BY <1>3, ReadTableStep, PublishStep, ScanDoneStep, ClearedStep DEF ScanStep
<1>4. ASSUME NEW s \in Scans,
             CallRequeueEmbeddings(s) \/ CallRequeueChunks(s) \/ TriggerOnce(s)
      PROVE  RecoveryInv'
  BY <1>4, StartsStep
<1>5. CASE TriggerWakes \/ TriggerFails \/ EmbedderStarts \/ EmbedderStops
         \/ CallRequeueChunksFails
  BY <1>5, CallerStep
<1>6. CASE UNCHANGED vars
  BY <1>6, OtherScan DEF vars, pipeline, scan, trigger, RecoveryInv, TypeOK, QueueInv
<1>7. QED
  BY <1>1, <1>2, <1>3, <1>4, <1>5, <1>6 DEF Next, Ingest, Trigger

-----------------------------------------------------------------------------
(* The theorems. *)

\* The invariant holds of every reachable state.
THEOREM RecoveryInvariant == Spec => []RecoveryInv
<1>1. Init => RecoveryInv
  BY RecoveryInit
<1>2. RecoveryInv /\ [Next]_vars => RecoveryInv'
  BY RecoveryStep
<1>3. QED
  BY <1>1, <1>2, PTL DEF Spec

\* Every variable keeps its type, the queue its bound, and the trigger waits exactly
\* when it has a call outstanding.
THEOREM RecoveryTypeCorrect == Spec => []TypeOK
<1>1. RecoveryInv => TypeOK
  BY DEF RecoveryInv
<1>2. QED
  BY <1>1, RecoveryInvariant, PTL

\* requeue_missing_embeddings, run to its end, has published a task for every chunk
\* of a configured model that had no vector when it started and has none yet,
\* however many scans run at once and whatever rows and tables appear meanwhile.
THEOREM ScansFindAll == Spec => []ScanFindsAll
<1>1. RecoveryInv => ScanFindsAll
  BY DEF RecoveryInv, ScanInv, ScanFindsAll
<1>2. QED
  BY <1>1, RecoveryInvariant, PTL

=============================================================================
