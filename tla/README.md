# TLA+ verification of the event-driven RAG pipeline

This directory models the control of the pipeline in `src/`: how posts become
chunks, chunks become vectors, and search jobs become results, across an event
log in Postgres, queues in RabbitMQ and several worker processes. TLC checks
small instances; TLAPS proves every safety property that those runs check, and the
refinement, for every instance.

## The system

| Part | State | Operations | Interacts through |
|---|---|---|---|
| Sync API (`api/sync.py`, `post_repository.py`) | `posts_*` rows | fetch, upsert by `updated_at`, publish | `post.synced` |
| Search API (`api/search.py`) | `search_jobs` rows | create a job, publish; GET reads | `search_job.created` |
| Event bus (`infrastructure/event_bus.py`) | `event_log`, `consumer_offsets` | `publish`, `subscribe` | polled by the dispatchers |
| Dispatchers (`dispatchers/`) | none but the offset | one event in, tasks out | RabbitMQ |
| Chunk worker (`cpu_worker.py`, `chunk_handler.py`) | chunk tables | split, deduplicate, insert | `chunks.created` |
| Search and finalize workers (`cpu_search_*`) | job status | nearest neighbours, hydrate | `search_candidates.retrieved`, `search_job.completed` |
| GPU worker (`gpu_worker.py`, `embed_handler.py`, `rerank_handler.py`) | the loaded model, a batch | embed chunks and queries, rerank | `embedding.completed`, `search_query.embedded` |
| Remote embedder (`remote_embedder_service/`) | one resident model | load, evict, encode, rerank, reap | HTTP |
| Remote/local fallback (`remote_embedding.py`, `reranking.py`, `local_run_guard.py`) | marker files, clients | pick a backend per batch | called by the GPU worker |
| Maintenance (`requeue_service.py`, `chunk_backfill_service.py`, `backfill.py` of the embedder) | none | scan, publish what is missing; called by hand or by a timer | HTTP, RabbitMQ |
| Chunking strategies (`chunk_strategies.py`) | none | cut a text into chunks | called by the chunk worker |
| Task queue topology (`task_queue.py`) | exchanges, queues, DLQs | declare at start | RabbitMQ |
| Folder suggestion, similar posts, folder and highlight sync, UI | rows | mostly single statements | HTTP |

What makes it hard:

* nothing is transactional across Postgres and RabbitMQ: every "write, then
  publish" pair can be cut by a crash;
* events are consumed **at most once** (the offset is committed before the event
  is handled) while queue messages are delivered **at least once**
  (acknowledged after the handler);
* requests, dispatchers and workers run concurrently and read rows they later
  assume unchanged;
* three CPU workers share one asyncio loop from three threads;
* the GPU worker settles a whole batch at the end and switches models between
  batches;
* a chunk task names a post, not a revision;
* the remote embedder keeps one model for all its clients behind one lock, and a
  client that gives up on a call does not stop it;
* a model that does not fit into the container kills the process that would have
  to remember it;
* messages are not persistent, so maintenance scans are what makes the pipeline
  complete, and they run while everything else does;
* chunk limits are in words, the cutting loop works in characters.

`PROJECT.json` lists these hazards with their lines and the properties that watch
them.

## The modules

`EventBus` — `PostgresEventBus`. `publish` is an insert (an id is drawn) and a
commit (the row becomes visible), because rows may become visible in another
order than their ids. A consumer walks `poll → select → rows → yield → handler`,
one step per awaited statement. `delivered`, `handled` and `overtaken` are
history. An event's payload is its id.

`SearchPipeline` — a search job from `POST /search` to its result. `log` and
`queue` count events and messages per job; each worker has a step (`pc`), a
message and the list `done` of handled messages it has not settled. `Deliver`
carries the rule that a CPU worker whose loop is taken by another thread rejects
its message at once. A row keeps its status, whether a vector is stored, the kind
of results and the error code; vectors and texts are left out. Consumption of an
event and its loss in a crash (`DispatcherCrash`) are what `EventBus` shows for
one consumer. The except clauses are `OnFault`: which statement's exception fails
the job and which only rejects the message.

`EmbedWorker` — `GpuEmbedWorker._run_inner` with `EmbedHandler.embed_chunks`. A
message is identified with its task and the task with its chunks. The locals of
the code (`batch`, `triples`, `fetch_failed`, the two outcome lists) are
variables. `EncodeUnavailable` is the branch that acknowledges because no backend
is there.

`Ingest` — one post from `POST /sync` to its chunk rows. Requests take four steps
(`FetchExisting`, `SelectUpdatedAt`, `Upsert`, `PublishSynced`), PostDispatcher
publishes the kinds an event calls for one after the other, and a worker fetches,
reads the known hashes, inserts, announces and acknowledges. A text is the list of
windows it is split into, in which a window may come twice: the handler compares
windows with the stored hashes and never with each other. A chunk table is the list of
its inserts, each with the worker that made it and its rows. `raced` and `lost` record
the two ways a change is hidden by a race or dropped by a failure. `Loads` says which
requests are sent and which workers run; everything else is "never" or "off" for good.

`EventStream` — abstract: what the bus promises a subscription. A claim passes
over late events only, a delivery follows its claim and may never come. `EventBus`
implements it: `ImplementsStream` maps `log` to the committed ids of a topic, `late`
to `overtaken` and `claimed` to the stored offset, and leaves out publishers,
batches, consumers and crashes. It states how an event can be missed: by a crash
after its claim, or by being committed after a higher id of its topic.

`ModelManager` — the remote embedder: `ModelManager` of `manager.py` and the routes
of `app.py`. A slot is a thread of the server with one request; `lock`, `model_id`,
`model`, `quantized` are the attributes of the class, `idle` says that the clock has
reached the reaper's threshold. A request waits, takes the lock, finds its model or
evicts the other one (`Evict`), loads, computes text by text and answers. The load
route reads the applied precision without the lock, in two steps (`ReportFlag`,
`ReportLabel`). The loader falls back to full precision by itself (`Loader`).
`encode` and `rerank` load at the registry's default precision, whatever a client
asked for before.

`EmbeddingFallback` — `FallbackEmbeddingModel`, `FallbackRerankModel`,
`LocalRunGuard` and the choice of legs in `gpu.py`, **composed** with `ModelManager`:
a call is a `Post` in one of its slots, an answer a `Collect`, and the service's own
steps (`Threads`, `Server!Service`) interleave with the worker's. A call that is
given up (`GiveUp`) stays in its slot. `running` and `blocked` are the marker files,
`active` the memory of the process; a death (`OutOfMemory`, `Crash`) keeps the files
and loses the memory, a recreated container (`Recreate`) loses both. A run of a local
model that is `Heavy` may exceed the memory limit, depending on the batch.

`Recovery` — from the chunk task to the vector, at the granularity of one task, with
a loss at every hop, and the requeue endpoints that repair it: a scan lists the
tables, reads one after the other and publishes one task per post
(`ListChunkTables`, `ReadTable`, `PublishTask`); `BackfillTrigger` of the embedder
calls it again and again and may give up on a call. There is a trigger only while the
remote embedder runs, and only if it is given the URL of the pipeline
(`EmbedderStarts`, `EmbedderStops`, `PipelineUrlSet`). `owed` is history: what a scan
still owes. `EmbedWorker` has the detail of a batch and `Ingest` that of a chunk
task; here a step of each is one action.

`ChunkBoundaries` — `chunk_at_boundaries`, one action per way the loop can go on
(`FinalChunk`, `CutAtBreak`, `CutHard`, `IndexError`). A character is its class, a chunk
the two intervals it is made of (repeated words, own words); averages are
exact fractions, truncated where the code calls `int()`. When the repeated words are
more than the hard limit, the limit in characters is negative and the loop goes back:
the cursor may become negative, and slices and indices then count from the end of the
text (`Bound`, `At`) as in Python.

`MC*` modules and `.cfg` files give the small instances; `*Proofs` modules hold the
theorems.

Operators whose comment begins "Mutant of" are broken variants of the operator
that follows them. No specification uses them; they document which mistake each
property catches.

## The runs

| Run | Instance | Shows |
|---|---|---|
| `event_bus` | 2 topics, 1 consumer each, batch 2, 3 events, 1 crash | deliveries ascend, offsets never rewind, a crash costs at most the event in hand, every event is reached; the bus implements `EventStream` |
| `search_pipeline` | 2 jobs, GPU batch 2, 1 crash, 1 fault | completed jobs have results of the right kind, no search without a vector, no job forgotten |
| `search_progress` | 1 job, 2 crashes, 1 fault | every job comes to rest |
| `search_polling` | 1 job, no failure at all | **violated**: a polled job ends (the shared event loop) |
| `embed_worker` | 2 model queues, 5 tasks (one stale, one malformed), batch 2, 1 crash, 2 faults | one embedding space per table, acknowledged means done, announced means stored, everything but stale tasks is settled |
| `ingest` | 3 revisions of a post with 1 worker, 2 of them with 2 workers; 1 failure | the newest revision wins, the chunks follow the row, no worker stores a window in two inserts, the index catches up |
| `model_manager` | 2 threads, 3 requests, 2 models of two kinds and an unknown one, 1 fault, 1 restart | weights, id and flag agree; the model in use stays; answers are aligned and of the model named; every request is answered |
| `embedding_fallback` | 3 batches (a heavy embedder, an unlisted one, a reranker), 2 server threads, 1 trouble, 1 server restart | stored rows are those of the task's model; a guarded run that is killed happens once per container; nothing else blocks a model; every batch ends |
| `local_only` | 1 batch of a heavy model, no remote service | **violated**: a run that is killed is not started again |
| `recovery` | 3 chunks in 2 tables, 2 scans, queue of 1, 2 troubles | a scan that succeeds has published all it found missing; where the remote embedder with its trigger stays on, every stored chunk of a configured model is embedded |
| `chunk_boundaries` | all texts of up to 6 characters, sequences of up to 5 tokens, rows of even words, short words before a long one; 4 configurations | no letter lost, however the loop moves; when it goes back, and that no letter is cut twice before; the limit holds for even texts |
| `chunk_hard_limit` | the same | **violated**: a chunk never exceeds `hard_limit` words |

Three runs are expected to be violated: each states a sentence of the repository
that the code does not keep, quoted in `PROJECT.json` under `findings`. The shared
event loop dead-letters healthy search tasks; without a remote service the run guard
is never used; and the average word length of the whole remainder lets a text that
begins with short words put too many of them into a chunk.

### Other disagreements met while modelling

The models have these behaviours; no run checks them by themselves.

* `event_bus.py:144` promises at-least-once delivery, but the offset is committed
  before the event is yielded (line 182): at most once. `CrashLosesAtMostOne` and
  `EventStream` state what does hold.
* `docs/Architecture.md:289` says that dispatcher instances of a group share the
  work; two of them yield the same events, since the offset is read without a lock.
* `search_job_repository.py:3` gives a status progression that a redelivered message
  reverses (`mark_searching` writes whatever the status was). `NeverForgotten` and
  `EventuallySettled` hold all the same.
* `docs/RemoteEmbedding.md:148` says a search hears of a query that cannot be
  embedded; `embed_query` only rejects the message and the job stays `embedding`.
* a stale task in a batch with live ones is neither acknowledged nor rejected
  (`embed_handler.py:324`), against the contract in `base_worker.py:18`;
  `BatchInvariant` says that no other message is.
* chunks stored just before a crash are never announced (`chunk_handler.py:285`),
  because the redelivered task takes them for known. The scan that `BackfillTrigger`
  calls finds them, but there is a trigger only where `PIPELINE_URL` is set
  (`backfill.py:54`; it is empty by default, `config.py:64`); without it an operator has
  to call the endpoint.
* a window that a text has twice is stored twice and embedded twice, by one insert
  (`chunk_handler.py:268`), and two workers with tasks of the same post each store its
  windows when both read the hashes before either inserts. `StoredOncePerWorker` says
  that it never comes to more.
* `chunk_at_boundaries` goes back when the repeated words alone exceed `hard_limit`
  (`chunk_strategies.py:196`): it emits the repeated words as a chunk and cuts text
  again. With the shipped body configuration (400/480/0.10), 5000 one-letter words before
  5000 words of 38 letters do so; before a single word of 200000 letters instead, the
  cursor leaves the text at its beginning and `text[end - 1]` raises IndexError, which
  rejects the task. In the small configurations of the run a few texts are cut for ever.
  Termination is therefore not claimed; `NothingLost`, `CutOnce` and `StallsOnlyWhenFull`
  state what does hold.
* `app.py:260` says the load answer reports what was actually applied; it reports
  what was wanted (`_quantized = want_quant`, `manager.py:426`), also when the loader
  fell back to full precision.
* the requeue service refers to a deduplication by text hash in the worker; there is
  none, so a chunk requeued while in flight is embedded and announced twice.
  `requeue-missing-chunks` repairs summary titles only.

### Bounds and why they are enough

Events, crashes, faults, failures and requests are bounded by constants that appear
in the guards (`MaxEvents`, `MaxCrashes`, `MaxFaults`, `MaxFailures`, `MaxRequests`,
`MaxStops`, `MaxTroubles`, `MaxQueue`, `MaxChunks`); `MaxKills` is where a history counter stops.

* `event_bus`: with three events over two topics there are gaps (other topics' ids
  and aborted inserts), full and partial batches, and commits out of order. Two
  topics matter because both offsets live in one table.
* `search_pipeline`: two jobs share queues, GPU batches and the loop; a job never
  reads another's row, so a third adds only waiting. Two crashes and a fault for one
  job (`search_progress`) reach a redelivery during a redelivery and a fault of the
  error path. Jobs are interchangeable, which `Symmetry` uses in the run without
  liveness.
* `embed_worker`: batches of two with five tasks give full, partial and mixed
  batches, a batch whose two live tasks fare differently, and a switch of models.
  Two faults let one batch lose a task to a failed fetch and then its embedder; the
  crash redelivers a batch at any of its steps.
* `ingest`: three revisions are the fewest with which a race hides a change (a text
  is replaced and restored while a request still compares with the first row). One
  window is shared between revisions so that deduplication is partial, and the body has a
  window twice. With two workers, two revisions are enough for two tasks of one kind
  that overlap, and the failure for one of them to be delivered again to either worker.
* `model_manager`: one lock, so two threads meet everywhere; three requests let a
  request follow on a reload that another one caused while it waited.
* `embedding_fallback`: the bound of ten requests is never reached (twelve give the
  same states). One trouble next to a restart of the server gives a given-up call
  that still holds the service when the same batch is delivered again.
* `recovery`: two scans overlap with each other and with a table that appears
  meanwhile; a queue of one makes a scan wait between two publications; two troubles
  lose a task, and then its repair, or stop the embedder in the middle of a call.
* `chunk_boundaries`: the literals of the code are scaled down with its limits: 10
  words of least target to `MinTarget = 2`, 30 characters of least slack to
  `MinSlack = 1`, targets of 400 words to 2 or 3; the tolerance of a fifth is exact.
  The two rulers of the marker hierarchy behave as the markers that are kept.
  `MaxChunks` is 12 because texts that are cut in finite time give at most 9 chunks here:
  only the endless ones meet the bound. The
  translation was compared with the Python function (its literals scaled in the same way)
  on all texts of the run, going back, IndexErrors and endless loops included, and gave the
  same steps; the violation was reproduced with the real configuration of
  400/480 words: 600 short words followed by 4000 letters make one chunk of 600
  words.

The theorems below hold without any of these bounds on the number of parts.

`CHECK_DEADLOCK FALSE` is set where the system may rest: `EmbedWorker`, `Ingest` and
`EmbeddingFallback` stop when all tasks or requests are handled, `ModelManager` when
its clients are served, `ChunkBoundaries` when the text is cut, the code raises
or `MaxChunks` is reached.

### Fairness

Weak fairness is assumed of the steps of the dispatchers, workers, server threads and
accepted requests: every service has `restart: unless-stopped` in
`docker-compose.yml`, each loop polls with a timer and reconnects, and every call in a
handler returns, raises or times out. `EmbeddingFallback` needs only that the worker and
the server's threads do not stop together. `Recovery` needs the GPU worker, and that of
ingestion, the trigger and the scans not all stop. The remote embedder with the trigger
runs on a PC outside `docker-compose.yml`, which nothing restarts, and has no trigger
unless `PIPELINE_URL` is set. Nothing is assumed of that: `EveryChunkEmbedded` speaks of
behaviours in which it stays on from some time on. `IndexCatchesUp` needs a worker that
runs, as both loads of the run have. Nothing is assumed of clients, publishers, crashes or
faults. No strong fairness is used.

## What is proved

`EventBusProofs` — under `BusAssumption` and one consumer per subscription
(`SoleConsumer`), for any topics, groups, batch size and bounds:
`TypeCorrect`, `InOrder` (`DeliveredInOrder`), `OffsetMonotone`
(`OffsetNeverRewinds`), `LossBounded` (`CrashLosesAtMostOne`). Order needs an
invariant that relates a consumer's cursor, the rows it fetched, the row in hand
and the stored offset (`OrderInv`): the offset alone says nothing of rows fetched
before a crash of someone else. The loss bound needs in addition (`LossInv`) that
every id at or below the offset is handled, in hand, overtaken or paid for by a
crash.

`EmbedWorkerProofs` — under `WorkerAssumption`, for any tasks, models and batch
size: `TypeCorrect`, `BatchSound`, and from it `SpacesApart`, `StoredFirst`,
`AckSound`. `BatchInvariant` is the inductive invariant: at each
step it says which messages of the batch are fetched, encoded, saved and announced,
that the loaded model is the polled queue's while a batch is handled, and that the
outcome lists leave out stale tasks only. TLC checks it too.

`IngestProofs` — under `IngestAssumption`, for any number of requests, revisions,
windows, workers and failures: `TypeCorrect`, `NewestRevisionWins`,
`IndexFollowsRow`, `StoredOnce` (`StoredOncePerWorker`). `CurrentTextIsChunked` is
inductive with `TypeOK` as it stands, because `Pending` names exactly the states
from which the text will still be stored; the heart is `UnnamedIsUnchanged`: a kind
of chunk that an event does not name has the text it had in the row the request
compared with. `StoredOnce` needs that what a worker is about to insert, it has not
inserted before (`OwnIsNew`): after it read the hashes only others insert, and that what it
inserts was not there when it read them would say nothing of their rows.

`BusImplementsStream` is the refinement of `EventStream`, under `SoleConsumer` too. A
commit is an `AppendEvent` because ids are unique (`UniqueInv`); storing an offset is a
`Claim` because, by `OrderInv` and `LossInv`, whatever lies between the old offset and
the row in hand is overtaken; a yield is a `Deliver` because the row in hand is the
claimed one; everything else stutters.

`SearchPipelineProofs` — under `SearchAssumption`, for any jobs, workers, GPU batch,
crashes and faults: `SearchTypeCorrect`, `VectorBeforeRun`, `ResultsBeforeCompletion`,
`NoJobForgotten`. None of the properties is inductive. `SearchInv` ties the step of a
worker to its message and its batch (`WorkerInv`), says that the vector is there already
while its event is only about to be published (`EmbeddedInv`), that a job is in one of
the two result branches and nowhere in the other (`KindInv`), that nothing is known of a
job before its request (`IdleInv`), and who carries a job once the handlers that have
nothing left to do are not counted (`CarriedInv`): a crash of such a handler must not be
needed to bring the job back.

`ModelManagerProofs` — under `ManagerAssumption`, for any registry, threads, texts,
requests, faults and restarts: `TypeCorrect`, `ResidentConsistent`, `InUseStays`,
`AnswersAligned`. `ManagerInv` says that a thread is in a step of `Holding` exactly when it
has the lock, that a loader starts from nothing, and that what is computed so far is a
prefix of the aligned rows of the resident model.

`EmbeddingFallbackProofs` — under `FallbackAssumption` and `ServiceAssumption` (what
`ModelManager` assumes, of the constants of the composition): `FallbackTypeCorrect`,
`RowsAreOwn`, `BlockedAfterDeath`, `GuardedKilledOnce` and `KilledOnce`. `FallbackInv`
contains `ManagerInv`, and the steps of the service are proved to keep it by the lemmas of
`ModelManagerProofs`; `CallInv` ties the slot that the worker waits for to its own
request, which is why an answer of a call given up is never taken for it; `GuardInv` says
what the marker files mean after a death. The guard watches over `Guarded` models only:
embedders with a remote leg, and models without a local one. Rerankers and models without
a remote leg run directly and may die again, by memory (`local_only`) or by any second
crash, so `KilledAtMostOnce` is proved (`KilledOnce`) where all models are guarded.

`RecoveryProofs` — under `RecoveryAssumption`, for any chunks, tables, scans and queue
length: `RecoveryTypeCorrect`, `ScansFindAll`. `ScanInv` says that a chunk a scan owes is
without a vector and in a table still to be read or in a task still to be published.

`ChunkBoundariesProofs` — under `ChunkAssumption`, for any text, configuration, markers and
tolerance: `ChunkTypeCorrect`, `NothingIsLost`, `NothingCutTwice` (`CutOnce`),
`StallOnlyFull`, `EvenWithinLimit`. The
assumption on the literals is that the window starts a character after the cursor: 80 % of
the least target of 10 words is at least one word. `ChunkInv` adds that the loop runs only
while there is text and that a previous chunk that is not empty has a word (or the search
for its last words would find none). That nothing is lost needs no order: a step forward
covers what it passes (`StripSlice`), and a step back uncovers nothing. Order is `OrderInv`:
the chunks lie before the cursor as long as no prefix has filled the hard limit. Progress
rests on three facts: words take at least a character each (`CharsAtLeast`), so a break
found is ahead of the cursor (`BreakAhead`), and so is a hard split unless the repeated
words fill the limit (`HardAhead`, `CutAhead`). For even texts, `EvenInv` adds that the cursor is
where a word begins or ends: only then is the average of the remaining words the period of
the text (`EvenWords`, `AverageReach`). The attempt showed that `Even` has to exclude
markers inside words and a shorter last word: with words such as `wwwwwwww.w` a cut within
a word lowers the average and the next chunk exceeds the limit, in texts longer than those
of the run.

Only model-checked: the liveness properties (`EventuallyReached`, `EventuallySettled`,
`IndexCatchesUp`, `EveryRequestAnswered`, `EveryBatchEnds`, `EveryChunkEmbedded`), since
fairness is out of the prover's reach, and the three violations.

## What is not modelled

* `RedpandaEventBus`: its group protocol is the broker's, and no deployment uses it.
* The rerank probe: it caches an answer that decides one default; `SearchPipeline` lets
  the reranker be gone afterwards.
* Folder suggestion, similar posts, ranking arithmetic: floating-point computation
  within one request.
* Folder, highlight and legacy sync: single statements and conditional upserts of
  the form `Ingest` has for posts.
* The declaration of exchanges and queues, apart from the deletion of a stale queue
  (in `Recovery`): idempotent calls and a comparison of constants at start.
* `SplitTextAtIndexStrategy` (no caller), `start_offset` (no configuration sets it)
  and the character splitter (blank texts only) of the chunking strategies.
* The IO worker (a stub), configuration, schemas, tracing, metrics and the UI: no
  state the properties depend on.

## Plan

Every module is built and every safety property of the passing runs is proved. Left for
later, by value:

1. theorems for what a hypothesis leaves out: what two consumers of one
   subscription (`SoleConsumer`) still guarantee;
2. action properties of modules that have invariants only, such as that a row's vector or
   a job's results, once stored, stay;
3. the measures behind the liveness properties, as far as single steps show them: which
   quantity each step of a loop makes smaller.
