------------------------------ MODULE EventBus ------------------------------
(***************************************************************************)
(* PostgresEventBus: an append-only event_log table with an identity       *)
(* column, and a consumer_offsets table holding one read position per      *)
(* (consumer group, topic).  Publishers insert rows; subscribers poll.     *)
(*                                                                         *)
(* Every awaited statement is a step of its own.  publish is two steps,    *)
(* because the identity value is drawn when the INSERT executes and the    *)
(* row becomes visible when it commits: publishers of several processes    *)
(* may commit in another order than the order of their ids.                *)
(*                                                                         *)
(* An event's payload is identified with its row id.                       *)
(***************************************************************************)
EXTENDS Integers, FiniteSets, FiniteSetsExt, Sequences

CONSTANTS
    Topics,         \* the topics of the log
    Groups,         \* the consumer groups
    Consumers,      \* running subscribe() generators
    Subscription,   \* the (group, topic) each consumer subscribes with
    BatchSize,      \* PostgresEventBus.BATCH_SIZE
    MaxEvents,      \* bound: identity values drawn
    MaxCrashes      \* bound: crashes of consumers

ASSUME BusAssumption ==
    /\ Subscription \in [Consumers -> Groups \X Topics]
    /\ BatchSize \in Nat \ {0}
    /\ MaxEvents \in Nat
    /\ MaxCrashes \in Nat

VARIABLES
    identity,       \* the identity column's last drawn value
    inserting,      \* rows whose INSERT has executed and not yet committed
    event_log,      \* committed rows
    last_id,        \* consumer_offsets.last_id, 0 for a missing row
    pc,             \* where each consumer is in the loop of subscribe
    cursor,         \* its local last_id
    rows,           \* its fetched ids still to be yielded
    current,        \* the id of its row in hand
    \* History, for the properties only:
    delivered,      \* per subscription, the ids yielded, in order
    handled,        \* per subscription, the ids whose handling completed
    overtaken,      \* ids committed after a higher id of their topic
    crashes         \* number of crashes so far

tables == <<identity, inserting, event_log, overtaken>>
locals == <<cursor, rows, current>>
history == <<delivered, handled, crashes>>
vars == <<identity, inserting, event_log, last_id, pc, cursor, rows, current,
          delivered, handled, overtaken, crashes>>

Subscriptions == Groups \X Topics
Row == [id : 1..MaxEvents, topic : Topics]
TopicOf(c) == Subscription[c][2]

\* The committed ids of a topic.
Ids(t) == {r.id : r \in {q \in event_log : q.topic = t}}

\* ORDER BY id ASC LIMIT n, as the set of the n smallest elements.
Smallest(n, S) == {x \in S : Cardinality({y \in S : y < x}) < n}

Init ==
    /\ identity = 0
    /\ inserting = {}
    /\ event_log = {}
    /\ last_id = [s \in Subscriptions |-> 0]
    /\ pc = [c \in Consumers |-> "down"]
    /\ cursor = [c \in Consumers |-> 0]
    /\ rows = [c \in Consumers |-> {}]
    /\ current = [c \in Consumers |-> 0]
    /\ delivered = [s \in Subscriptions |-> <<>>]
    /\ handled = [s \in Subscriptions |-> {}]
    /\ overtaken = {}
    /\ crashes = 0

-----------------------------------------------------------------------------
(* publish: one autocommitted INSERT. *)

PublishInsert(t) ==
    /\ identity < MaxEvents
    /\ identity' = identity + 1
    /\ inserting' = inserting \cup {[id |-> identity + 1, topic |-> t]}
    /\ UNCHANGED <<event_log, overtaken, last_id, pc, locals, history>>

PublishCommit(r) ==
    /\ r \in inserting
    /\ inserting' = inserting \ {r}
    /\ event_log' = event_log \cup {r}
    /\ overtaken' = overtaken \cup {i \in {r.id} : \E j \in Ids(r.topic) : j > i}
    /\ UNCHANGED <<identity, last_id, pc, locals, history>>

\* The connection breaks before the commit: publish raises, the id is burnt.
PublishAbort(r) ==
    /\ r \in inserting
    /\ inserting' = inserting \ {r}
    /\ UNCHANGED <<identity, event_log, overtaken, last_id, pc, locals, history>>

-----------------------------------------------------------------------------
(* subscribe: the generator's loop. *)

Subscribe(c) ==
    /\ pc[c] = "down"
    /\ pc' = [pc EXCEPT ![c] = "poll"]
    /\ UNCHANGED <<tables, last_id, locals, history>>

\* Create the offset row if it is missing and read the position.
ReadOffset(c) ==
    /\ pc[c] = "poll"
    /\ cursor' = [cursor EXCEPT ![c] = last_id[Subscription[c]]]
    /\ pc' = [pc EXCEPT ![c] = "select"]
    /\ UNCHANGED <<tables, last_id, rows, current, history>>

\* Mutants of Batch: id >= $2; ids taken to have no gaps; ORDER BY id DESC.
BatchInclusive(c) == Smallest(BatchSize, {i \in Ids(TopicOf(c)) : i >= cursor[c]})
BatchGapless(c) == {i \in Ids(TopicOf(c)) : i = cursor[c] + 1}
BatchNewestFirst(c) ==
    LET found == {i \in Ids(TopicOf(c)) : i > cursor[c]}
    IN  {x \in found : Cardinality({y \in found : y > x}) < BatchSize}

\* WHERE topic = $1 AND id > $2 ORDER BY id ASC LIMIT $3
Batch(c) == Smallest(BatchSize, {i \in Ids(TopicOf(c)) : i > cursor[c]})

\* Fetch a batch; an empty one sends the loop back to polling.
SelectRows(c) ==
    /\ pc[c] = "select"
    /\ rows' = [rows EXCEPT ![c] = Batch(c)]
    /\ pc' = [pc EXCEPT ![c] = IF Batch(c) = {} THEN "poll" ELSE "rows"]
    /\ UNCHANGED <<tables, last_id, cursor, current, history>>

\* Mutant of OffsetRows: the update forgets "AND topic = $3".
OffsetRowsAnyTopic(c) == {s \in Subscriptions : s[1] = Subscription[c][1]}

\* The consumer_offsets rows the UPDATE touches.
OffsetRows(c) == {Subscription[c]}

\* Mutant of CommitOffset: the position of the whole batch is committed first.
CommitOffsetOfBatch(c) ==
    /\ pc[c] = "rows"
    /\ rows[c] # {}
    /\ current' = [current EXCEPT ![c] = Min(rows[c])]
    /\ rows' = [rows EXCEPT ![c] = @ \ {Min(rows[c])}]
    /\ last_id' = [s \in Subscriptions |->
                      IF s \in OffsetRows(c) THEN Max(rows[c]) ELSE last_id[s]]
    /\ pc' = [pc EXCEPT ![c] = "yield"]
    /\ UNCHANGED <<tables, cursor, history>>

\* Mutant of CommitOffset: the position after the row is committed.
CommitOffsetPast(c) ==
    /\ pc[c] = "rows"
    /\ rows[c] # {}
    /\ current' = [current EXCEPT ![c] = Min(rows[c])]
    /\ rows' = [rows EXCEPT ![c] = @ \ {Min(rows[c])}]
    /\ last_id' = [s \in Subscriptions |->
                      IF s \in OffsetRows(c) THEN Min(rows[c]) + 1 ELSE last_id[s]]
    /\ pc' = [pc EXCEPT ![c] = "yield"]
    /\ UNCHANGED <<tables, cursor, history>>

\* The offset is committed before the row is yielded, whatever it was.
CommitOffset(c) ==
    /\ pc[c] = "rows"
    /\ rows[c] # {}
    /\ current' = [current EXCEPT ![c] = Min(rows[c])]
    /\ rows' = [rows EXCEPT ![c] = @ \ {Min(rows[c])}]
    /\ last_id' = [s \in Subscriptions |->
                      IF s \in OffsetRows(c) THEN Min(rows[c]) ELSE last_id[s]]
    /\ pc' = [pc EXCEPT ![c] = "yield"]
    /\ UNCHANGED <<tables, cursor, history>>

Yield(c) ==
    /\ pc[c] = "yield"
    /\ delivered' = [delivered EXCEPT ![Subscription[c]] = Append(@, current[c])]
    /\ pc' = [pc EXCEPT ![c] = "handler"]
    /\ UNCHANGED <<tables, last_id, locals, handled, crashes>>

\* The caller's handler returns and asks the generator for the next event.
Resume(c) ==
    /\ pc[c] = "handler"
    /\ handled' = [handled EXCEPT ![Subscription[c]] = @ \cup {current[c]}]
    /\ pc' = [pc EXCEPT ![c] = IF rows[c] = {} THEN "poll" ELSE "rows"]
    /\ UNCHANGED <<tables, last_id, locals, delivered, crashes>>

\* The process dies, its handler raises, or the caller leaves the generator.
Crash(c) ==
    /\ pc[c] # "down"
    /\ crashes < MaxCrashes
    /\ crashes' = crashes + 1
    /\ pc' = [pc EXCEPT ![c] = "down"]
    /\ cursor' = [cursor EXCEPT ![c] = 0]
    /\ rows' = [rows EXCEPT ![c] = {}]
    /\ current' = [current EXCEPT ![c] = 0]
    /\ UNCHANGED <<tables, last_id, delivered, handled>>

-----------------------------------------------------------------------------
Publish ==
    \/ \E t \in Topics : PublishInsert(t)
    \/ \E r \in inserting : PublishCommit(r)
    \/ \E r \in inserting : PublishAbort(r)

Consume(c) ==
    \/ Subscribe(c)
    \/ ReadOffset(c)
    \/ SelectRows(c)
    \/ CommitOffset(c)
    \/ Yield(c)
    \/ Resume(c)

Next ==
    \/ Publish
    \/ \E c \in Consumers : Consume(c) \/ Crash(c)

Spec == Init /\ [][Next]_vars

\* A dispatcher process is restarted when it exits, and its loop never blocks
\* for good: every consumer keeps taking steps.  Publishers owe nothing.
FairSpec == Spec /\ \A c \in Consumers : WF_vars(Consume(c))

-----------------------------------------------------------------------------
\* Every (group, topic) has at most one consumer, as in the deployment of one
\* dispatcher process.
SoleConsumer ==
    \A c, d \in Consumers : Subscription[c] = Subscription[d] => c = d

TypeOK ==
    /\ identity \in 0..MaxEvents
    /\ inserting \in SUBSET Row
    /\ event_log \in SUBSET Row
    /\ last_id \in [Subscriptions -> 0..MaxEvents]
    /\ pc \in [Consumers -> {"down", "poll", "select", "rows", "yield", "handler"}]
    /\ cursor \in [Consumers -> 0..MaxEvents]
    /\ rows \in [Consumers -> SUBSET (1..MaxEvents)]
    /\ current \in [Consumers -> 0..MaxEvents]
    /\ delivered \in [Subscriptions -> Seq(0..MaxEvents)]
    /\ handled \in [Subscriptions -> SUBSET (0..MaxEvents)]
    /\ overtaken \in SUBSET (1..MaxEvents)
    /\ crashes \in 0..MaxCrashes

\* subscribe yields a topic's events in the order of their ids and yields none
\* twice, whatever crashes and restarts happen: each delivery is of a higher id
\* than every delivery before it.
DeliveredInOrder ==
    \A s \in Subscriptions :
        \A i, j \in DOMAIN delivered[s] : i < j => delivered[s][i] < delivered[s][j]

InHand(s, i) ==
    \E c \in Consumers :
        Subscription[c] = s /\ pc[c] \in {"yield", "handler"} /\ current[c] = i

\* The events a subscription will never handle: the stored offset has passed
\* them, no handler finished with them, no consumer has them in hand.  Those
\* committed after a higher id of their topic are counted apart.
Skipped ==
    {p \in Subscriptions \X (1..MaxEvents) :
        /\ p[2] \in Ids(p[1][2]) \ overtaken
        /\ p[2] <= last_id[p[1]]
        /\ p[2] \notin handled[p[1]]
        /\ ~ InHand(p[1], p[2])}

\* A crash costs at most the one event in hand, although a whole batch of rows
\* had been fetched; and nothing is skipped without a crash, unless it was
\* committed after a higher id of its topic.
CrashLosesAtMostOne == Cardinality(Skipped) <= crashes

\* The stored offset never moves backwards, so a restart never goes back.
OffsetNeverRewinds ==
    [][\A s \in Subscriptions : last_id'[s] >= last_id[s]]_last_id

\* Every committed event is eventually reached by every subscription that has a
\* consumer, through aborted inserts, other topics' ids and full batches.
EventuallyReached ==
    \A c \in Consumers : \A i \in 1..MaxEvents :
        i \in Ids(TopicOf(c)) ~> last_id[Subscription[c]] >= i

-----------------------------------------------------------------------------
(* The abstract specification: a position and a history per subscription. *)

Stream == INSTANCE EventStream WITH
    log <- [t \in Topics |-> Ids(t)],
    late <- overtaken,
    claimed <- last_id

\* The bus implements the stream it promises: publishers racing for ids, batches,
\* crashes and restarts add no behaviour a subscriber could tell from claiming
\* one event after another and delivering each at most once.
ImplementsStream == Stream!Spec
=============================================================================
