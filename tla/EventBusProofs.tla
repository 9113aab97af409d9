--------------------------- MODULE EventBusProofs ---------------------------
(***************************************************************************)
(* Proofs about EventBus, for every set of topics, groups and consumers,   *)
(* every subscription of one consumer per (group, topic), every batch size *)
(* and every bound on events and crashes.                                  *)
(***************************************************************************)
EXTENDS EventBus, FiniteSetTheorems, WellFoundedInduction, TLAPS

-----------------------------------------------------------------------------
(* Min and Smallest. *)

\* A nonempty set of naturals has a least element, and Min is it.
LEMMA MinIsLeast ==
  ASSUME NEW S \in SUBSET Nat, S # {}
  PROVE  Min(S) \in S /\ \A x \in S : Min(S) <= x
<1> DEFINE R == {p \in Nat \X Nat : p[1] < p[2]}
<1>1. OpToRel(<, Nat) = R
  BY DEF OpToRel
<1>2. IsWellFoundedOn(R, Nat)
  BY <1>1, NatLessThanWellFounded, Zenon
<1>3. \E x \in S : \A y \in S : ~ (<<y, x>> \in R)
  <2> HIDE DEF R
  <2> QED BY <1>2, WFMin
<1>4. \A x, y \in S : y < x => <<y, x>> \in R
  OBVIOUS
<1>5. \A x, y \in S : y < x \/ x <= y
  OBVIOUS
<1>6. \E x \in S : \A y \in S : x <= y
  <2> HIDE DEF R
  <2> QED BY <1>3, <1>4, <1>5
<1>7. QED
  BY <1>6 DEF Min

\* The n smallest elements of a finite set of naturals are closed downwards.
LEMMA SmallestDownClosed ==
  ASSUME NEW S \in SUBSET Nat, IsFiniteSet(S), NEW n \in Nat,
         NEW x \in Smallest(n, S), NEW y \in S, y < x
  PROVE  y \in Smallest(n, S)
<1> DEFINE below(z) == {w \in S : w < z}
<1>1. x \in S /\ Cardinality(below(x)) < n
  BY DEF Smallest
<1>2. below(y) \in SUBSET below(x) /\ below(x) \in SUBSET S
  <2>1. x \in Nat /\ y \in Nat /\ \A w \in S : w \in Nat
    BY <1>1
  <2>2. \A w \in S : w < y => w < x
    BY <2>1
  <2>3. QED
    BY <2>2
<1>3. IsFiniteSet(below(x))
  BY <1>2, FS_Subset
<1>4. IsFiniteSet(below(y)) /\ Cardinality(below(y)) <= Cardinality(below(x))
  <2> HIDE DEF below
  <2> QED BY <1>2, <1>3, FS_Subset
<1>5. Cardinality(below(x)) \in Nat /\ Cardinality(below(y)) \in Nat
  <2> HIDE DEF below
  <2> QED BY <1>3, <1>4, FS_CardinalityType
<1>6. Cardinality(below(y)) < n
  <2> HIDE DEF below
  <2> QED BY <1>1, <1>4, <1>5
<1>7. QED
  BY <1>6 DEF Smallest

\* Ids are positive and finitely many.
LEMMA IdsFinite ==
  ASSUME TypeOK, NEW t
  PROVE  Ids(t) \in SUBSET (1..MaxEvents) /\ IsFiniteSet(Ids(t))
<1>1. Ids(t) \in SUBSET (1..MaxEvents)
  BY DEF TypeOK, Ids, Row
<1>2. IsFiniteSet(1..MaxEvents)
  BY BusAssumption, FS_Interval
<1>3. QED
  BY <1>1, <1>2, FS_Subset

\* A fetched batch holds committed ids of the topic above the cursor, and with
\* each of them every committed id between the cursor and it.
LEMMA BatchProps ==
  ASSUME TypeOK, NEW c \in Consumers
  PROVE  /\ Batch(c) \in SUBSET Ids(TopicOf(c))
         /\ \A i \in Batch(c) : i > cursor[c]
         /\ \A j \in Batch(c), i \in Ids(TopicOf(c)) :
               cursor[c] < i /\ i < j => i \in Batch(c)
<1> DEFINE found == {i \in Ids(TopicOf(c)) : i > cursor[c]}
<1>1. found \in SUBSET Ids(TopicOf(c)) /\ Ids(TopicOf(c)) \in SUBSET (1..MaxEvents)
  BY IdsFinite
<1>2. found \in SUBSET Nat /\ IsFiniteSet(found)
  BY <1>1, IdsFinite, FS_Subset, BusAssumption
<1>3. Batch(c) = Smallest(BatchSize, found)
  BY DEF Batch
<1>4. Batch(c) \in SUBSET found
  BY <1>3 DEF Smallest
<1>5. \A j \in Batch(c), i \in found : i < j => i \in Batch(c)
  <2> HIDE DEF found
  <2> QED BY <1>2, <1>3, SmallestDownClosed, BusAssumption
<1>6. ASSUME NEW j \in Batch(c), NEW i \in Ids(TopicOf(c)), cursor[c] < i, i < j
      PROVE  i \in Batch(c)
  <2>1. i \in found
    BY <1>1, <1>6 DEF TypeOK
  <2> QED BY <1>5, <1>6, <2>1
<1>7. QED
  BY <1>4, <1>6

\* The row CommitOffset takes in hand is the least of the batch.
LEMMA NextRow ==
  ASSUME TypeOK, NEW c \in Consumers, rows[c] # {}
  PROVE  /\ Min(rows[c]) \in rows[c]
         /\ Min(rows[c]) \in 1..MaxEvents
         /\ \A i \in rows[c] : Min(rows[c]) <= i
<1>1. rows[c] \in SUBSET (1..MaxEvents)
  BY DEF TypeOK
<1>2. rows[c] \in SUBSET Nat
  BY <1>1
<1>3. QED
  BY <1>1, <1>2, MinIsLeast

-----------------------------------------------------------------------------
(* Type correctness. *)

\* The bus's state keeps its types through every step, so ids and offsets stay
\* within the identity values drawn.
THEOREM TypeCorrect == Spec => []TypeOK
<1>1. Init => TypeOK
  BY BusAssumption DEF Init, TypeOK, Subscriptions
<1>2. TypeOK /\ [Next]_vars => TypeOK'
  <2> SUFFICES ASSUME TypeOK, [Next]_vars PROVE TypeOK'
    OBVIOUS
  <2> USE BusAssumption
  <2>1. ASSUME NEW t \in Topics, PublishInsert(t) PROVE TypeOK'
    BY <2>1 DEF TypeOK, PublishInsert, Row, locals, history
  <2>2. ASSUME NEW r \in inserting, PublishCommit(r) PROVE TypeOK'
    BY <2>2 DEF TypeOK, PublishCommit, Row, locals, history
  <2>3. ASSUME NEW r \in inserting, PublishAbort(r) PROVE TypeOK'
    BY <2>3 DEF TypeOK, PublishAbort, locals, history
  <2>4. ASSUME NEW c \in Consumers, Subscribe(c) PROVE TypeOK'
    BY <2>4 DEF TypeOK, Subscribe, tables, locals, history
  <2>5. ASSUME NEW c \in Consumers, ReadOffset(c) PROVE TypeOK'
    BY <2>5 DEF TypeOK, ReadOffset, Subscriptions, tables, history
  <2>6. ASSUME NEW c \in Consumers, SelectRows(c) PROVE TypeOK'
    <3>1. Batch(c) \in SUBSET (1..MaxEvents)
      BY BatchProps, IdsFinite
    <3> QED BY <2>6, <3>1 DEF TypeOK, SelectRows, tables, history
  <2>7. ASSUME NEW c \in Consumers, CommitOffset(c) PROVE TypeOK'
    <3>1. Min(rows[c]) \in rows[c] /\ Min(rows[c]) \in 1..MaxEvents
      BY <2>7, NextRow DEF CommitOffset
    <3> QED BY <2>7, <3>1 DEF TypeOK, CommitOffset, Subscriptions, tables, history
  <2>8. ASSUME NEW c \in Consumers, Yield(c) PROVE TypeOK'
    BY <2>8 DEF TypeOK, Yield, Subscriptions, tables, locals
  <2>9. ASSUME NEW c \in Consumers, Resume(c) PROVE TypeOK'
    BY <2>9 DEF TypeOK, Resume, Subscriptions, tables, locals
  <2>10. ASSUME NEW c \in Consumers, Crash(c) PROVE TypeOK'
    BY <2>10 DEF TypeOK, Crash, tables
  <2>11. CASE UNCHANGED vars
    BY <2>11 DEF TypeOK, vars
  <2>12. QED
    BY <2>1, <2>2, <2>3, <2>4, <2>5, <2>6, <2>7, <2>8, <2>9, <2>10, <2>11
       DEF Next, Publish, Consume
<1>3. QED
  BY <1>1, <1>2, PTL DEF Spec

-----------------------------------------------------------------------------
(* Order of delivery. *)

\* Where a consumer is in its loop and what it holds, relative to the stored
\* offset of its subscription: it alone moves that offset.
ConsumerInv ==
    \A c \in Consumers :
        /\ pc[c] = "select" => cursor[c] = last_id[Subscription[c]]
        /\ pc[c] \in {"down", "poll", "select"} => rows[c] = {}
        /\ \A i \in rows[c] : i > last_id[Subscription[c]]
        /\ pc[c] \in {"yield", "handler"} => current[c] = last_id[Subscription[c]]

\* What was delivered lies below the offset, and below the row about to be
\* delivered.
DeliveredInv ==
    \A s \in Subscriptions : \A k \in DOMAIN delivered[s] :
        /\ delivered[s][k] <= last_id[s]
        /\ \A c \in Consumers :
              Subscription[c] = s /\ pc[c] = "yield" => delivered[s][k] < current[c]

OrderInv == ConsumerInv /\ DeliveredInv /\ DeliveredInOrder

\* Every step of publishers and consumers keeps the order invariant: what a
\* consumer holds lies above the stored offset, what was delivered below it.
LEMMA OrderStep ==
  ASSUME SoleConsumer, TypeOK, OrderInv, [Next]_vars
  PROVE  OrderInv'
<1> USE BusAssumption
<1>1. ASSUME NEW t \in Topics, PublishInsert(t) PROVE OrderInv'
  BY <1>1 DEF OrderInv, ConsumerInv, DeliveredInv, DeliveredInOrder,
              PublishInsert, locals, history
<1>2. ASSUME NEW r \in inserting, PublishCommit(r) PROVE OrderInv'
  BY <1>2 DEF OrderInv, ConsumerInv, DeliveredInv, DeliveredInOrder,
              PublishCommit, locals, history
<1>3. ASSUME NEW r \in inserting, PublishAbort(r) PROVE OrderInv'
  BY <1>3 DEF OrderInv, ConsumerInv, DeliveredInv, DeliveredInOrder,
              PublishAbort, locals, history
<1>4. ASSUME NEW c \in Consumers, Subscribe(c) PROVE OrderInv'
  BY <1>4 DEF OrderInv, ConsumerInv, DeliveredInv, DeliveredInOrder,
              Subscribe, TypeOK, tables, locals, history
<1>5. ASSUME NEW c \in Consumers, ReadOffset(c) PROVE OrderInv'
  BY <1>5 DEF OrderInv, ConsumerInv, DeliveredInv, DeliveredInOrder,
              ReadOffset, TypeOK, tables, locals, history
<1>6. ASSUME NEW c \in Consumers, SelectRows(c) PROVE OrderInv'
  <2>1. \A i \in Batch(c) : i > last_id[Subscription[c]]
    BY <1>6, BatchProps DEF OrderInv, ConsumerInv, SelectRows
  <2>2. QED
    BY <1>6, <2>1 DEF OrderInv, ConsumerInv, DeliveredInv, DeliveredInOrder,
                      SelectRows, TypeOK, tables, history
<1>7. ASSUME NEW c \in Consumers, CommitOffset(c) PROVE OrderInv'
  <2> DEFINE m == Min(rows[c])
             s == Subscription[c]
  <2>1. /\ m \in rows[c] /\ m \in 1..MaxEvents
        /\ \A i \in rows[c] : m <= i
    BY <1>7, NextRow DEF CommitOffset
  <2>2. s \in Subscriptions /\ m > last_id[s]
    BY <2>1 DEF OrderInv, ConsumerInv, Subscriptions
  <2>3. /\ last_id' = [last_id EXCEPT ![s] = m]
        /\ current' = [current EXCEPT ![c] = m]
        /\ rows' = [rows EXCEPT ![c] = @ \ {m}]
        /\ pc' = [pc EXCEPT ![c] = "yield"]
        /\ UNCHANGED <<cursor, delivered>>
    BY <1>7 DEF CommitOffset, OffsetRows, TypeOK, history
  <2> HIDE DEF m, s
  <2>4. \A d \in Consumers : d # c => Subscription[d] # s
    BY DEF SoleConsumer, s
  <2>5. \A i \in rows[c] \ {m} : i > m
    BY <2>1 DEF TypeOK
  <2>6. ConsumerInv'
    BY <2>1, <2>2, <2>3, <2>4, <2>5 DEF OrderInv, ConsumerInv, TypeOK, s
  <2>7. DeliveredInv'
    <3> SUFFICES ASSUME NEW u \in Subscriptions, NEW k \in DOMAIN delivered[u]
                 PROVE  /\ delivered[u][k] <= last_id'[u]
                        /\ \A d \in Consumers :
                              Subscription[d] = u /\ pc'[d] = "yield"
                                => delivered[u][k] < current'[d]
      BY <2>3 DEF DeliveredInv
    <3>1. delivered[u][k] \in 0..MaxEvents /\ last_id[u] \in 0..MaxEvents
      BY DEF TypeOK
    <3>2. delivered[u][k] <= last_id[u]
      BY DEF OrderInv, DeliveredInv
    <3>3. CASE u = s
      BY <2>1, <2>2, <2>3, <2>4, <3>1, <3>2, <3>3 DEF TypeOK
    <3>4. CASE u # s
      BY <2>3, <3>2, <3>4 DEF OrderInv, DeliveredInv, TypeOK, s
    <3>5. QED
      BY <3>3, <3>4
  <2>8. DeliveredInOrder'
    BY <2>3 DEF OrderInv, DeliveredInOrder
  <2>9. QED
    BY <2>6, <2>7, <2>8 DEF OrderInv
<1>8. ASSUME NEW c \in Consumers, Yield(c) PROVE OrderInv'
  <2> DEFINE s == Subscription[c]
             old == delivered[s]
  <2>1. /\ s \in Subscriptions /\ old \in Seq(0..MaxEvents)
        /\ current[c] \in 0..MaxEvents /\ current[c] = last_id[s]
        /\ pc[c] = "yield"
    BY <1>8 DEF Yield, OrderInv, ConsumerInv, TypeOK, Subscriptions
  <2>2. \A k \in DOMAIN old : old[k] \in 0..MaxEvents /\ old[k] < current[c]
    BY <2>1 DEF OrderInv, DeliveredInv
  <2>3. /\ delivered' = [delivered EXCEPT ![s] = Append(old, current[c])]
        /\ pc' = [pc EXCEPT ![c] = "handler"]
        /\ UNCHANGED <<last_id, cursor, rows, current>>
    BY <1>8 DEF Yield, locals
  <2>4. /\ delivered'[s] = Append(old, current[c])
        /\ \A u \in Subscriptions : u # s => delivered'[u] = delivered[u]
    BY <2>1, <2>3 DEF TypeOK
  <2>5. /\ DOMAIN delivered'[s] = 1..(Len(old) + 1)
        /\ DOMAIN old = 1..Len(old) /\ Len(old) \in Nat
        /\ \A k \in DOMAIN old : delivered'[s][k] = old[k]
        /\ delivered'[s][Len(old) + 1] = current[c]
    BY <2>1, <2>4
  <2> HIDE DEF s, old
  <2>6. ConsumerInv'
    BY <2>1, <2>3 DEF OrderInv, ConsumerInv, TypeOK
  <2>7. DeliveredInv'
    <3> SUFFICES ASSUME NEW u \in Subscriptions, NEW k \in DOMAIN delivered'[u]
                 PROVE  /\ delivered'[u][k] <= last_id[u]
                        /\ \A d \in Consumers :
                              Subscription[d] = u /\ pc'[d] = "yield"
                                => delivered'[u][k] < current[d]
      BY <2>3 DEF DeliveredInv
    <3>1. CASE u # s
      BY <2>3, <2>4, <3>1 DEF OrderInv, DeliveredInv, TypeOK, s
    <3>2. CASE u = s
      <4>1. delivered'[u][k] <= last_id[u]
        <5>1. CASE k \in DOMAIN old
          BY <2>1, <2>2, <2>5, <3>2, <5>1
        <5>2. CASE k = Len(old) + 1
          BY <2>1, <2>5, <3>2, <5>2
        <5>3. QED
          BY <2>5, <3>2, <5>1, <5>2
      <4>2. \A d \in Consumers : Subscription[d] = u => pc'[d] = "handler"
        BY <2>3, <3>2 DEF SoleConsumer, TypeOK, s
      <4>3. QED
        BY <4>1, <4>2
    <3>3. QED
      BY <3>1, <3>2
  <2>8. DeliveredInOrder'
    <3> SUFFICES ASSUME NEW u \in Subscriptions,
                        NEW i \in DOMAIN delivered'[u], NEW j \in DOMAIN delivered'[u],
                        i < j
                 PROVE  delivered'[u][i] < delivered'[u][j]
      BY DEF DeliveredInOrder
    <3>1. CASE u # s
      BY <2>4, <3>1 DEF OrderInv, DeliveredInOrder
    <3>2. CASE u = s
      <4>1. i \in DOMAIN old
        BY <2>5, <3>2
      <4>2. CASE j \in DOMAIN old
        <5>1. old[i] < old[j]
          BY <2>1, <4>1, <4>2 DEF OrderInv, DeliveredInOrder, old
        <5>2. QED
          BY <2>5, <3>2, <4>1, <4>2, <5>1
      <4>3. CASE j = Len(old) + 1
        BY <2>2, <2>5, <3>2, <4>1, <4>3
      <4>4. QED
        BY <2>5, <3>2, <4>2, <4>3
    <3>3. QED
      BY <3>1, <3>2
  <2>9. QED
    BY <2>6, <2>7, <2>8 DEF OrderInv
<1>9. ASSUME NEW c \in Consumers, Resume(c) PROVE OrderInv'
  BY <1>9 DEF OrderInv, ConsumerInv, DeliveredInv, DeliveredInOrder,
              Resume, TypeOK, tables, locals
<1>10. ASSUME NEW c \in Consumers, Crash(c) PROVE OrderInv'
  BY <1>10 DEF OrderInv, ConsumerInv, DeliveredInv, DeliveredInOrder,
               Crash, TypeOK, tables
<1>11. CASE UNCHANGED vars
  BY <1>11 DEF OrderInv, ConsumerInv, DeliveredInv, DeliveredInOrder, vars
<1>12. QED
  BY <1>1, <1>2, <1>3, <1>4, <1>5, <1>6, <1>7, <1>8, <1>9, <1>10, <1>11
     DEF Next, Publish, Consume

\* Initially nothing is held and nothing delivered.
LEMMA OrderInit == Init => OrderInv
  BY BusAssumption DEF Init, OrderInv, ConsumerInv, DeliveredInv, DeliveredInOrder,
                       Subscriptions

\* The order invariant holds throughout, with one consumer per subscription.
LEMMA OrderInvariant ==
  ASSUME SoleConsumer
  PROVE  Spec => []OrderInv
<1>1. TypeOK /\ OrderInv /\ [Next]_vars => OrderInv'
  BY OrderStep
<1>2. QED
  BY <1>1, OrderInit, TypeCorrect, PTL DEF Spec

\* With one consumer per (group, topic), subscribe yields the events of a topic
\* in id order and none twice, through any number of crashes and restarts.
THEOREM InOrder ==
  ASSUME SoleConsumer
  PROVE  Spec => []DeliveredInOrder
<1>1. OrderInv => DeliveredInOrder
  BY DEF OrderInv
<1>2. QED
  BY <1>1, OrderInvariant, PTL

\* With one consumer per (group, topic), no step moves a stored offset back,
\* although the UPDATE is unconditional.
THEOREM OffsetMonotone ==
  ASSUME SoleConsumer
  PROVE  Spec => OffsetNeverRewinds
<1>1. TypeOK /\ OrderInv /\ [Next]_vars
        => [\A s \in Subscriptions : last_id'[s] >= last_id[s]]_last_id
  <2> SUFFICES ASSUME TypeOK, OrderInv, Next, last_id' # last_id
               PROVE  \A s \in Subscriptions : last_id'[s] >= last_id[s]
    BY DEF vars
  <2>1. PICK c \in Consumers : CommitOffset(c)
    BY DEF Next, Publish, Consume, PublishInsert, PublishCommit, PublishAbort,
           Subscribe, ReadOffset, SelectRows, Yield, Resume, Crash
  <2>2. Min(rows[c]) \in rows[c] /\ Min(rows[c]) \in 1..MaxEvents
    BY <2>1, NextRow DEF CommitOffset
  <2>3. Min(rows[c]) > last_id[Subscription[c]]
    BY <2>2 DEF OrderInv, ConsumerInv
  <2>4. last_id' = [s \in Subscriptions |->
                      IF s = Subscription[c] THEN Min(rows[c]) ELSE last_id[s]]
    BY <2>1 DEF CommitOffset, OffsetRows
  <2>5. QED
    BY <2>2, <2>3, <2>4, BusAssumption DEF TypeOK
<1>2. QED
  BY <1>1, OrderInvariant, TypeCorrect, PTL DEF Spec, OffsetNeverRewinds

-----------------------------------------------------------------------------
(* Losses. *)

\* Offsets and fetched rows are committed ids.
CommittedInv ==
    /\ \A s \in Subscriptions : last_id[s] # 0 => last_id[s] \in Ids(s[2])
    /\ \A c \in Consumers : rows[c] \in SUBSET Ids(TopicOf(c))

\* A batch leaves out no committed id between the offset and one of its rows,
\* unless that id was committed after the row was.
NoGapInv ==
    \A c \in Consumers : \A j \in rows[c], i \in Ids(TopicOf(c)) \ overtaken :
        last_id[Subscription[c]] < i /\ i < j => i \in rows[c]

LossInv ==
    /\ CommittedInv
    /\ NoGapInv
    /\ IsFiniteSet(Skipped)
    /\ CrashLosesAtMostOne

\* Initially nothing is skipped.
LEMMA LossInit == Init => LossInv
<1> SUFFICES ASSUME Init PROVE LossInv
  OBVIOUS
<1>1. \A t : Ids(t) = {}
  BY DEF Init, Ids
<1>2. Skipped = {}
  BY <1>1 DEF Skipped
<1>3. CommittedInv /\ NoGapInv
  BY <1>1, BusAssumption DEF Init, CommittedInv, NoGapInv, TopicOf, Subscriptions
<1>4. IsFiniteSet(Skipped) /\ Cardinality(Skipped) = 0
  BY <1>2, FS_EmptySet
<1>5. QED
  BY <1>3, <1>4 DEF Init, LossInv, CrashLosesAtMostOne

\* A step that adds no skipped event keeps the bound.
LEMMA NoNewLoss ==
  ASSUME IsFiniteSet(Skipped), CrashLosesAtMostOne, crashes \in Nat,
         Skipped' \in SUBSET Skipped, crashes' = crashes
  PROVE  IsFiniteSet(Skipped') /\ Cardinality(Skipped') <= crashes'
<1>1. IsFiniteSet(Skipped') /\ Cardinality(Skipped') <= Cardinality(Skipped)
  BY FS_Subset
<1>2. Cardinality(Skipped) \in Nat /\ Cardinality(Skipped') \in Nat
  BY <1>1, FS_CardinalityType
<1>3. QED
  BY <1>1, <1>2 DEF CrashLosesAtMostOne

\* A step that leaves the log and the offsets alone, and keeps every event that
\* was handled or in hand so, skips nothing.
LEMMA SkippedKept ==
  ASSUME UNCHANGED <<event_log, overtaken, last_id>>,
         \A s \in Subscriptions, i \in 1..MaxEvents :
            i \in handled[s] \/ InHand(s, i) => i \in handled'[s] \/ InHand(s, i)'
  PROVE  Skipped' \in SUBSET Skipped
<1>1. \A t : Ids(t)' = Ids(t)
  BY DEF Ids
<1>2. ASSUME NEW p \in Subscriptions \X (1..MaxEvents), p \in Skipped'
      PROVE  p \in Skipped
  <2>1. /\ p[2] \in Ids(p[1][2]) \ overtaken
        /\ p[2] <= last_id[p[1]]
        /\ p[2] \notin handled'[p[1]]
        /\ ~ InHand(p[1], p[2])'
    BY <1>1, <1>2 DEF Skipped
  <2>2. p[2] \notin handled[p[1]] /\ ~ InHand(p[1], p[2])
    BY <2>1
  <2>3. QED
    BY <2>1, <2>2 DEF Skipped
<1>3. Skipped' \in SUBSET (Subscriptions \X (1..MaxEvents))
  BY DEF Skipped
<1>4. QED
  BY <1>2, <1>3

\* A publisher's commit skips nothing: its row is above every stored offset of
\* its topic, or it is counted as overtaken.
LEMMA CommitStep ==
  ASSUME TypeOK, OrderInv, LossInv, NEW r \in inserting, PublishCommit(r)
  PROVE  LossInv'
<1> USE BusAssumption
<1>1. /\ event_log' = event_log \cup {r}
      /\ overtaken' = overtaken \cup {i \in {r.id} : \E j \in Ids(r.topic) : j > i}
      /\ UNCHANGED <<last_id, pc, rows, current, handled, crashes>>
      /\ r.id \in 1..MaxEvents /\ r.topic \in Topics
  BY DEF PublishCommit, locals, history, TypeOK, Row
<1>2. \A t : Ids(t)' = Ids(t) \cup {i \in {r.id} : t = r.topic}
  BY <1>1 DEF Ids
<1>3. CommittedInv'
  BY <1>1, <1>2 DEF LossInv, CommittedInv
<1>4. NoGapInv'
  <2> SUFFICES ASSUME NEW c \in Consumers, NEW j \in rows[c],
                      NEW i \in Ids(TopicOf(c))' \ overtaken',
                      last_id[Subscription[c]] < i, i < j
               PROVE  i \in rows[c]
    BY <1>1 DEF NoGapInv, TopicOf
  <2>1. j \in Ids(TopicOf(c))
    BY DEF LossInv, CommittedInv
  <2>2. i \in Ids(TopicOf(c)) \ overtaken
    <3>1. CASE i \in Ids(TopicOf(c))
      BY <1>1, <3>1
    <3>2. CASE i = r.id /\ TopicOf(c) = r.topic
      <4>1. j > i
        BY <1>1, <3>2, <2>1, IdsFinite
      <4>2. i \in overtaken'
        BY <1>1, <2>1, <3>2, <4>1
      <4>3. QED
        BY <4>2
    <3>3. QED
      BY <1>2, <3>1, <3>2
  <2>3. QED
    BY <2>2 DEF LossInv, NoGapInv
<1>5. Skipped' \in SUBSET Skipped
  <2>1. ASSUME NEW p \in Subscriptions \X (1..MaxEvents), p \in Skipped'
        PROVE  p \in Skipped
    <3>1. /\ p[2] \in Ids(p[1][2])' /\ p[2] \notin overtaken'
          /\ p[2] <= last_id[p[1]]
          /\ p[2] \notin handled[p[1]]
          /\ ~ InHand(p[1], p[2])
      BY <1>1, <2>1 DEF Skipped, InHand
    <3>2. p[2] \in Ids(p[1][2])
      <4>1. CASE p[2] \in Ids(p[1][2])
        BY <4>1
      <4>2. CASE p[2] = r.id /\ p[1][2] = r.topic
        <5>1. last_id[p[1]] \in Ids(r.topic) /\ last_id[p[1]] \in Nat
          BY <3>1, <4>2, <1>1 DEF LossInv, CommittedInv, TypeOK
        <5>2. ~ (last_id[p[1]] > p[2])
          BY <1>1, <3>1, <4>2, <5>1
        <5>3. last_id[p[1]] = p[2]
          BY <3>1, <5>1, <5>2
        <5>4. QED
          BY <4>2, <5>1, <5>3
      <4>3. QED
        BY <1>2, <3>1, <4>1, <4>2
    <3>3. QED
      BY <1>1, <3>1, <3>2 DEF Skipped
  <2>2. QED
    BY <2>1 DEF Skipped
<1>6. QED
  <2>1. IsFiniteSet(Skipped') /\ Cardinality(Skipped') <= crashes'
    BY <1>1, <1>5, NoNewLoss DEF LossInv, TypeOK
  <2>2. QED
    BY <1>3, <1>4, <2>1 DEF LossInv, CrashLosesAtMostOne

\* Advancing the offset skips nothing: the row passed is in hand, and no
\* committed id lies between the old offset and it.
LEMMA OffsetStep ==
  ASSUME SoleConsumer, TypeOK, OrderInv, LossInv,
         NEW c \in Consumers, CommitOffset(c)
  PROVE  LossInv'
<1> USE BusAssumption
<1> DEFINE m == Min(rows[c])
           s == Subscription[c]
<1>1. /\ m \in rows[c] /\ m \in 1..MaxEvents
      /\ \A i \in rows[c] : m <= i
  BY NextRow DEF CommitOffset
<1>2. s \in Subscriptions /\ TopicOf(c) = s[2] /\ s[2] \in Topics
  BY DEF Subscriptions, TopicOf
<1>3. /\ last_id' = [last_id EXCEPT ![s] = m]
      /\ current' = [current EXCEPT ![c] = m]
      /\ rows' = [rows EXCEPT ![c] = @ \ {m}]
      /\ pc' = [pc EXCEPT ![c] = "yield"]
      /\ pc[c] = "rows"
      /\ UNCHANGED <<event_log, overtaken, handled, crashes>>
  BY DEF CommitOffset, OffsetRows, TypeOK, tables, history
<1> HIDE DEF m, s
<1>4. \A t : Ids(t)' = Ids(t)
  BY <1>3 DEF Ids
<1>5. \A d \in Consumers : d # c => Subscription[d] # s
  BY DEF SoleConsumer, s
<1>6. \A i \in Ids(s[2]) \ overtaken : last_id[s] < i /\ i < m => FALSE
  <2> SUFFICES ASSUME NEW i \in Ids(s[2]) \ overtaken, last_id[s] < i, i < m
               PROVE  FALSE
    OBVIOUS
  <2>1. i \in rows[c]
    BY <1>1, <1>2 DEF LossInv, NoGapInv, s
  <2>2. i \in 1..MaxEvents
    BY <1>2, IdsFinite
  <2>3. QED
    BY <1>1, <2>1, <2>2
<1>7. CommittedInv'
  <2>1. m \in Ids(s[2])
    BY <1>1, <1>2 DEF LossInv, CommittedInv
  <2>2. QED
    BY <1>2, <1>3, <1>4, <2>1 DEF LossInv, CommittedInv, TypeOK, TopicOf
<1>8. NoGapInv'
  <2> SUFFICES ASSUME NEW d \in Consumers, NEW j \in rows'[d],
                      NEW i \in Ids(TopicOf(d)) \ overtaken,
                      last_id'[Subscription[d]] < i, i < j
               PROVE  i \in rows'[d]
    BY <1>3, <1>4 DEF NoGapInv, TopicOf
  <2>1. CASE d # c
    <3>1. last_id'[Subscription[d]] = last_id[Subscription[d]] /\ rows'[d] = rows[d]
      BY <1>3, <1>5, <2>1 DEF TypeOK
    <3>2. QED
      BY <3>1 DEF LossInv, NoGapInv
  <2>2. CASE d = c
    <3>1. rows'[c] = rows[c] \ {m} /\ last_id'[s] = m /\ Subscription[c] = s
      BY <1>2, <1>3 DEF TypeOK, s
    <3>2. i \in 1..MaxEvents /\ last_id[s] \in 0..MaxEvents /\ m > last_id[s]
      BY <1>1, <1>2, <2>2, IdsFinite DEF TypeOK, OrderInv, ConsumerInv, s
    <3>3. last_id[s] < i /\ i # m
      BY <1>1, <2>2, <3>1, <3>2
    <3>4. i \in rows[c]
      BY <2>2, <3>1, <3>3 DEF LossInv, NoGapInv, s
    <3>5. QED
      BY <2>2, <3>1, <3>3, <3>4
  <2>3. QED
    BY <2>1, <2>2
<1>9. Skipped' \in SUBSET Skipped
  <2>1. ASSUME NEW p \in Subscriptions \X (1..MaxEvents), p \in Skipped'
        PROVE  p \in Skipped
    <3>1. /\ p[2] \in Ids(p[1][2]) \ overtaken
          /\ p[2] <= last_id'[p[1]]
          /\ p[2] \notin handled[p[1]]
          /\ ~ InHand(p[1], p[2])'
          /\ p[1] \in Subscriptions /\ p[2] \in 1..MaxEvents
      BY <1>3, <1>4, <2>1 DEF Skipped
    <3>2. ~ InHand(p[1], p[2])
      <4>1. \A d \in Consumers : d # c => pc'[d] = pc[d] /\ current'[d] = current[d]
        BY <1>3 DEF TypeOK
      <4>2. pc[c] \notin {"yield", "handler"}
        BY <1>3
      <4>3. QED
        BY <3>1, <4>1, <4>2 DEF InHand
    <3>3. p[2] <= last_id[p[1]]
      <4>1. CASE p[1] # s
        BY <1>3, <3>1, <4>1 DEF TypeOK
      <4>2. CASE p[1] = s
        <5>1. last_id'[s] = m /\ last_id[s] \in 0..MaxEvents
          BY <1>2, <1>3 DEF TypeOK
        <5>2. p[2] # m
          <6>1. pc'[c] = "yield" /\ current'[c] = m /\ Subscription[c] = s
            BY <1>3 DEF TypeOK, s
          <6>2. p[2] = m => InHand(p[1], p[2])'
            BY <4>2, <6>1 DEF InHand
          <6>3. QED
            BY <3>1, <6>2
        <5>3. QED
          BY <1>1, <1>6, <3>1, <4>2, <5>1, <5>2
      <4>3. QED
        BY <4>1, <4>2
    <3>4. QED
      BY <3>1, <3>2, <3>3 DEF Skipped
  <2>2. QED
    BY <2>1 DEF Skipped
<1>10. QED
  <2>1. IsFiniteSet(Skipped') /\ Cardinality(Skipped') <= crashes'
    BY <1>3, <1>9, NoNewLoss DEF LossInv, TypeOK
  <2>2. QED
    BY <1>7, <1>8, <2>1 DEF LossInv, CrashLosesAtMostOne

\* A crash adds at most one skipped event, the one in hand.
LEMMA CrashStep ==
  ASSUME TypeOK, LossInv, NEW c \in Consumers, Crash(c)
  PROVE  LossInv'
<1> USE BusAssumption
<1> DEFINE p0 == <<Subscription[c], current[c]>>
<1>1. /\ pc' = [pc EXCEPT ![c] = "down"]
      /\ rows' = [rows EXCEPT ![c] = {}]
      /\ current' = [current EXCEPT ![c] = 0]
      /\ crashes' = crashes + 1
      /\ UNCHANGED <<event_log, overtaken, last_id, handled>>
  BY DEF Crash, tables
<1>2. \A t : Ids(t)' = Ids(t)
  BY <1>1 DEF Ids
<1>3. CommittedInv'
  BY <1>1, <1>2 DEF LossInv, CommittedInv, TypeOK, TopicOf
<1>4. NoGapInv'
  BY <1>1, <1>2 DEF LossInv, NoGapInv, TypeOK, TopicOf
<1>5. Skipped' \in SUBSET (Skipped \cup {p0})
  <2>1. ASSUME NEW p \in Subscriptions \X (1..MaxEvents), p \in Skipped', p # p0
        PROVE  p \in Skipped
    <3>1. /\ p[2] \in Ids(p[1][2]) \ overtaken
          /\ p[2] <= last_id[p[1]]
          /\ p[2] \notin handled[p[1]]
          /\ ~ InHand(p[1], p[2])'
      BY <1>1, <1>2, <2>1 DEF Skipped
    <3>2. \A d \in Consumers : d # c => pc'[d] = pc[d] /\ current'[d] = current[d]
      BY <1>1 DEF TypeOK
    <3>3. ~ InHand(p[1], p[2])
      BY <2>1, <3>1, <3>2 DEF InHand
    <3>4. QED
      BY <3>1, <3>3 DEF Skipped
  <2>2. QED
    BY <2>1 DEF Skipped
<1> HIDE DEF p0
<1>6. /\ IsFiniteSet(Skipped \cup {p0})
      /\ Cardinality(Skipped \cup {p0}) <= Cardinality(Skipped) + 1
  <2>1. IsFiniteSet(Skipped) /\ Cardinality(Skipped) \in Nat
    BY FS_CardinalityType DEF LossInv
  <2>2. /\ IsFiniteSet(Skipped \cup {p0})
        /\ Cardinality(Skipped \cup {p0})
             = IF p0 \in Skipped THEN Cardinality(Skipped) ELSE Cardinality(Skipped) + 1
    BY <2>1, FS_AddElement
  <2>3. QED
    BY <2>1, <2>2
<1>7. IsFiniteSet(Skipped') /\ Cardinality(Skipped') <= Cardinality(Skipped \cup {p0})
  BY <1>5, <1>6, FS_Subset
<1>8. /\ Cardinality(Skipped') \in Nat
      /\ Cardinality(Skipped) \in Nat
      /\ Cardinality(Skipped \cup {p0}) \in Nat
  BY <1>6, <1>7, FS_CardinalityType DEF LossInv
<1>9. Cardinality(Skipped') <= crashes'
  BY <1>1, <1>6, <1>7, <1>8 DEF LossInv, CrashLosesAtMostOne, TypeOK
<1>10. QED
  BY <1>3, <1>4, <1>7, <1>9 DEF LossInv, CrashLosesAtMostOne

\* Every step keeps the bound on the events lost.
LEMMA LossStep ==
  ASSUME SoleConsumer, TypeOK, OrderInv, LossInv, [Next]_vars
  PROVE  LossInv'
<1> USE BusAssumption
<1>1. ASSUME UNCHANGED <<event_log, overtaken, last_id, rows, crashes>>,
             \A u \in Subscriptions, i \in 1..MaxEvents :
                i \in handled[u] \/ InHand(u, i) => i \in handled'[u] \/ InHand(u, i)'
      PROVE  LossInv'
  <2>1. CommittedInv' /\ NoGapInv'
    BY <1>1 DEF LossInv, CommittedInv, NoGapInv, Ids, TopicOf
  <2>2. Skipped' \in SUBSET Skipped
    BY <1>1, SkippedKept
  <2>3. IsFiniteSet(Skipped') /\ Cardinality(Skipped') <= crashes'
    BY <1>1, <2>2, NoNewLoss DEF LossInv, TypeOK
  <2>4. QED
    BY <2>1, <2>3 DEF LossInv, CrashLosesAtMostOne
<1>2. ASSUME NEW t \in Topics, PublishInsert(t) PROVE LossInv'
  BY <1>1, <1>2 DEF PublishInsert, InHand, locals, history
<1>3. ASSUME NEW r \in inserting, PublishCommit(r) PROVE LossInv'
  BY <1>3, CommitStep
<1>4. ASSUME NEW r \in inserting, PublishAbort(r) PROVE LossInv'
  BY <1>1, <1>4 DEF PublishAbort, InHand, locals, history
<1>5. ASSUME NEW c \in Consumers, Subscribe(c) PROVE LossInv'
  BY <1>1, <1>5 DEF Subscribe, InHand, TypeOK, tables, locals, history
<1>6. ASSUME NEW c \in Consumers, ReadOffset(c) PROVE LossInv'
  BY <1>1, <1>6 DEF ReadOffset, InHand, TypeOK, tables, history
<1>7. ASSUME NEW c \in Consumers, SelectRows(c) PROVE LossInv'
  <2>1. /\ rows' = [rows EXCEPT ![c] = Batch(c)]
        /\ pc[c] = "select" /\ cursor[c] = last_id[Subscription[c]]
        /\ pc' = [pc EXCEPT ![c] = IF Batch(c) = {} THEN "poll" ELSE "rows"]
        /\ UNCHANGED <<event_log, overtaken, last_id, current, handled, crashes>>
    BY <1>7 DEF SelectRows, OrderInv, ConsumerInv, tables, history
  <2>2. \A t : Ids(t)' = Ids(t)
    BY <2>1 DEF Ids
  <2>3. CommittedInv'
    BY <2>1, <2>2, BatchProps DEF LossInv, CommittedInv, TypeOK, TopicOf
  <2>4. NoGapInv'
    BY <2>1, <2>2, BatchProps DEF LossInv, NoGapInv, TypeOK, TopicOf
  <2>5. \A u \in Subscriptions, i \in 1..MaxEvents : InHand(u, i) => InHand(u, i)'
    BY <2>1 DEF InHand, TypeOK
  <2>6. Skipped' \in SUBSET Skipped
    BY <2>1, <2>5, SkippedKept
  <2>7. IsFiniteSet(Skipped') /\ Cardinality(Skipped') <= crashes'
    BY <2>1, <2>6, NoNewLoss DEF LossInv, TypeOK
  <2>8. QED
    BY <2>3, <2>4, <2>7 DEF LossInv, CrashLosesAtMostOne
<1>8. ASSUME NEW c \in Consumers, CommitOffset(c) PROVE LossInv'
  BY <1>8, OffsetStep
<1>9. ASSUME NEW c \in Consumers, Yield(c) PROVE LossInv'
  BY <1>1, <1>9 DEF Yield, InHand, TypeOK, tables, locals
<1>10. ASSUME NEW c \in Consumers, Resume(c) PROVE LossInv'
  <2>1. \A d \in Consumers : d # c => pc'[d] = pc[d]
    BY <1>10 DEF Resume, TypeOK
  <2>2. /\ \A u \in Subscriptions : handled[u] \in SUBSET handled'[u]
        /\ current[c] \in handled'[Subscription[c]]
        /\ UNCHANGED <<event_log, overtaken, last_id, rows, current, crashes>>
    BY <1>10 DEF Resume, TypeOK, Subscriptions, tables, locals
  <2>3. \A u \in Subscriptions, i \in 1..MaxEvents :
           i \in handled[u] \/ InHand(u, i) => i \in handled'[u] \/ InHand(u, i)'
    BY <2>1, <2>2 DEF InHand
  <2>4. QED
    BY <1>1, <2>2, <2>3
<1>11. ASSUME NEW c \in Consumers, Crash(c) PROVE LossInv'
  BY <1>11, CrashStep
<1>12. CASE UNCHANGED vars
  BY <1>1, <1>12 DEF vars, InHand
<1>13. QED
  BY <1>2, <1>3, <1>4, <1>5, <1>6, <1>7, <1>8, <1>9, <1>10, <1>11, <1>12
     DEF Next, Publish, Consume

\* With one consumer per (group, topic), the events the offset passed without
\* being handled number at most the crashes, those committed after a higher id
\* apart: a crash loses the event in hand and never the rest of its batch.
THEOREM LossBounded ==
  ASSUME SoleConsumer
  PROVE  Spec => []CrashLosesAtMostOne
<1>1. TypeOK /\ OrderInv /\ LossInv /\ [Next]_vars => LossInv'
  BY LossStep
<1>2. LossInv => CrashLosesAtMostOne
  BY DEF LossInv
<1>3. QED
  BY <1>1, <1>2, LossInit, OrderInvariant, TypeCorrect, PTL DEF Spec

-----------------------------------------------------------------------------
(* The refinement of EventStream. *)

\* An identity value belongs to one row, committed or not.
UniqueInv ==
    /\ \A r \in event_log : r.id <= identity
    /\ \A r \in inserting : r.id <= identity /\ \A t \in Topics : r.id \notin Ids(t)
    /\ \A q, r \in inserting : q.id = r.id => q = r

\* A row about to be yielded is a row.
HandInv == \A c \in Consumers : pc[c] = "yield" => current[c] # 0

StreamInv == UniqueInv /\ HandInv

\* Drawing an id makes a row whose id no other row has.
LEMMA InsertUnique ==
  ASSUME TypeOK, UniqueInv, NEW t \in Topics, PublishInsert(t)
  PROVE  UniqueInv'
<1> USE BusAssumption
<1> DEFINE r0 == [id |-> identity + 1, topic |-> t]
<1>1. /\ identity \in Nat /\ identity' = identity + 1
      /\ inserting' = inserting \cup {r0}
      /\ event_log' = event_log
  BY DEF PublishInsert, TypeOK
<1>2. \A u : Ids(u)' = Ids(u)
  BY <1>1 DEF Ids
<1>3. \A r \in event_log \cup inserting : r.id \in Nat /\ r.id <= identity
  BY DEF UniqueInv, TypeOK, Row
<1>4. \A u \in Topics : r0.id \notin Ids(u)
  BY <1>1, <1>3 DEF Ids
<1>5. QED
  BY <1>1, <1>2, <1>3, <1>4 DEF UniqueInv

\* Committing a row keeps it the only one of its id.
LEMMA CommitUnique ==
  ASSUME TypeOK, UniqueInv, NEW r \in inserting, PublishCommit(r)
  PROVE  UniqueInv'
<1>1. /\ identity' = identity
      /\ inserting' = inserting \ {r}
      /\ event_log' = event_log \cup {r}
  BY DEF PublishCommit
<1>2. \A u : Ids(u)' = Ids(u) \cup {i \in {r.id} : u = r.topic}
  BY <1>1 DEF Ids
<1>3. \A q \in inserting' : q.id # r.id
  BY <1>1 DEF UniqueInv
<1>4. QED
  BY <1>1, <1>2, <1>3 DEF UniqueInv

\* Every step keeps ids unique and the row in hand a row.
LEMMA StreamStep ==
  ASSUME TypeOK, StreamInv, [Next]_vars
  PROVE  StreamInv'
<1> USE BusAssumption
<1>1. ASSUME UNCHANGED <<identity, inserting, event_log>> PROVE UniqueInv'
  BY <1>1 DEF StreamInv, UniqueInv, Ids
<1>2. ASSUME UNCHANGED <<pc, current>> PROVE HandInv'
  BY <1>2 DEF StreamInv, HandInv
<1>3. ASSUME NEW t \in Topics, PublishInsert(t) PROVE StreamInv'
  BY <1>2, <1>3, InsertUnique DEF StreamInv, PublishInsert, locals
<1>4. ASSUME NEW r \in inserting, PublishCommit(r) PROVE StreamInv'
  BY <1>2, <1>4, CommitUnique DEF StreamInv, PublishCommit, locals
<1>5. ASSUME NEW r \in inserting, PublishAbort(r) PROVE StreamInv'
  BY <1>2, <1>5 DEF PublishAbort, StreamInv, UniqueInv, Ids, locals
<1>6. ASSUME NEW c \in Consumers, Consume(c) \/ Crash(c) PROVE StreamInv'
  <2>1. UniqueInv'
    BY <1>1, <1>6 DEF Consume, Subscribe, ReadOffset, SelectRows, CommitOffset, Yield,
                      Resume, Crash, tables
  <2>2. CASE CommitOffset(c)
    <3>1. Min(rows[c]) \in 1..MaxEvents
      BY <2>2, NextRow DEF CommitOffset
    <3>2. /\ pc' = [pc EXCEPT ![c] = "yield"]
          /\ current' = [current EXCEPT ![c] = Min(rows[c])]
      BY <2>2 DEF CommitOffset
    <3>3. HandInv'
      BY <3>1, <3>2 DEF StreamInv, HandInv, TypeOK
    <3>4. QED
      BY <2>1, <3>3 DEF StreamInv
  <2>3. CASE Subscribe(c) \/ ReadOffset(c) \/ SelectRows(c) \/ Yield(c) \/ Resume(c)
    <3>1. \A d \in Consumers : pc'[d] = "yield" => pc[d] = "yield" /\ current'[d] = current[d]
      BY <2>3 DEF Subscribe, ReadOffset, SelectRows, Yield, Resume, locals, TypeOK
    <3>2. QED
      BY <2>1, <3>1 DEF StreamInv, HandInv
  <2>4. CASE Crash(c)
    <3>1. \A d \in Consumers : pc'[d] = "yield" => pc[d] = "yield" /\ current'[d] = current[d]
      BY <2>4 DEF Crash, TypeOK
    <3>2. QED
      BY <2>1, <3>1 DEF StreamInv, HandInv
  <2>5. QED
    BY <1>6, <2>2, <2>3, <2>4 DEF Consume
<1>7. CASE UNCHANGED vars
  BY <1>1, <1>2, <1>7 DEF vars, StreamInv
<1>8. QED
  BY <1>3, <1>4, <1>5, <1>6, <1>7 DEF Next, Publish

\* A commit appends an event that the stream has not had yet, late or not.
LEMMA CommitAppends ==
  ASSUME TypeOK, StreamInv, NEW r \in inserting, PublishCommit(r)
  PROVE  Stream!AppendEvent(r.topic, r.id)
<1>1. /\ event_log' = event_log \cup {r}
      /\ overtaken' = overtaken \cup {i \in {r.id} : \E j \in Ids(r.topic) : j > i}
      /\ UNCHANGED <<last_id, delivered>>
      /\ r.id \in 1..MaxEvents /\ r.topic \in Topics
  BY DEF PublishCommit, locals, history, TypeOK, Row
<1>2. \A u : Ids(u)' = Ids(u) \cup {i \in {r.id} : u = r.topic}
  BY <1>1 DEF Ids
<1>3. \A u \in Topics : r.id \notin Ids(u)
  BY DEF StreamInv, UniqueInv
<1>4. [t \in Topics |-> Ids(t)]'
        = [[t \in Topics |-> Ids(t)] EXCEPT ![r.topic] = @ \cup {r.id}]
  BY <1>1, <1>2
<1>5. overtaken' = IF \E j \in Ids(r.topic) : j > r.id
                   THEN overtaken \cup {r.id} ELSE overtaken
  BY <1>1
<1>6. QED
  BY <1>1, <1>3, <1>4, <1>5 DEF Stream!AppendEvent

\* Storing the offset claims the next event: only late ones are passed over.
LEMMA OffsetClaims ==
  ASSUME TypeOK, OrderInv, LossInv, NEW c \in Consumers, CommitOffset(c)
  PROVE  Stream!Claim(Subscription[c], Min(rows[c]))
<1> USE BusAssumption
<1> DEFINE m == Min(rows[c])
           s == Subscription[c]
<1>1. m \in rows[c] /\ m \in 1..MaxEvents /\ \A i \in rows[c] : m <= i
  BY NextRow DEF CommitOffset
<1>2. s \in Subscriptions /\ TopicOf(c) = s[2] /\ s[2] \in Topics
  BY DEF Subscriptions, TopicOf
<1>3. /\ last_id' = [last_id EXCEPT ![s] = m]
      /\ UNCHANGED <<event_log, overtaken, delivered>>
  BY DEF CommitOffset, OffsetRows, TypeOK, tables, history
<1> HIDE DEF m, s
<1>4. m \in Ids(s[2]) /\ m > last_id[s]
  BY <1>1, <1>2 DEF LossInv, CommittedInv, OrderInv, ConsumerInv, s
<1>5. \A j \in Ids(s[2]) \ overtaken : j <= last_id[s] \/ j >= m
  <2>1. Ids(s[2]) \in SUBSET (1..MaxEvents) /\ last_id[s] \in 0..MaxEvents
    BY <1>2, IdsFinite DEF TypeOK
  <2>2. \A j \in Ids(s[2]) \ overtaken : last_id[s] < j /\ j < m => j \in rows[c]
    BY <1>1, <1>2 DEF LossInv, NoGapInv, s
  <2>3. QED
    BY <1>1, <2>1, <2>2
<1>6. [t \in Topics |-> Ids(t)]' = [t \in Topics |-> Ids(t)]
  BY <1>3 DEF Ids
<1>7. Stream!Claim(s, m)
  BY <1>2, <1>3, <1>4, <1>5, <1>6 DEF Stream!Claim
<1>8. QED
  BY <1>7 DEF m, s

\* Yielding a row delivers what was claimed last, for the first time.
LEMMA YieldDelivers ==
  ASSUME TypeOK, OrderInv, StreamInv, NEW c \in Consumers, Yield(c)
  PROVE  Stream!Deliver(Subscription[c])
<1> USE BusAssumption
<1> DEFINE s == Subscription[c]
<1>1. /\ s \in Subscriptions /\ pc[c] = "yield"
      /\ current[c] = last_id[s] /\ current[c] # 0 /\ last_id[s] \in 0..MaxEvents
  BY DEF Yield, OrderInv, ConsumerInv, StreamInv, HandInv, TypeOK, Subscriptions
<1>2. \A k \in DOMAIN delivered[s] : delivered[s][k] < last_id[s]
  BY <1>1 DEF OrderInv, DeliveredInv
<1>3. /\ delivered' = [delivered EXCEPT ![s] = Append(@, last_id[s])]
      /\ UNCHANGED <<event_log, overtaken, last_id>>
  BY <1>1 DEF Yield, tables
<1>4. [t \in Topics |-> Ids(t)]' = [t \in Topics |-> Ids(t)]
  BY <1>3 DEF Ids
<1>5. QED
  BY <1>1, <1>2, <1>3, <1>4 DEF Stream!Deliver

\* With one consumer per (group, topic), PostgresEventBus is an in-order,
\* at-most-once stream: commits append, stored offsets claim, yields deliver, and
\* ids drawn or burnt, polls, batches, handlers and crashes are not seen.
THEOREM BusImplementsStream ==
  ASSUME SoleConsumer
  PROVE  Spec => ImplementsStream
<1>1. Init => Stream!Init
  BY DEF Init, Ids, Stream!Init, Stream!Subscriptions, Subscriptions
<1>2. Init => StreamInv
  BY DEF Init, StreamInv, UniqueInv, HandInv, Ids
<1>3. TypeOK /\ StreamInv /\ [Next]_vars => StreamInv'
  BY StreamStep
<1>4. TypeOK /\ OrderInv /\ LossInv /\ [Next]_vars => LossInv'
  BY LossStep
<1>5. TypeOK /\ OrderInv /\ LossInv /\ StreamInv /\ [Next]_vars
        => [Stream!Next]_(Stream!vars)
  <2> SUFFICES ASSUME TypeOK, OrderInv, LossInv, StreamInv, [Next]_vars
               PROVE  Stream!Next \/ UNCHANGED Stream!vars
    OBVIOUS
  <2> USE BusAssumption
  <2>1. ASSUME UNCHANGED <<event_log, overtaken, last_id, delivered>>
        PROVE  UNCHANGED Stream!vars
    BY <2>1 DEF Stream!vars, Ids
  <2>2. ASSUME NEW r \in inserting, PublishCommit(r) PROVE Stream!Next
    <3>1. r.topic \in Topics /\ r.id \in 1..MaxEvents
      BY DEF TypeOK, Row
    <3>2. QED
      BY <2>2, <3>1, CommitAppends DEF Stream!Next
  <2>3. ASSUME NEW c \in Consumers, CommitOffset(c) PROVE Stream!Next
    <3>1. Min(rows[c]) \in 1..MaxEvents
      BY <2>3, NextRow DEF CommitOffset
    <3>2. Subscription[c] \in Stream!Subscriptions
      BY DEF Stream!Subscriptions
    <3>3. QED
      BY <2>3, <3>1, <3>2, OffsetClaims DEF Stream!Next
  <2>4. ASSUME NEW c \in Consumers, Yield(c) PROVE Stream!Next
    <3>1. Subscription[c] \in Stream!Subscriptions
      BY DEF Stream!Subscriptions
    <3>2. QED
      BY <2>4, <3>1, YieldDelivers DEF Stream!Next
  <2>5. ASSUME NEW t \in Topics, PublishInsert(t) PROVE UNCHANGED Stream!vars
    BY <2>1, <2>5 DEF PublishInsert, history
  <2>6. ASSUME NEW r \in inserting, PublishAbort(r) PROVE UNCHANGED Stream!vars
    BY <2>1, <2>6 DEF PublishAbort, history
  <2>7. ASSUME NEW c \in Consumers,
               \/ Subscribe(c) \/ ReadOffset(c) \/ SelectRows(c) \/ Resume(c) \/ Crash(c)
        PROVE  UNCHANGED Stream!vars
    BY <2>1, <2>7 DEF Subscribe, ReadOffset, SelectRows, Resume, Crash, tables, history
  <2>8. CASE UNCHANGED vars
    BY <2>1, <2>8 DEF vars
  <2>9. QED
    BY <2>2, <2>3, <2>4, <2>5, <2>6, <2>7, <2>8 DEF Next, Publish, Consume
<1>6. QED
  BY <1>1, <1>2, <1>3, <1>4, <1>5, LossInit, OrderInvariant, TypeCorrect, PTL
     DEF Spec, ImplementsStream, Stream!Spec
=============================================================================
