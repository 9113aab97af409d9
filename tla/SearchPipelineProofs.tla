------------------------ MODULE SearchPipelineProofs ------------------------
(***************************************************************************)
(* Proofs about SearchPipeline, for every set of jobs, every batch size of *)
(* the GPU worker, and every bound on crashes and faults.                  *)
(***************************************************************************)
EXTENDS SearchPipeline, FiniteSetTheorems, TLAPS

\* The messages worker w has handled and not settled.
DoneOf(w) == {done[w][i] : i \in DOMAIN done[w]}

\* A message for job j of queue q is ready, being handled, or not settled.
Has(q, j) ==
    \/ queue[q][j] > 0
    \/ \E w \in Workers : Running(w, q, j)
    \/ \E w \in Workers : \E o \in DoneOf(w) : o.q = q /\ o.j = j

\* A worker has a message in hand exactly in the steps of a handler, of the queue
\* that the step belongs to, and room for its outcome.
WorkerInv(w) ==
    /\ msg[w] = NoMsg <=> pc[w] \in {"idle", "settling"}
    /\ pc[w] = "complete_ann" => msg[w].q = "finalize"
    /\ pc[w] \in {"mark_reranking", "complete_reranked"} => msg[w].q = "rerank"
    /\ Len(done[w]) <= GpuBatch
    /\ msg[w] # NoMsg => Len(done[w]) < GpuBatch

PipelineInv == TypeOK /\ \A w \in Workers : WorkerInv(w)

\* A handler for job j is at a step.
At(step, j) == \E w \in Workers : pc[w] = step /\ msg[w] # NoMsg /\ msg[w].j = j

\* The vector is stored before its event is published, and stays.
EmbeddedInv(j) ==
    log["embedded"][j] > 0 \/ Has("run", j) \/ At("emit_embedded", j) => job[j].embedding

\* A job goes either to the rerank or to the finalize queue, its results are of that
\* kind, and they are stored before anyone says so.
KindInv(j) ==
    /\ Has("rerank", j) => job[j].rerank
    /\ Has("finalize", j) => ~job[j].rerank
    /\ job[j].results \in {"none", IF job[j].rerank THEN "reranked" ELSE "ann"}
    /\ log["completed"][j] > 0 \/ job[j].status = "complete" \/ At("emit_completed", j)
           => job[j].results # "none"

\* Nothing is known of a job before its request.
IdleInv(j) ==
    api[j] = "idle" =>
        /\ job[j].status = "absent" /\ job[j].results = "none"
        /\ \A q \in Queues : ~Has(q, j)
        /\ \A t \in Topics : ~(log[t][j] > 0)

\* As InFlight, without the handlers that have nothing left to do but to return or
\* to say that the job is complete.
Carried(j) ==
    \/ api[j] = "inserted"
    \/ \E t \in Topics \ {"completed"} : log[t][j] > 0
    \/ \E q \in Queues : queue[q][j] > 0
    \/ \E w \in Workers : /\ msg[w] # NoMsg /\ msg[w].j = j
                          /\ pc[w] \notin {"returned", "emit_completed"}
    \/ \E w \in Workers : \E o \in DoneOf(w) : o.j = j /\ o.outcome = "nack"

CarriedInv(j) == job[j].status \in Terminal \cup {"absent"} \/ Carried(j) \/ GivenUp(j)

JobInv(j) == EmbeddedInv(j) /\ KindInv(j) /\ IdleInv(j) /\ CarriedInv(j)

SearchInv == PipelineInv /\ \A j \in Jobs : JobInv(j)

-----------------------------------------------------------------------------
(* What the helpers on bags of events and messages return. *)

\* One more of one kind for one job.
LEMMA AddAt ==
  ASSUME NEW K, NEW bag \in [K -> [Jobs -> Nat]], NEW k \in K, NEW j \in Jobs
  PROVE  /\ Add(bag, k, j) \in [K -> [Jobs -> Nat]]
         /\ \A l \in K, i \in Jobs :
              Add(bag, k, j)[l][i] = IF l = k /\ i = j THEN bag[l][i] + 1 ELSE bag[l][i]
BY DEF Add

\* One less, where there is one.
LEMMA RemoveAt ==
  ASSUME NEW K, NEW bag \in [K -> [Jobs -> Nat]], NEW k \in K, NEW j \in Jobs,
         bag[k][j] > 0
  PROVE  /\ Remove(bag, k, j) \in [K -> [Jobs -> Nat]]
         /\ \A l \in K, i \in Jobs :
              Remove(bag, k, j)[l][i] = IF l = k /\ i = j THEN bag[l][i] - 1 ELSE bag[l][i]
BY DEF Remove

\* There are three workers.
LEMMA WorkersFinite == IsFiniteSet(Workers)
<1>1. IsFiniteSet({"search", "finalize", "gpu"})
  <2>1. IsFiniteSet({}) 
    BY FS_EmptySet
  <2>2. IsFiniteSet({} \cup {"search"}) 
    BY <2>1, FS_AddElement
  <2>3. IsFiniteSet(({} \cup {"search"}) \cup {"finalize"})
    BY <2>2, FS_AddElement
  <2>4. IsFiniteSet((({} \cup {"search"}) \cup {"finalize"}) \cup {"gpu"})
    BY <2>3, FS_AddElement
  <2>5. (({} \cup {"search"}) \cup {"finalize"}) \cup {"gpu"} = {"search", "finalize", "gpu"}
    OBVIOUS
  <2>6. QED
    BY <2>4, <2>5
<1>2. Workers = {"search", "finalize", "gpu"}
  BY DEF Workers, CpuWorkers
<1>3. QED
  BY <1>1, <1>2

\* Every unacknowledged message of the workers W is ready again, and no other is.
LEMMA RequeuedAt ==
  ASSUME PipelineInv, NEW W \in SUBSET Workers
  PROVE  /\ Requeued(W) \in [Queues -> [Jobs -> Nat]]
         /\ \A q \in Queues, j \in Jobs :
              Requeued(W)[q][j] > 0 <=>
                \/ queue[q][j] > 0
                \/ \E w \in W : Running(w, q, j)
                \/ \E w \in W : \E o \in DoneOf(w) : o.q = q /\ o.j = j
<1> DEFINE A(q, j) == {w \in W : msg[w] = [q |-> q, j |-> j]}
           B(q, j) == {p \in W \X (1..GpuBatch) :
                         /\ p[2] \in DOMAIN done[p[1]]
                         /\ done[p[1]][p[2]].q = q
                         /\ done[p[1]][p[2]].j = j}
<1>1. IsFiniteSet(W)
  BY WorkersFinite, FS_Subset
<1>2. IsFiniteSet(W \X (1..GpuBatch))
  <2>1. IsFiniteSet(1..GpuBatch)
    BY SearchAssumption, FS_Interval
  <2>2. QED
    BY <1>1, <2>1, FS_Product
<1>3. ASSUME NEW q, NEW j
      PROVE  /\ Cardinality(A(q, j)) \in Nat /\ (Cardinality(A(q, j)) = 0 <=> A(q, j) = {})
             /\ Cardinality(B(q, j)) \in Nat /\ (Cardinality(B(q, j)) = 0 <=> B(q, j) = {})
  <2>1. IsFiniteSet(A(q, j)) /\ IsFiniteSet(B(q, j))
    <3>1. A(q, j) \subseteq W /\ B(q, j) \subseteq W \X (1..GpuBatch)
      OBVIOUS
    <3> HIDE DEF A, B
    <3>2. QED
      BY <1>1, <1>2, <3>1, FS_Subset
  <2> HIDE DEF A, B
  <2>2. QED
    BY <2>1, FS_CardinalityType, FS_EmptySet
<1>4. Requeued(W) = [q \in Queues |-> [j \in Jobs |->
                       queue[q][j] + Cardinality(A(q, j)) + Cardinality(B(q, j))]]
  BY DEF Requeued
<1>5. ASSUME NEW q, NEW j
      PROVE  B(q, j) # {} <=> \E w \in W : \E o \in DoneOf(w) : o.q = q /\ o.j = j
  <2>1. ASSUME NEW w \in W PROVE DOMAIN done[w] \subseteq 1..GpuBatch
    <3>1. done[w] \in Seq(Settlement) /\ Len(done[w]) <= GpuBatch
      BY DEF PipelineInv, WorkerInv, TypeOK
    <3>2. QED
      BY <3>1, SearchAssumption
  <2>2. ASSUME NEW p \in B(q, j)
        PROVE  \E w \in W : \E o \in DoneOf(w) : o.q = q /\ o.j = j
    <3>1. p[1] \in W /\ done[p[1]][p[2]] \in DoneOf(p[1])
      BY DEF DoneOf
    <3>2. done[p[1]][p[2]].q = q /\ done[p[1]][p[2]].j = j
      OBVIOUS
    <3>3. QED
      BY <3>1, <3>2
  <2>3. ASSUME NEW w \in W, NEW o \in DoneOf(w), o.q = q, o.j = j
        PROVE  B(q, j) # {}
    <3>1. PICK i \in DOMAIN done[w] : o = done[w][i]
      BY DEF DoneOf
    <3>2. <<w, i>> \in W \X (1..GpuBatch) /\ <<w, i>>[1] = w /\ <<w, i>>[2] = i
      BY <2>1
    <3>3. <<w, i>> \in B(q, j)
      BY <2>3, <3>1, <3>2
    <3>4. QED
      BY <3>3
  <2> HIDE DEF B
  <2>4. QED
    BY <2>2, <2>3
<1>6. ASSUME NEW q, NEW j
      PROVE  A(q, j) # {} <=> \E w \in W : Running(w, q, j)
  BY DEF Running
<1>7. \A q \in Queues, j \in Jobs : queue[q][j] \in Nat
  BY DEF PipelineInv, TypeOK
<1> HIDE DEF A, B
<1>8. \A q \in Queues, j \in Jobs :
        Requeued(W)[q][j] = queue[q][j] + Cardinality(A(q, j)) + Cardinality(B(q, j))
  BY <1>4
<1>9. Requeued(W) \in [Queues -> [Jobs -> Nat]]
  <2>1. \A q \in Queues, j \in Jobs :
          queue[q][j] + Cardinality(A(q, j)) + Cardinality(B(q, j)) \in Nat
    BY <1>3, <1>7
  <2>2. QED
    BY <1>4, <2>1
<1>10. ASSUME NEW q \in Queues, NEW j \in Jobs
       PROVE  Requeued(W)[q][j] > 0 <=> queue[q][j] > 0 \/ A(q, j) # {} \/ B(q, j) # {}
  <2>1. /\ queue[q][j] \in Nat /\ Cardinality(A(q, j)) \in Nat /\ Cardinality(B(q, j)) \in Nat
        /\ Cardinality(A(q, j)) = 0 <=> A(q, j) = {}
        /\ Cardinality(B(q, j)) = 0 <=> B(q, j) = {}
        /\ Requeued(W)[q][j] = queue[q][j] + Cardinality(A(q, j)) + Cardinality(B(q, j))
    BY <1>3, <1>7, <1>8
  <2>2. QED
    BY <2>1
<1>11. ASSUME NEW q \in Queues, NEW j \in Jobs
       PROVE  Requeued(W)[q][j] > 0 <=>
                \/ queue[q][j] > 0
                \/ \E w \in W : Running(w, q, j)
                \/ \E w \in W : \E o \in DoneOf(w) : o.q = q /\ o.j = j
  BY <1>5, <1>6, <1>10
<1>12. QED
  BY <1>9, <1>11

-----------------------------------------------------------------------------
(* What the helpers on handled messages return. *)

\* The outcome is added, before or after those of the batch so far.
LEMMA HandledAt ==
  ASSUME PipelineInv, NEW w \in Workers, NEW o \in Settlement
  PROVE  /\ Handled(w, o) \in Seq(Settlement)
         /\ Len(Handled(w, o)) = Len(done[w]) + 1
         /\ {Handled(w, o)[i] : i \in DOMAIN Handled(w, o)} = DoneOf(w) \cup {o}
<1>1. done[w] \in Seq(Settlement) /\ <<o>> \in Seq(Settlement)
  BY DEF PipelineInv, TypeOK
<1>2. CASE o.outcome = "ack"
  <2> DEFINE s == <<o>> \o done[w]
  <2>1. Handled(w, o) = s
    BY <1>2 DEF Handled
  <2>2. s \in Seq(Settlement) /\ Len(s) = Len(done[w]) + 1
    BY <1>1
  <2>3. s[1] = o /\ \A i \in 1..Len(done[w]) : s[i + 1] = done[w][i]
    BY <1>1
  <2>4. \A i \in DOMAIN s : i = 1 \/ (i - 1 \in 1..Len(done[w]) /\ s[i] = done[w][i - 1])
    BY <1>1, <2>2
  <2>5. {s[i] : i \in DOMAIN s} = DoneOf(w) \cup {o}
    <3>1. ASSUME NEW x \in {s[i] : i \in DOMAIN s} PROVE x \in DoneOf(w) \cup {o}
      <4> HIDE DEF s
      <4>1. QED
        BY <1>1, <2>3, <2>4 DEF DoneOf
    <3>2. ASSUME NEW x \in DoneOf(w) PROVE x \in {s[i] : i \in DOMAIN s}
      <4>1. PICK i \in 1..Len(done[w]) : x = done[w][i]
        BY <1>1 DEF DoneOf
      <4>2. i + 1 \in DOMAIN s /\ x = s[i + 1]
        BY <1>1, <2>2, <2>3, <4>1
      <4> HIDE DEF s
      <4>3. QED
        BY <4>2
    <3>3. 1 \in DOMAIN s /\ s[1] = o
      BY <1>1, <2>2, <2>3
    <3> HIDE DEF s
    <3>4. QED
      BY <3>1, <3>2, <3>3
  <2> HIDE DEF s
  <2>6. QED
    BY <2>1, <2>2, <2>5
<1>3. CASE o.outcome # "ack"
  <2> DEFINE s == Append(done[w], o)
  <2>1. Handled(w, o) = s
    BY <1>3 DEF Handled
  <2>2. s \in Seq(Settlement) /\ Len(s) = Len(done[w]) + 1
    BY <1>1
  <2>3. s[Len(done[w]) + 1] = o /\ \A i \in 1..Len(done[w]) : s[i] = done[w][i]
    BY <1>1
  <2>4. {s[i] : i \in DOMAIN s} = DoneOf(w) \cup {o}
    <3>1. DOMAIN s = 1..(Len(done[w]) + 1) /\ DOMAIN done[w] = 1..Len(done[w])
          /\ Len(done[w]) \in Nat
      BY <1>1, <2>2
    <3> HIDE DEF s
    <3>2. QED
      BY <2>3, <3>1 DEF DoneOf
  <2> HIDE DEF s
  <2>5. QED
    BY <2>1, <2>2, <2>4
<1>4. QED
  BY <1>2, <1>3

\* The first outcome is settled, the others stay.
LEMMA TailAt ==
  ASSUME PipelineInv, NEW w \in Workers, done[w] # <<>>
  PROVE  /\ Head(done[w]) \in Settlement
         /\ Tail(done[w]) \in Seq(Settlement)
         /\ Len(Tail(done[w])) = Len(done[w]) - 1
         /\ LET rest == {Tail(done[w])[i] : i \in DOMAIN Tail(done[w])}
            IN  rest \subseteq DoneOf(w) /\ DoneOf(w) \subseteq rest \cup {Head(done[w])}
<1> DEFINE s == Tail(done[w])
<1>1. done[w] \in Seq(Settlement) /\ Len(done[w]) \in Nat \ {0}
  BY DEF PipelineInv, TypeOK
<1>2. /\ Head(done[w]) = done[w][1] /\ Head(done[w]) \in Settlement
      /\ s \in Seq(Settlement) /\ Len(s) = Len(done[w]) - 1
  BY <1>1
<1>3. DOMAIN s = 1..(Len(done[w]) - 1) /\ DOMAIN done[w] = 1..Len(done[w])
  BY <1>1, <1>2
<1>4. \A i \in 1..(Len(done[w]) - 1) : s[i] = done[w][i + 1]
  BY <1>1
<1> HIDE DEF s
<1>5. {s[i] : i \in DOMAIN s} \subseteq DoneOf(w)
  BY <1>1, <1>3, <1>4 DEF DoneOf
<1>6. DoneOf(w) \subseteq {s[i] : i \in DOMAIN s} \cup {Head(done[w])}
  <2>1. SUFFICES ASSUME NEW i \in 1..Len(done[w]), i # 1
                 PROVE  done[w][i] \in {s[k] : k \in DOMAIN s}
    BY <1>2, <1>3 DEF DoneOf
  <2>2. i - 1 \in DOMAIN s /\ s[i - 1] = done[w][i]
    BY <1>1, <1>3, <1>4, <2>1
  <2>3. QED
    BY <2>2
<1>7. QED
  BY <1>2, <1>5, <1>6 DEF s

-----------------------------------------------------------------------------
(* Frames. *)

\* What is in hand in a step of a handler.
LEMMA InHand ==
  ASSUME PipelineInv, NEW w \in Workers, pc[w] \notin {"idle", "settling"}
  PROVE  /\ msg[w] \in Message /\ msg[w] # NoMsg
         /\ JobOf(w) \in Jobs /\ msg[w].q \in Queues
         /\ Running(w, msg[w].q, JobOf(w))
<1>1. msg[w] \in Message /\ msg[w] # NoMsg
  BY DEF PipelineInv, TypeOK, WorkerInv
<1>2. QED
  BY <1>1 DEF Message, JobOf, Running

\* A job about which nothing new is known keeps its part of the invariant.
LEMMA JobKept ==
  ASSUME NEW j \in Jobs, JobInv(j), job'[j] = job[j], api'[j] = api[j],
         \A q \in Queues : Has(q, j)' => Has(q, j),
         \A t \in Topics : log'[t][j] > 0 => log[t][j] > 0,
         At("emit_embedded", j)' => At("emit_embedded", j),
         At("emit_completed", j)' => At("emit_completed", j),
         Carried(j) => Carried(j)' \/ GivenUp(j)',
         GivenUp(j) => GivenUp(j)'
  PROVE  JobInv(j)'
<1>1. EmbeddedInv(j)'
  BY DEF JobInv, EmbeddedInv, Topics, Queues
<1>2. KindInv(j)'
  BY DEF JobInv, KindInv, Topics, Queues
<1>3. IdleInv(j)'
  BY DEF JobInv, IdleInv
<1>4. CarriedInv(j)'
  BY DEF JobInv, CarriedInv, Terminal
<1>5. QED
  BY <1>1, <1>2, <1>3, <1>4 DEF JobInv

\* As long as messages and workers stay, so does what is known from them.
LEMMA MessagesKept ==
  ASSUME NEW j \in Jobs, UNCHANGED <<queue, msg, done>>
  PROVE  /\ \A q \in Queues : Has(q, j)' <=> Has(q, j)
         /\ \A w \in Workers : DoneOf(w)' = DoneOf(w)
BY DEF Has, DoneOf, Running

\* Init
LEMMA SearchInit == Init => SearchInv
<1> SUFFICES ASSUME Init PROVE SearchInv
  OBVIOUS
<1> USE SearchAssumption
<1> DEFINE r0 == [status |-> "absent", rerank |-> FALSE, embedding |-> FALSE,
                  results |-> "none", error_code |-> "none"]
<1>1. r0 \in Row
  BY DEF Row
<1>2. /\ log \in [Topics -> [Jobs -> Nat]] /\ queue \in [Queues -> [Jobs -> Nat]]
      /\ dlq \in [Queues -> [Jobs -> Nat]]
      /\ \A t \in Topics, j \in Jobs : ~(log[t][j] > 0)
      /\ \A q \in Queues, j \in Jobs : ~(queue[q][j] > 0)
  BY DEF Init
<1>3. done \in [Workers -> Seq(Settlement)] /\ \A w \in Workers : Len(done[w]) = 0 /\ DoneOf(w) = {}
  BY DEF Init, DoneOf
<1>4. /\ job = [j \in Jobs |-> r0] /\ api = [j \in Jobs |-> "idle"]
      /\ pc = [w \in Workers |-> "idle"] /\ msg = [w \in Workers |-> NoMsg]
      /\ loop = "free" /\ lost = [j \in Jobs |-> 0] /\ crashes = 0 /\ faults = 0
  BY DEF Init
<1> HIDE DEF r0
<1>5. TypeOK
  <2>1. pc \in [Workers -> Steps]
    BY <1>4 DEF Steps
  <2>2. job \in [Jobs -> Row]
    BY <1>1, <1>4
  <2>3. crashes \in 0..MaxCrashes /\ faults \in 0..MaxFaults /\ lost \in [Jobs -> Nat]
    BY <1>4
  <2>4. QED
    BY <1>2, <1>3, <1>4, <2>1, <2>2, <2>3 DEF TypeOK
<1>6. \A w \in Workers : WorkerInv(w)
  BY <1>3, <1>4 DEF WorkerInv
<1>7. NoMsg \notin Message
  BY DEF Message, Queues
<1>8. ASSUME NEW j \in Jobs PROVE JobInv(j)
  <2>1. job[j].status = "absent" /\ job[j].results = "none"
    BY <1>4 DEF r0
  <2>2. \A q \in Queues : ~Has(q, j)
    BY <1>2, <1>3, <1>4, <1>7 DEF Has, Running, Message
  <2>3. ~At("emit_embedded", j) /\ ~At("emit_completed", j)
    BY <1>4 DEF At
  <2>4. QED
    BY <1>2, <2>1, <2>2, <2>3
       DEF JobInv, EmbeddedInv, KindInv, IdleInv, CarriedInv, Topics, Queues
<1>9. QED
  BY <1>5, <1>6, <1>8 DEF SearchInv, PipelineInv

-----------------------------------------------------------------------------
(* One lemma per group of steps. *)

\* A step that moves no message and no worker keeps the workers' part.
LEMMA WorkersKept ==
  ASSUME PipelineInv, UNCHANGED <<pc, msg, done>>
  PROVE  \A w \in Workers : WorkerInv(w)'
BY DEF PipelineInv, WorkerInv

\* POST /search inserts the row, then publishes; in between it may die.
LEMMA ApiStep ==
  ASSUME SearchInv, NEW i \in Jobs, NEW rerank \in BOOLEAN,
         CreateJob(i, rerank) \/ PublishCreated(i) \/ ApiCrash(i)
  PROVE  SearchInv'
<1> USE SearchAssumption
<1>0. PipelineInv /\ TypeOK /\ JobInv(i)
  BY DEF SearchInv, PipelineInv
<1>1. UNCHANGED <<queue, dlq, pc, msg, done, loop, lost, faults>>
  BY DEF CreateJob, PublishCreated, ApiCrash
<1>2. \A w \in Workers : WorkerInv(w)'
  BY <1>0, <1>1, WorkersKept
<1>3. /\ api' \in [Jobs -> {"idle", "inserted", "answered", "crashed"}]
      /\ \A j \in Jobs : j # i => api'[j] = api[j]
      /\ crashes' \in 0..MaxCrashes
  <2>1. \E a \in {"inserted", "answered", "crashed"} : api' = [api EXCEPT ![i] = a]
    BY DEF CreateJob, PublishCreated, ApiCrash
  <2>2. crashes' \in 0..MaxCrashes
    BY <1>0 DEF CreateJob, PublishCreated, ApiCrash, Crashing, TypeOK
  <2>3. QED
    BY <1>0, <2>1, <2>2 DEF TypeOK
<1>4. /\ job' \in [Jobs -> Row]
      /\ \A j \in Jobs : j # i => job'[j] = job[j]
  <2>1. job \in [Jobs -> Row] /\ job[i] \in Row
    BY <1>0 DEF TypeOK
  <2> DEFINE r == [[job[i] EXCEPT !.status = "embedding"] EXCEPT !.rerank = rerank]
  <2>2. r \in Row
    BY <2>1 DEF Row
  <2>3. job' = [job EXCEPT ![i] = r] \/ job' = job
    BY <1>0 DEF CreateJob, PublishCreated, ApiCrash, TypeOK
  <2> HIDE DEF r
  <2>4. QED
    BY <2>1, <2>2, <2>3
<1>5. /\ log' \in [Topics -> [Jobs -> Nat]]
      /\ \A t \in Topics, j \in Jobs : j # i => log'[t][j] = log[t][j]
      /\ PublishCreated(i) => \A t \in Topics : t # "created" => log'[t][i] = log[t][i]
      /\ PublishCreated(i) => log'["created"][i] > 0
      /\ ~PublishCreated(i) => log' = log
  <2>1. "created" \in Topics /\ log \in [Topics -> [Jobs -> Nat]]
    BY <1>0 DEF Topics, TypeOK
  <2>2. CASE PublishCreated(i)
    BY <2>1, <2>2, AddAt DEF PublishCreated
  <2>3. CASE ~PublishCreated(i)
    BY <2>1, <2>3 DEF CreateJob, ApiCrash
  <2>4. QED
    BY <2>2, <2>3
<1>6. TypeOK'
  BY <1>0, <1>1, <1>3, <1>4, <1>5 DEF TypeOK
<1>7. ASSUME NEW j \in Jobs, j # i PROVE JobInv(j)'
  <2>1. Carried(j) => Carried(j)'
    BY <1>1, <1>3, <1>5, <1>7, MessagesKept DEF Carried
  <2>2. GivenUp(j) => GivenUp(j)'
    BY <1>1, <1>3, <1>7 DEF GivenUp
  <2>3. /\ At("emit_embedded", j)' => At("emit_embedded", j)
        /\ At("emit_completed", j)' => At("emit_completed", j)
    BY <1>1 DEF At
  <2>4. /\ JobInv(j) /\ job'[j] = job[j] /\ api'[j] = api[j]
        /\ \A q \in Queues : Has(q, j)' => Has(q, j)
        /\ \A t \in Topics : log'[t][j] > 0 => log[t][j] > 0
    BY <1>1, <1>3, <1>4, <1>5, <1>7, MessagesKept DEF SearchInv
  <2>5. QED
    BY <2>1, <2>2, <2>3, <2>4, JobKept
<1>8. JobInv(i)'
  <2>1. /\ \A q \in Queues : Has(q, i)' <=> Has(q, i)
        /\ At("emit_embedded", i)' <=> At("emit_embedded", i)
        /\ At("emit_completed", i)' <=> At("emit_completed", i)
    BY <1>1, MessagesKept DEF At
  <2>2. CASE CreateJob(i, rerank)
    <3>1. /\ api[i] = "idle" /\ api'[i] = "inserted" /\ log' = log
          /\ job'[i].status = "embedding" /\ job'[i].results = job[i].results
          /\ job'[i].embedding = job[i].embedding
      BY <1>0, <2>2 DEF CreateJob, TypeOK, Row
    <3>2. /\ job[i].results = "none" /\ \A q \in Queues : ~Has(q, i)
          /\ \A t \in Topics : ~(log[t][i] > 0)
      BY <1>0, <3>1 DEF JobInv, IdleInv
    <3>3. ~At("emit_completed", i)
      <4>1. SUFFICES ASSUME NEW w \in Workers, pc[w] = "emit_completed", msg[w].j = i PROVE FALSE
        BY DEF At
      <4>2. msg[w].q \in Queues /\ Running(w, msg[w].q, i)
        BY <1>0, <4>1, InHand DEF JobOf
      <4>3. QED
        BY <3>2, <4>2 DEF Has
    <3>4. EmbeddedInv(i)' /\ KindInv(i)'
      BY <1>0, <2>1, <3>1, <3>2, <3>3 DEF JobInv, EmbeddedInv, KindInv, Topics, Queues
    <3>5. IdleInv(i)' /\ CarriedInv(i)'
      BY <3>1 DEF IdleInv, CarriedInv, Carried
    <3>6. QED
      BY <3>4, <3>5 DEF JobInv
  <2>3. CASE PublishCreated(i)
    <3>1. api'[i] = "answered" /\ job' = job /\ log'["created"][i] > 0
      BY <1>0, <1>5, <2>3 DEF PublishCreated, TypeOK
    <3>2. EmbeddedInv(i)' /\ KindInv(i)'
      BY <1>0, <1>5, <2>1, <2>3, <3>1 DEF JobInv, EmbeddedInv, KindInv, Topics, Queues
    <3>3. IdleInv(i)' /\ CarriedInv(i)'
      BY <3>1 DEF IdleInv, CarriedInv, Carried, Topics
    <3>4. QED
      BY <3>2, <3>3 DEF JobInv
  <2>4. CASE ApiCrash(i)
    <3>1. api'[i] = "crashed" /\ job' = job /\ log' = log
      BY <1>0, <2>4 DEF ApiCrash, TypeOK
    <3>2. EmbeddedInv(i)' /\ KindInv(i)'
      BY <1>0, <2>1, <3>1 DEF JobInv, EmbeddedInv, KindInv, Topics, Queues
    <3>3. IdleInv(i)' /\ CarriedInv(i)'
      BY <3>1 DEF IdleInv, CarriedInv, GivenUp
    <3>4. QED
      BY <3>2, <3>3 DEF JobInv
  <2>5. QED
    BY <2>2, <2>3, <2>4
<1>9. QED
  BY <1>2, <1>6, <1>7, <1>8 DEF SearchInv, PipelineInv

\* The chunk worker takes or returns the loop.
LEMMA LoopStep ==
  ASSUME SearchInv, ChunkTakesLoop \/ ChunkReturnsLoop \/ UNCHANGED vars
  PROVE  SearchInv'
<1>1. /\ UNCHANGED <<job, api, log, queue, dlq, pc, msg, done, lost, crashes, faults>>
      /\ loop' \in {"free", "chunk"} \cup CpuWorkers
  BY DEF ChunkTakesLoop, ChunkReturnsLoop, vars, SearchInv, PipelineInv, TypeOK
<1>2. TypeOK'
  BY <1>1 DEF SearchInv, PipelineInv, TypeOK
<1>3. \A w \in Workers : WorkerInv(w)'
  BY <1>1, WorkersKept DEF SearchInv
<1>4. ASSUME NEW j \in Jobs PROVE JobInv(j)'
  <2>1. Carried(j) => Carried(j)'
    BY <1>1, MessagesKept DEF Carried
  <2>2. GivenUp(j) => GivenUp(j)'
    BY <1>1 DEF GivenUp
  <2>3. /\ At("emit_embedded", j)' => At("emit_embedded", j)
        /\ At("emit_completed", j)' => At("emit_completed", j)
    BY <1>1 DEF At
  <2>4. /\ JobInv(j) /\ job'[j] = job[j] /\ api'[j] = api[j]
        /\ \A q \in Queues : Has(q, j)' => Has(q, j)
        /\ \A t \in Topics : log'[t][j] > 0 => log[t][j] > 0
    BY <1>1, MessagesKept DEF SearchInv
  <2>5. QED
    BY <2>1, <2>2, <2>3, <2>4, JobKept
<1>5. QED
  BY <1>2, <1>3, <1>4 DEF SearchInv, PipelineInv

\* An event becomes a message, or is lost with its dispatcher.
LEMMA DispatchStep ==
  ASSUME SearchInv, NEW t \in Topics, NEW i \in Jobs,
         Dispatch(t, i) \/ DispatcherCrash(t, i)
  PROVE  SearchInv'
<1> USE SearchAssumption
<1>0. /\ PipelineInv /\ TypeOK /\ JobInv(i)
      /\ log \in [Topics -> [Jobs -> Nat]] /\ queue \in [Queues -> [Jobs -> Nat]]
  BY DEF SearchInv, PipelineInv, TypeOK
<1>1. /\ t # "completed" /\ log[t][i] > 0 /\ log' = Remove(log, t, i)
      /\ UNCHANGED <<job, api, dlq, pc, msg, done, loop, faults>>
  BY DEF Dispatch, DispatcherCrash
<1>2. \A w \in Workers : WorkerInv(w)'
  BY <1>0, <1>1, WorkersKept
<1>3. /\ log' \in [Topics -> [Jobs -> Nat]]
      /\ \A l \in Topics, j \in Jobs : log'[l][j] > 0 => log[l][j] > 0
      /\ \A l \in Topics, j \in Jobs : j # i => log'[l][j] = log[l][j]
  <2>1. /\ log' \in [Topics -> [Jobs -> Nat]]
        /\ \A l \in Topics, j \in Jobs :
             log'[l][j] = IF l = t /\ j = i THEN log[l][j] - 1 ELSE log[l][j]
    BY <1>0, <1>1, RemoveAt
  <2>2. \A l \in Topics, j \in Jobs : log[l][j] \in Nat
    BY <1>0
  <2>3. QED
    BY <2>1, <2>2
<1>4. /\ crashes' \in 0..MaxCrashes /\ lost' \in [Jobs -> Nat]
      /\ \A j \in Jobs : lost[j] > 0 => lost'[j] > 0
  <2>1. crashes' \in 0..MaxCrashes
    BY <1>0 DEF Dispatch, DispatcherCrash, Crashing, TypeOK
  <2>2. lost' = lost \/ lost' = [lost EXCEPT ![i] = @ + 1]
    BY DEF Dispatch, DispatcherCrash
  <2>3. lost \in [Jobs -> Nat]
    BY <1>0 DEF TypeOK
  <2>4. QED
    BY <2>1, <2>2, <2>3
<1>5. /\ queue' \in [Queues -> [Jobs -> Nat]]
      /\ \A q \in Queues, j \in Jobs : queue[q][j] > 0 => queue'[q][j] > 0
      /\ \A q \in Queues, j \in Jobs :
           queue'[q][j] > 0 => queue[q][j] > 0 \/ (Dispatch(t, i) /\ j = i /\ q \in RouteOf(t, i))
      /\ Dispatch(t, i) => \A q \in RouteOf(t, i) \cap Queues : queue'[q][i] > 0
  <2>1. CASE Dispatch(t, i)
    <3>1. queue' = [q \in Queues |-> IF q \in RouteOf(t, i)
                                     THEN [queue[q] EXCEPT ![i] = @ + 1] ELSE queue[q]]
      BY <2>1 DEF Dispatch
    <3>2. \A q \in Queues : queue[q] \in [Jobs -> Nat]
      BY <1>0
    <3>3. \A q \in Queues : queue'[q] \in [Jobs -> Nat]
      BY <3>1, <3>2
    <3>4. \A q \in Queues, j \in Jobs :
            queue'[q][j] = IF j = i /\ q \in RouteOf(t, i) THEN queue[q][j] + 1 ELSE queue[q][j]
      BY <3>1, <3>2
    <3>5. queue' \in [Queues -> [Jobs -> Nat]]
      BY <3>1, <3>3
    <3>6. \A q \in Queues, j \in Jobs : queue[q][j] \in Nat
      BY <3>2
    <3>7. QED
      BY <2>1, <3>4, <3>5, <3>6
  <2>2. CASE ~Dispatch(t, i)
    BY <1>0, <2>2 DEF DispatcherCrash
  <2>3. QED
    BY <2>1, <2>2
<1>6. TypeOK'
  BY <1>0, <1>1, <1>3, <1>4, <1>5 DEF TypeOK
<1>7. /\ RouteOf(t, i) \subseteq Queues /\ RouteOf(t, i) # {}
      /\ "run" \in RouteOf(t, i) => t = "embedded"
      /\ "rerank" \in RouteOf(t, i) => job[i].rerank
      /\ "finalize" \in RouteOf(t, i) => ~job[i].rerank
  <2>1. t \in {"created", "embedded", "candidates"}
    BY <1>1 DEF Topics
  <2>2. QED
    BY <2>1 DEF RouteOf, Queues
<1>8. ASSUME NEW j \in Jobs, NEW q \in Queues, Has(q, j)'
      PROVE  Has(q, j) \/ (Dispatch(t, i) /\ j = i /\ q \in RouteOf(t, i))
  BY <1>1, <1>5, <1>8 DEF Has, DoneOf, Running
<1>9. ASSUME NEW j \in Jobs
      PROVE  /\ At("emit_embedded", j)' => At("emit_embedded", j)
             /\ At("emit_completed", j)' => At("emit_completed", j)
             /\ GivenUp(j) => GivenUp(j)'
             /\ Carried(j) => Carried(j)' \/ GivenUp(j)'
  <2>1. At("emit_embedded", j)' <=> At("emit_embedded", j)
    BY <1>1 DEF At
  <2>2. At("emit_completed", j)' <=> At("emit_completed", j)
    BY <1>1 DEF At
  <2>3. GivenUp(j) => GivenUp(j)'
    BY <1>1, <1>4 DEF GivenUp
  <2>4. CASE j # i
    <3>1. Carried(j) => Carried(j)'
      BY <1>1, <1>3, <1>5, <2>4 DEF Carried, DoneOf
    <3>2. QED
      BY <2>1, <2>2, <2>3, <3>1
  <2>5. CASE j = i /\ Dispatch(t, i)
    <3>1. \E q \in Queues : queue'[q][i] > 0
      BY <1>5, <1>7, <2>5
    <3>2. QED
      BY <2>1, <2>2, <2>3, <2>5, <3>1 DEF Carried
  <2>6. CASE j = i /\ DispatcherCrash(t, i)
    <3>1. lost'[i] > 0
      BY <1>0, <2>6 DEF DispatcherCrash, TypeOK
    <3>2. QED
      BY <2>1, <2>2, <2>3, <2>6, <3>1 DEF GivenUp
  <2>7. QED
    BY <2>1, <2>2, <2>3, <2>4, <2>5, <2>6
<1>10. ASSUME NEW j \in Jobs PROVE JobInv(j)'
  <2>1. JobInv(j) /\ job' = job /\ api' = api
    BY <1>1 DEF SearchInv
  <2>2. CASE j # i
    BY <1>3, <1>8, <1>9, <2>1, <2>2, JobKept
  <2>3. CASE j = i
    <3>1. EmbeddedInv(i)'
      BY <1>1, <1>3, <1>7, <1>8, <1>9, <2>1, <2>3 DEF JobInv, EmbeddedInv, Queues, Topics
    <3>2. KindInv(i)'
      BY <1>3, <1>7, <1>8, <1>9, <2>1, <2>3 DEF JobInv, KindInv, Queues, Topics
    <3>3. IdleInv(i)'
      BY <1>1, <2>1, <2>3 DEF JobInv, IdleInv
    <3>4. CarriedInv(i)'
      BY <1>9, <2>1, <2>3 DEF JobInv, CarriedInv, Terminal
    <3>5. QED
      BY <2>3, <3>1, <3>2, <3>3, <3>4 DEF JobInv
  <2>4. QED
    BY <2>2, <2>3
<1>11. QED
  BY <1>2, <1>6, <1>10 DEF SearchInv, PipelineInv

\* The steps below move messages between queues and workers: no job's row changes and
\* no event, and each job keeps what is said of it if its messages are all still there.
LEMMA MovedMessages ==
  ASSUME SearchInv, TypeOK', \A w \in Workers : WorkerInv(w)',
         UNCHANGED <<job, api, log, lost>>,
         \A j \in Jobs, q \in Queues : Has(q, j)' => Has(q, j),
         \A j \in Jobs : At("emit_embedded", j)' => At("emit_embedded", j),
         \A j \in Jobs : At("emit_completed", j)' => At("emit_completed", j),
         \A j \in Jobs, q \in Queues : dlq[q][j] > 0 => dlq'[q][j] > 0,
         \A j \in Jobs : Carried(j) => Carried(j)' \/ GivenUp(j)'
  PROVE  SearchInv'
<1>1. ASSUME NEW j \in Jobs PROVE JobInv(j)'
  <2>1. GivenUp(j) => GivenUp(j)'
    BY DEF GivenUp
  <2>2. JobInv(j) /\ \A t \in Topics : log'[t][j] > 0 => log[t][j] > 0
    BY DEF SearchInv
  <2>3. QED
    BY <2>1, <2>2, JobKept
<1>2. QED
  BY <1>1 DEF SearchInv, PipelineInv

\* A worker takes a message; if another thread runs the loop, it is rejected.
LEMMA DeliverStep ==
  ASSUME SearchInv, NEW w \in Workers, NEW q \in QueuesOf(w), NEW i \in Jobs,
         Deliver(w, q, i)
  PROVE  SearchInv'
<1> USE SearchAssumption
<1> DEFINE m == [q |-> q, j |-> i]
           o == Outcome(m, "nack")
<1>0. /\ PipelineInv /\ TypeOK /\ WorkerInv(w)
      /\ queue \in [Queues -> [Jobs -> Nat]] /\ done \in [Workers -> Seq(Settlement)]
      /\ msg \in [Workers -> Message \cup {NoMsg}] /\ pc \in [Workers -> Steps]
  BY DEF SearchInv, PipelineInv, TypeOK
<1>1. q \in Queues
  BY DEF QueuesOf, Queues, Workers, CpuWorkers
<1>2. m \in Message /\ m # NoMsg /\ m.q = q /\ m.j = i
  BY <1>1 DEF Message, Queues
<1>3. o \in Settlement /\ o.q = q /\ o.j = i /\ o.outcome = "nack"
  BY <1>1 DEF Outcome, Settlement
<1>4. /\ pc[w] = "idle" /\ Len(done[w]) < BatchOf(w) /\ queue[q][i] > 0
      /\ queue' = Remove(queue, q, i)
      /\ UNCHANGED <<job, api, log, dlq, lost, crashes, faults>>
  BY DEF Deliver
<1>5. \/ /\ msg' = [msg EXCEPT ![w] = m] /\ pc' = [pc EXCEPT ![w] = FirstStep(q)]
         /\ loop' = (IF w \in CpuWorkers THEN w ELSE loop) /\ done' = done
      \/ /\ done' = [done EXCEPT ![w] = Handled(w, o)]
         /\ UNCHANGED <<msg, pc, loop>>
  BY DEF Deliver, Goto
<1>6. msg[w] = NoMsg /\ Len(done[w]) < GpuBatch /\ Len(done[w]) \in Nat
  <2>1. BatchOf(w) <= GpuBatch /\ BatchOf(w) \in Nat /\ GpuBatch \in Nat
    BY DEF BatchOf
  <2>2. msg[w] = NoMsg /\ done[w] \in Seq(Settlement)
    BY <1>0, <1>4 DEF WorkerInv
  <2>3. QED
    BY <1>4, <2>1, <2>2
<1>7. /\ FirstStep(q) \in Steps \ {"idle", "settling", "returned", "emit_completed", "emit_embedded"}
      /\ FirstStep(q) = "complete_ann" => q = "finalize"
      /\ FirstStep(q) \in {"mark_reranking", "complete_reranked"} => q = "rerank"
  BY <1>1 DEF FirstStep, Steps, Queues
<1>8. /\ Handled(w, o) \in Seq(Settlement)
      /\ Len(Handled(w, o)) = Len(done[w]) + 1
      /\ {Handled(w, o)[k] : k \in DOMAIN Handled(w, o)} = DoneOf(w) \cup {o}
  BY <1>0, <1>3, HandledAt
<1>9. /\ queue' \in [Queues -> [Jobs -> Nat]]
      /\ \A p \in Queues, j \in Jobs :
           /\ queue'[p][j] > 0 => queue[p][j] > 0
           /\ queue[p][j] > 0 => queue'[p][j] > 0 \/ (p = q /\ j = i)
  <2>1. /\ queue' \in [Queues -> [Jobs -> Nat]]
        /\ \A p \in Queues, j \in Jobs :
             queue'[p][j] = IF p = q /\ j = i THEN queue[p][j] - 1 ELSE queue[p][j]
    BY <1>0, <1>1, <1>4, RemoveAt
  <2>2. \A p \in Queues, j \in Jobs : queue[p][j] \in Nat
    BY <1>0
  <2>3. QED
    BY <2>1, <2>2
<1> HIDE DEF m, o
<1>10. CASE /\ msg' = [msg EXCEPT ![w] = m] /\ pc' = [pc EXCEPT ![w] = FirstStep(q)]
            /\ loop' = (IF w \in CpuWorkers THEN w ELSE loop) /\ done' = done
  <2>1. /\ msg'[w] = m /\ pc'[w] = FirstStep(q)
        /\ msg' \in [Workers -> Message \cup {NoMsg}] /\ pc' \in [Workers -> Steps]
        /\ \A v \in Workers : v # w => msg'[v] = msg[v] /\ pc'[v] = pc[v]
        /\ \A v \in Workers : DoneOf(v)' = DoneOf(v)
    BY <1>0, <1>2, <1>7, <1>10 DEF DoneOf
  <2>2. TypeOK'
    <3>1. loop' \in {"free", "chunk"} \cup CpuWorkers
      BY <1>0, <1>10 DEF TypeOK
    <3>2. QED
      BY <1>0, <1>4, <1>9, <1>10, <2>1, <3>1 DEF TypeOK
  <2>3. ASSUME NEW v \in Workers PROVE WorkerInv(v)'
    <3>1. CASE v = w
      BY <1>2, <1>6, <1>7, <1>10, <2>1, <3>1 DEF WorkerInv
    <3>2. CASE v # w
      BY <1>0, <1>10, <2>1, <3>2 DEF WorkerInv, PipelineInv
    <3>3. QED
      BY <3>1, <3>2
  <2>4. ASSUME NEW j \in Jobs, NEW p \in Queues, Has(p, j)' PROVE Has(p, j)
    <3>1. CASE \E v \in Workers : Running(v, p, j)'
      <4>1. PICK v \in Workers : msg'[v] = [q |-> p, j |-> j]
        BY <3>1 DEF Running
      <4>2. CASE v = w
        <5>1. p = q /\ j = i
          BY <1>2, <2>1, <4>1, <4>2
        <5>2. QED
          BY <1>4, <5>1 DEF Has
      <4>3. CASE v # w
        BY <2>1, <4>1, <4>3 DEF Has, Running
      <4>4. QED
        BY <4>2, <4>3
    <3>2. CASE ~\E v \in Workers : Running(v, p, j)'
      BY <1>9, <2>1, <2>4, <3>2 DEF Has
    <3>3. QED
      BY <3>1, <3>2
  <2>5. ASSUME NEW j \in Jobs
        PROVE  /\ At("emit_embedded", j)' => At("emit_embedded", j)
               /\ At("emit_completed", j)' => At("emit_completed", j)
    BY <1>7, <2>1 DEF At
  <2>6. ASSUME NEW j \in Jobs, Carried(j) PROVE Carried(j)'
    <3>1. CASE j = i
      BY <1>2, <1>7, <2>1, <3>1 DEF Carried
    <3>2. CASE j # i
      BY <1>4, <1>6, <1>9, <2>1, <2>6, <3>2 DEF Carried
    <3>3. QED
      BY <3>1, <3>2
  <2>7. QED
    BY <1>4, <2>2, <2>3, <2>4, <2>5, <2>6, MovedMessages
<1>11. CASE /\ done' = [done EXCEPT ![w] = Handled(w, o)]
            /\ UNCHANGED <<msg, pc, loop>>
  <2>1. /\ done' \in [Workers -> Seq(Settlement)] /\ done'[w] = Handled(w, o)
        /\ \A v \in Workers : v # w => done'[v] = done[v]
    BY <1>0, <1>8, <1>11
  <2>2. /\ DoneOf(w)' = DoneOf(w) \cup {o}
        /\ \A v \in Workers : v # w => DoneOf(v)' = DoneOf(v)
    BY <1>8, <2>1 DEF DoneOf
  <2>3. TypeOK'
    BY <1>0, <1>4, <1>9, <1>11, <2>1 DEF TypeOK
  <2>4. ASSUME NEW v \in Workers PROVE WorkerInv(v)'
    <3>1. CASE v = w
      BY <1>0, <1>4, <1>6, <1>8, <1>11, <2>1, <3>1 DEF WorkerInv
    <3>2. CASE v # w
      BY <1>0, <1>11, <2>1, <3>2 DEF WorkerInv, PipelineInv
    <3>3. QED
      BY <3>1, <3>2
  <2>5. ASSUME NEW j \in Jobs, NEW p \in Queues, Has(p, j)' PROVE Has(p, j)
    <3>1. CASE p = q /\ j = i
      BY <1>4, <3>1 DEF Has
    <3>2. CASE ~(p = q /\ j = i)
      <4>1. \A v \in Workers : \A d \in DoneOf(v)' : d.q = p /\ d.j = j => d \in DoneOf(v)
        BY <1>3, <2>2, <3>2
      <4>2. \A v \in Workers : Running(v, p, j)' => Running(v, p, j)
        BY <1>11 DEF Running
      <4>3. QED
        BY <1>9, <2>5, <4>1, <4>2 DEF Has
    <3>3. QED
      BY <3>1, <3>2
  <2>6. ASSUME NEW j \in Jobs
        PROVE  /\ At("emit_embedded", j)' => At("emit_embedded", j)
               /\ At("emit_completed", j)' => At("emit_completed", j)
    BY <1>11 DEF At
  <2>7. ASSUME NEW j \in Jobs, Carried(j) PROVE Carried(j)'
    <3>1. CASE j = i
      BY <1>3, <2>2, <3>1 DEF Carried
    <3>2. CASE j # i
      BY <1>4, <1>9, <1>11, <2>2, <2>7, <3>2 DEF Carried
    <3>3. QED
      BY <3>1, <3>2
  <2>8. QED
    BY <1>4, <2>3, <2>4, <2>5, <2>6, <2>7, MovedMessages
<1>12. QED
  BY <1>5, <1>10, <1>11

\* The handler's outcome joins those of the batch.
LEMMA ReturnStep ==
  ASSUME SearchInv, NEW w \in Workers, Return(w)
  PROVE  SearchInv'
<1> USE SearchAssumption
<1> DEFINE how == IF pc[w] = "returned" THEN "ack" ELSE "nack"
           o == Outcome(msg[w], how)
<1>0. /\ PipelineInv /\ TypeOK /\ WorkerInv(w)
      /\ done \in [Workers -> Seq(Settlement)]
      /\ msg \in [Workers -> Message \cup {NoMsg}] /\ pc \in [Workers -> Steps]
  BY DEF SearchInv, PipelineInv, TypeOK
<1>1. /\ pc[w] \in {"returned", "raised"}
      /\ done' = [done EXCEPT ![w] = Handled(w, o)]
      /\ msg' = [msg EXCEPT ![w] = NoMsg] /\ pc' = [pc EXCEPT ![w] = "idle"]
      /\ loop' = (IF w \in CpuWorkers THEN "free" ELSE loop)
      /\ UNCHANGED <<job, api, log, queue, dlq, lost, crashes, faults>>
  BY DEF Return, Goto
<1>2. /\ msg[w] \in Message /\ msg[w] # NoMsg /\ msg[w].j \in Jobs /\ msg[w].q \in Queues
      /\ Running(w, msg[w].q, msg[w].j)
  BY <1>0, <1>1, InHand DEF JobOf
<1>3. /\ o \in Settlement /\ o.q = msg[w].q /\ o.j = msg[w].j
      /\ o.outcome = "ack" => pc[w] = "returned"
      /\ o.outcome \in {"ack", "nack"}
  BY <1>2 DEF Outcome, Settlement
<1>4. /\ Handled(w, o) \in Seq(Settlement)
      /\ Len(Handled(w, o)) = Len(done[w]) + 1
      /\ {Handled(w, o)[k] : k \in DOMAIN Handled(w, o)} = DoneOf(w) \cup {o}
  BY <1>0, <1>3, HandledAt
<1>5. Len(done[w]) \in Nat /\ Len(done[w]) < GpuBatch
  BY <1>0, <1>2 DEF WorkerInv
<1> HIDE DEF how, o
<1>6. /\ msg'[w] = NoMsg /\ pc'[w] = "idle" /\ done'[w] = Handled(w, o)
      /\ done' \in [Workers -> Seq(Settlement)]
      /\ \A v \in Workers : v # w => msg'[v] = msg[v] /\ pc'[v] = pc[v] /\ done'[v] = done[v]
  BY <1>0, <1>1, <1>4
<1>7. msg' \in [Workers -> Message \cup {NoMsg}] /\ pc' \in [Workers -> Steps]
  BY <1>0, <1>1 DEF Steps
<1>8. /\ DoneOf(w)' = DoneOf(w) \cup {o}
      /\ \A v \in Workers : v # w => DoneOf(v)' = DoneOf(v)
  <2>1. DoneOf(w)' = {Handled(w, o)[k] : k \in DOMAIN Handled(w, o)}
    BY <1>6, Zenon DEF DoneOf
  <2>2. \A v \in Workers : v # w => DoneOf(v)' = DoneOf(v)
    BY <1>6, Zenon DEF DoneOf
  <2>3. QED
    BY <1>4, <2>1, <2>2
<1>9. TypeOK'
  <2>1. loop' \in {"free", "chunk"} \cup CpuWorkers
    BY <1>0, <1>1 DEF TypeOK
  <2>2. QED
    BY <1>0, <1>1, <1>6, <1>7, <2>1 DEF TypeOK
<1>10. ASSUME NEW v \in Workers PROVE WorkerInv(v)'
  <2>1. CASE v = w
    BY <1>4, <1>5, <1>6, <2>1 DEF WorkerInv
  <2>2. CASE v # w
    BY <1>0, <1>6, <2>2 DEF WorkerInv, PipelineInv
  <2>3. QED
    BY <2>1, <2>2
<1>11. ASSUME NEW j \in Jobs, NEW p \in Queues, Has(p, j)' PROVE Has(p, j)
  <2>1. CASE p = msg[w].q /\ j = msg[w].j
    BY <1>2, <2>1 DEF Has
  <2>2. CASE ~(p = msg[w].q /\ j = msg[w].j)
    <3>1. \A v \in Workers : \A d \in DoneOf(v)' : d.q = p /\ d.j = j => d \in DoneOf(v)
      BY <1>3, <1>8, <2>2
    <3>2. NoMsg # [q |-> p, j |-> j]
      BY DEF Queues
    <3>3. \A v \in Workers : Running(v, p, j)' => Running(v, p, j)
      BY <1>6, <3>2 DEF Running
    <3>4. QED
      BY <1>1, <1>11, <3>1, <3>3 DEF Has
  <2>3. QED
    BY <2>1, <2>2
<1>12. ASSUME NEW j \in Jobs
       PROVE  /\ At("emit_embedded", j)' => At("emit_embedded", j)
              /\ At("emit_completed", j)' => At("emit_completed", j)
  BY <1>6 DEF At
<1>13. ASSUME NEW j \in Jobs, Carried(j) PROVE Carried(j)'
  <2>1. CASE pc[w] = "raised" /\ j = msg[w].j
    BY <1>3, <1>8, <2>1 DEF Carried
  <2>2. CASE ~(pc[w] = "raised" /\ j = msg[w].j)
    BY <1>1, <1>6, <1>8, <1>13, <2>2 DEF Carried
  <2>3. QED
    BY <2>1, <2>2
<1>14. QED
  BY <1>1, <1>9, <1>10, <1>11, <1>12, <1>13, MovedMessages

\* A message is acknowledged, or goes to the dead-letter queue.
LEMMA SettleStep ==
  ASSUME SearchInv, NEW w \in Workers, Settle(w)
  PROVE  SearchInv'
<1> USE SearchAssumption
<1> DEFINE m == Head(done[w])
           s == Tail(done[w])
           next == IF Len(done[w]) = 1 THEN "idle" ELSE "settling"
<1>0. /\ PipelineInv /\ TypeOK /\ WorkerInv(w)
      /\ done \in [Workers -> Seq(Settlement)] /\ dlq \in [Queues -> [Jobs -> Nat]]
      /\ pc \in [Workers -> Steps]
  BY DEF SearchInv, PipelineInv, TypeOK
<1>1. /\ pc[w] \in {"idle", "settling"} /\ done[w] # <<>>
      /\ dlq' = IF m.outcome = "nack" THEN Add(dlq, m.q, m.j) ELSE dlq
      /\ done' = [done EXCEPT ![w] = s] /\ pc' = [pc EXCEPT ![w] = next]
      /\ UNCHANGED <<job, api, log, queue, msg, loop, lost, crashes, faults>>
  BY <1>0 DEF Settle, Goto
<1>2. /\ m \in Settlement /\ s \in Seq(Settlement) /\ Len(s) = Len(done[w]) - 1
      /\ {s[k] : k \in DOMAIN s} \subseteq DoneOf(w)
      /\ DoneOf(w) \subseteq {s[k] : k \in DOMAIN s} \cup {m}
  BY <1>0, <1>1, TailAt
<1>3. m.q \in Queues /\ m.j \in Jobs /\ next \in {"idle", "settling"}
  BY <1>2 DEF Settlement
<1> HIDE DEF m, s, next
<1>4. /\ pc'[w] \in {"idle", "settling"} /\ done'[w] = s /\ pc' \in [Workers -> Steps]
      /\ done' \in [Workers -> Seq(Settlement)]
      /\ \A v \in Workers : v # w => pc'[v] = pc[v] /\ done'[v] = done[v]
  BY <1>0, <1>1, <1>2, <1>3 DEF Steps
<1>5. /\ DoneOf(w)' \subseteq DoneOf(w) /\ DoneOf(w) \subseteq DoneOf(w)' \cup {m}
      /\ \A v \in Workers : v # w => DoneOf(v)' = DoneOf(v)
  <2>1. DoneOf(w)' = {s[k] : k \in DOMAIN s}
    BY <1>4, Zenon DEF DoneOf
  <2>2. \A v \in Workers : v # w => DoneOf(v)' = DoneOf(v)
    BY <1>4, Zenon DEF DoneOf
  <2>3. QED
    BY <1>2, <2>1, <2>2
<1>6. /\ dlq' \in [Queues -> [Jobs -> Nat]]
      /\ \A j \in Jobs, q \in Queues : dlq[q][j] > 0 => dlq'[q][j] > 0
      /\ m.outcome = "nack" => dlq'[m.q][m.j] > 0
  <2>1. CASE m.outcome = "nack"
    <3>1. /\ dlq' \in [Queues -> [Jobs -> Nat]]
          /\ \A q \in Queues, j \in Jobs :
               dlq'[q][j] = IF q = m.q /\ j = m.j THEN dlq[q][j] + 1 ELSE dlq[q][j]
      <4>1. dlq' = Add(dlq, m.q, m.j)
        BY <1>1, <2>1
      <4>2. \A a \in Queues, b \in Jobs :
              /\ Add(dlq, a, b) \in [Queues -> [Jobs -> Nat]]
              /\ \A q \in Queues, j \in Jobs :
                   Add(dlq, a, b)[q][j] = IF q = a /\ j = b THEN dlq[q][j] + 1 ELSE dlq[q][j]
        <5>1. dlq \in [Queues -> [Jobs -> Nat]]
          BY <1>0
        <5>2. QED
          BY <5>1, AddAt
      <4>3. QED
        BY <1>3, <4>1, <4>2
    <3>2. \A q \in Queues, j \in Jobs : dlq[q][j] \in Nat
      BY <1>0
    <3>3. QED
      BY <1>3, <3>1, <3>2
  <2>2. CASE m.outcome # "nack"
    BY <1>0, <1>1, <2>2
  <2>3. QED
    BY <2>1, <2>2
<1>7. TypeOK'
  BY <1>0, <1>1, <1>4, <1>6 DEF TypeOK
<1>8. ASSUME NEW v \in Workers PROVE WorkerInv(v)'
  <2>1. CASE v = w
    <3>1. Len(done[w]) <= GpuBatch /\ msg[w] = NoMsg /\ Len(done[w]) \in Nat
      BY <1>0, <1>1 DEF WorkerInv
    <3>2. QED
      BY <1>1, <1>2, <1>4, <2>1, <3>1 DEF WorkerInv
  <2>2. CASE v # w
    BY <1>0, <1>1, <1>4, <2>2 DEF WorkerInv, PipelineInv
  <2>3. QED
    BY <2>1, <2>2
<1>9. ASSUME NEW j \in Jobs, NEW p \in Queues, Has(p, j)' PROVE Has(p, j)
  BY <1>1, <1>5, <1>9 DEF Has, Running
<1>10. ASSUME NEW j \in Jobs
       PROVE  /\ At("emit_embedded", j)' => At("emit_embedded", j)
              /\ At("emit_completed", j)' => At("emit_completed", j)
  BY <1>1, <1>4 DEF At
<1>11. ASSUME NEW j \in Jobs, Carried(j) PROVE Carried(j)' \/ GivenUp(j)'
  <2>1. CASE m.j = j /\ m.outcome = "nack"
    BY <1>3, <1>6, <2>1 DEF GivenUp
  <2>2. CASE ~(m.j = j /\ m.outcome = "nack")
    <3>1. \A v \in Workers : \A d \in DoneOf(v) : d.j = j /\ d.outcome = "nack" => d \in DoneOf(v)'
      BY <1>5, <2>2
    <3>2. pc[w] \notin {"returned", "emit_completed"} /\ pc'[w] \notin {"returned", "emit_completed"}
      BY <1>1, <1>4
    <3>3. QED
      BY <1>1, <1>4, <1>11, <3>1, <3>2 DEF Carried
  <2>3. QED
    BY <2>1, <2>2
<1>12. QED
  BY <1>1, <1>6, <1>7, <1>8, <1>9, <1>10, <1>11, MovedMessages

\* A connection or a process ends: what its workers had is ready again.
LEMMA RequeueStep ==
  ASSUME SearchInv, NEW W \in SUBSET Workers,
         \/ W = {"gpu"} /\ ProcessCrash(W)
         \/ W = CpuWorkers /\ ProcessCrash(W)
         \/ \E w \in Workers : W = {w} /\ ConnectionLost(w)
  PROVE  SearchInv'
<1> USE SearchAssumption
<1>0. /\ PipelineInv /\ TypeOK
      /\ done \in [Workers -> Seq(Settlement)]
      /\ msg \in [Workers -> Message \cup {NoMsg}] /\ pc \in [Workers -> Steps]
  BY DEF SearchInv, PipelineInv, TypeOK
<1>1. /\ queue' = Requeued(W) /\ crashes < MaxCrashes /\ crashes' = crashes + 1
      /\ UNCHANGED <<job, api, log, dlq, lost, faults>>
      /\ loop' = loop \/ loop' = "free"
  BY DEF ProcessCrash, ConnectionLost, Crashing
<1>2. /\ \A w \in W : pc'[w] = "idle" /\ msg'[w] = NoMsg /\ done'[w] = <<>>
      /\ \A w \in Workers \ W : pc'[w] = pc[w] /\ msg'[w] = msg[w] /\ done'[w] = done[w]
      /\ msg' \in [Workers -> Message \cup {NoMsg}] /\ pc' \in [Workers -> Steps]
      /\ done' \in [Workers -> Seq(Settlement)]
  <2>1. <<>> \in Seq(Settlement) /\ "idle" \in Steps
    BY DEF Steps
  <2>2. CASE ProcessCrash(W)
    <3>1. /\ pc' = [w \in Workers |-> IF w \in W THEN "idle" ELSE pc[w]]
          /\ msg' = [w \in Workers |-> IF w \in W THEN NoMsg ELSE msg[w]]
          /\ done' = [w \in Workers |-> IF w \in W THEN <<>> ELSE done[w]]
      BY <2>2 DEF ProcessCrash
    <3>2. msg' \in [Workers -> Message \cup {NoMsg}] /\ pc' \in [Workers -> Steps]
      BY <1>0, <2>1, <3>1
    <3>3. done' \in [Workers -> Seq(Settlement)]
      BY <1>0, <2>1, <3>1
    <3>4. QED
      BY <3>1, <3>2, <3>3
  <2>3. CASE \E w \in Workers : W = {w} /\ ConnectionLost(w)
    <3>0. PICK w \in Workers : W = {w} /\ ConnectionLost(w)
      BY <2>3
    <3>1. /\ pc' = [pc EXCEPT ![w] = "idle"] /\ msg' = msg
          /\ done' = [done EXCEPT ![w] = <<>>] /\ pc[w] \in {"idle", "settling"}
      BY <3>0 DEF ConnectionLost, Goto
    <3>2. msg[w] = NoMsg
      BY <1>0, <3>1 DEF PipelineInv, WorkerInv
    <3>3. pc' \in [Workers -> Steps] /\ done' \in [Workers -> Seq(Settlement)]
      BY <1>0, <2>1, <3>1
    <3>4. QED
      BY <1>0, <3>0, <3>1, <3>2, <3>3
  <2>4. QED
    BY <2>2, <2>3
<1>3. \A w \in Workers : DoneOf(w)' = IF w \in W THEN {} ELSE DoneOf(w)
  BY <1>2 DEF DoneOf
<1>4. /\ queue' \in [Queues -> [Jobs -> Nat]]
      /\ \A q \in Queues, j \in Jobs :
           queue'[q][j] > 0 <=>
             \/ queue[q][j] > 0
             \/ \E w \in W : Running(w, q, j)
             \/ \E w \in W : \E o \in DoneOf(w) : o.q = q /\ o.j = j
  BY <1>0, <1>1, RequeuedAt
<1>5. TypeOK'
  <2>1. crashes' \in 0..MaxCrashes
    BY <1>0, <1>1 DEF TypeOK
  <2>2. QED
    BY <1>0, <1>1, <1>2, <1>4, <2>1 DEF TypeOK
<1>6. ASSUME NEW v \in Workers PROVE WorkerInv(v)'
  <2>1. CASE v \in W
    BY <1>2, <2>1 DEF WorkerInv
  <2>2. CASE v \notin W
    BY <1>0, <1>2, <2>2 DEF WorkerInv, PipelineInv
  <2>3. QED
    BY <2>1, <2>2
<1>7. ASSUME NEW j \in Jobs, NEW p \in Queues, Has(p, j)' PROVE Has(p, j)
  <2>1. NoMsg # [q |-> p, j |-> j]
    BY DEF Queues
  <2>2. \A v \in Workers : Running(v, p, j)' => Running(v, p, j)
    BY <1>2, <2>1 DEF Running
  <2>3. QED
    BY <1>3, <1>4, <1>7, <2>2 DEF Has
<1>8. ASSUME NEW j \in Jobs
      PROVE  /\ At("emit_embedded", j)' => At("emit_embedded", j)
             /\ At("emit_completed", j)' => At("emit_completed", j)
  BY <1>2 DEF At
<1>9. ASSUME NEW j \in Jobs, Carried(j) PROVE Carried(j)'
  <2>1. ASSUME NEW w \in W, msg[w] # NoMsg, msg[w].j = j PROVE \E q \in Queues : queue'[q][j] > 0
    <3>1. msg[w] \in Message
      BY <1>0, <2>1
    <3>2. msg[w].q \in Queues /\ Running(w, msg[w].q, j)
      BY <2>1, <3>1 DEF Message, Running
    <3>3. QED
      BY <1>4, <3>2
  <2>2. ASSUME NEW w \in W, NEW o \in DoneOf(w), o.j = j PROVE \E q \in Queues : queue'[q][j] > 0
    <3>1. o.q \in Queues
      <4>1. PICK k \in DOMAIN done[w] : o = done[w][k]
        BY DEF DoneOf
      <4>2. done[w] \in Seq(Settlement)
        BY <1>0
      <4>3. o \in Settlement
        BY <4>1, <4>2
      <4>4. QED
        BY <4>3 DEF Settlement
    <3>2. QED
      BY <1>4, <2>2, <3>1
  <2>3. QED
    BY <1>1, <1>2, <1>3, <1>4, <1>9, <2>1, <2>2 DEF Carried
<1>10. QED
  BY <1>1, <1>5, <1>6, <1>7, <1>8, <1>9, MovedMessages

\* A call raises: the handler goes to its except clause.
LEMMA FaultStep ==
  ASSUME SearchInv, NEW w \in Workers, RerankerGone(w) \/ Fault(w)
  PROVE  SearchInv'
<1> USE SearchAssumption
<1>0. PipelineInv /\ TypeOK /\ WorkerInv(w) /\ pc \in [Workers -> Steps]
  BY DEF SearchInv, PipelineInv, TypeOK
<1>1. PICK step \in {"raised", "fail", "fail_unavailable"} : pc' = [pc EXCEPT ![w] = step]
  BY DEF RerankerGone, Fault, OnFault, Goto
<1>2. pc[w] \notin {"idle", "settling"}
  BY DEF RerankerGone, Fault, OnFault
<1>3. /\ UNCHANGED <<job, api, log, queue, dlq, msg, done, loop, lost, crashes>>
      /\ faults' \in 0..MaxFaults
  BY <1>0 DEF RerankerGone, Fault, Faulting, TypeOK
<1>4. /\ pc' \in [Workers -> Steps] /\ pc'[w] \in {"raised", "fail", "fail_unavailable"}
      /\ \A v \in Workers : v # w => pc'[v] = pc[v]
  BY <1>0, <1>1 DEF Steps
<1>5. TypeOK'
  BY <1>0, <1>3, <1>4 DEF TypeOK
<1>6. ASSUME NEW v \in Workers PROVE WorkerInv(v)'
  BY <1>0, <1>2, <1>3, <1>4 DEF WorkerInv, PipelineInv
<1>7. ASSUME NEW j \in Jobs, NEW p \in Queues, Has(p, j)' PROVE Has(p, j)
  BY <1>3, <1>7, MessagesKept
<1>8. ASSUME NEW j \in Jobs
      PROVE  /\ At("emit_embedded", j)' => At("emit_embedded", j)
             /\ At("emit_completed", j)' => At("emit_completed", j)
  BY <1>3, <1>4 DEF At
<1>9. ASSUME NEW j \in Jobs, Carried(j) PROVE Carried(j)'
  BY <1>3, <1>4, <1>9, MessagesKept DEF Carried
<1>10. QED
  BY <1>3, <1>5, <1>6, <1>7, <1>8, <1>9, MovedMessages

\* An event is in the log once it is published, and no other is new.
LEMMA Published ==
  ASSUME log \in [Topics -> [Jobs -> Nat]], NEW topic \in Topics, NEW i \in Jobs,
         log' = Add(log, topic, i)
  PROVE  /\ log' \in [Topics -> [Jobs -> Nat]]
         /\ \A t \in Topics, j \in Jobs :
              log'[t][j] > 0 <=> log[t][j] > 0 \/ (t = topic /\ j = i)
<1>1. /\ log' \in [Topics -> [Jobs -> Nat]]
      /\ \A t \in Topics, j \in Jobs :
           log'[t][j] = IF t = topic /\ j = i THEN log[t][j] + 1 ELSE log[t][j]
  BY AddAt
<1>2. \A t \in Topics, j \in Jobs : log[t][j] \in Nat
  OBVIOUS
<1>3. QED
  BY <1>1, <1>2

\* A handler publishes the event of what it has stored, and returns.
LEMMA EmitStep ==
  ASSUME SearchInv, NEW w \in Workers, NEW step, NEW topic \in Topics, Emit(w, step, topic),
         \/ step = "emit_embedded" /\ topic = "embedded"
         \/ step = "emit_candidates" /\ topic = "candidates"
         \/ step = "emit_completed" /\ topic = "completed"
  PROVE  SearchInv'
<1> USE SearchAssumption
<1>0. /\ PipelineInv /\ TypeOK /\ WorkerInv(w) /\ pc \in [Workers -> Steps]
      /\ log \in [Topics -> [Jobs -> Nat]]
  BY DEF SearchInv, PipelineInv, TypeOK
<1>11. pc[w] = step /\ step \notin {"idle", "settling"}
  BY DEF Emit
<1>12. PICK i \in Jobs : i = JobOf(w)
  BY <1>0, <1>11, InHand
<1>1. /\ pc[w] = step /\ log' = Add(log, topic, i) /\ pc' = [pc EXCEPT ![w] = "returned"]
      /\ UNCHANGED <<job, api, queue, dlq, msg, done, loop, lost, crashes, faults>>
  BY <1>12 DEF Emit, Goto
<1>2. /\ i \in Jobs /\ msg[w] # NoMsg /\ msg[w].j = i
      /\ msg[w].q \in Queues /\ Running(w, msg[w].q, i)
  BY <1>0, <1>11, <1>12, InHand DEF JobOf
<1>3. /\ pc' \in [Workers -> Steps] /\ pc'[w] = "returned"
      /\ \A v \in Workers : v # w => pc'[v] = pc[v]
  BY <1>0, <1>1 DEF Steps
<1>4. /\ log' \in [Topics -> [Jobs -> Nat]]
      /\ \A t \in Topics, j \in Jobs : log'[t][j] > 0 <=> log[t][j] > 0 \/ (t = topic /\ j = i)
  BY <1>0, <1>1, <1>2, Published
<1>5. TypeOK'
  BY <1>0, <1>1, <1>3, <1>4 DEF TypeOK
<1>6. ASSUME NEW v \in Workers PROVE WorkerInv(v)'
  BY <1>0, <1>1, <1>2, <1>3 DEF WorkerInv, PipelineInv
<1>7. ASSUME NEW j \in Jobs
      PROVE  /\ \A q \in Queues : Has(q, j)' => Has(q, j)
             /\ At("emit_embedded", j)' => At("emit_embedded", j)
             /\ At("emit_completed", j)' => At("emit_completed", j)
             /\ GivenUp(j) => GivenUp(j)'
             /\ Carried(j) => Carried(j)'
  <2>1. \A q \in Queues : Has(q, j)' => Has(q, j)
    BY <1>1, MessagesKept
  <2>2. /\ At("emit_embedded", j)' => At("emit_embedded", j)
        /\ At("emit_completed", j)' => At("emit_completed", j)
    BY <1>1, <1>3 DEF At
  <2>3. GivenUp(j) => GivenUp(j)'
    BY <1>1 DEF GivenUp
  <2>4. ASSUME Carried(j) PROVE Carried(j)'
    <3>1. CASE j = i /\ topic # "completed"
      BY <1>4, <3>1 DEF Carried
    <3>2. CASE ~(j = i /\ topic # "completed")
      <4>1. msg[w].j = j => pc[w] = "emit_completed"
        BY <1>1, <1>2, <3>2
      <4>2. QED
        BY <1>1, <1>3, <1>4, <2>4, <4>1, MessagesKept DEF Carried
    <3>3. QED
      BY <3>1, <3>2
  <2>5. QED
    BY <2>1, <2>2, <2>3, <2>4
<1>8. ASSUME NEW j \in Jobs, j # i PROVE JobInv(j)'
  <2>1. JobInv(j) /\ job' = job /\ api' = api /\ \A t \in Topics : log'[t][j] > 0 => log[t][j] > 0
    BY <1>1, <1>4, <1>8 DEF SearchInv
  <2>2. QED
    BY <1>7, <2>1, JobKept
<1>9. JobInv(i)'
  <2>1. JobInv(i) /\ job' = job /\ api' = api /\ Has(msg[w].q, i)
    BY <1>1, <1>2 DEF SearchInv, Has
  <2>2. EmbeddedInv(i)'
    <3>1. topic = "embedded" => At("emit_embedded", i)
      BY <1>1, <1>2 DEF At
    <3>2. QED
      BY <1>2, <1>4, <1>7, <2>1, <3>1 DEF JobInv, EmbeddedInv, Topics, Queues
  <2>3. KindInv(i)'
    <3>1. topic = "completed" => At("emit_completed", i)
      BY <1>1, <1>2 DEF At
    <3>2. QED
      BY <1>2, <1>4, <1>7, <2>1, <3>1 DEF JobInv, KindInv, Topics, Queues
  <2>4. IdleInv(i)'
    BY <1>2, <2>1 DEF JobInv, IdleInv
  <2>5. CarriedInv(i)'
    BY <1>2, <1>7, <2>1 DEF JobInv, CarriedInv, Terminal
  <2>6. QED
    BY <2>2, <2>3, <2>4, <2>5 DEF JobInv
<1>10. QED
  BY <1>5, <1>6, <1>8, <1>9 DEF SearchInv, PipelineInv

\* A handler writes the job's row.  It keeps the flag and the vector, changes the
\* results only to those of the job's kind, and unless the status is final now, it
\* is not yet done.
LEMMA WriteStep ==
  ASSUME SearchInv, NEW w \in Workers, NEW step, NEW row \in Row, NEW next \in Steps,
         Write(w, step, row, next), step \notin {"idle", "settling"},
         next \notin {"idle", "settling", "complete_ann", "mark_reranking"},
         next = "complete_reranked" => msg[w].q = "rerank",
         row.rerank = job[JobOf(w)].rerank,
         job[JobOf(w)].embedding => row.embedding,
         next = "emit_embedded" => row.embedding,
         row.results \in {job[JobOf(w)].results, IF row.rerank THEN "reranked" ELSE "ann"},
         row.status = "complete" \/ next = "emit_completed" => row.results # "none",
         \/ row.status \in Terminal \cup {"absent"}
         \/ next \notin {"returned", "emit_completed"}
  PROVE  SearchInv'
<1> USE SearchAssumption
<1>0. /\ PipelineInv /\ TypeOK /\ WorkerInv(w) /\ pc \in [Workers -> Steps]
      /\ job \in [Jobs -> Row]
  BY DEF SearchInv, PipelineInv, TypeOK
<1>11. pc[w] = step
  BY DEF Write
<1>12. PICK i \in Jobs : i = JobOf(w)
  BY <1>0, <1>11, InHand
<1>1. /\ pc[w] = step /\ job' = [job EXCEPT ![i] = row] /\ pc' = [pc EXCEPT ![w] = next]
      /\ UNCHANGED <<api, log, queue, dlq, msg, done, loop, lost, crashes, faults>>
  BY <1>12 DEF Write, Goto
<1>2. /\ i \in Jobs /\ msg[w] # NoMsg /\ msg[w].j = i
      /\ msg[w].q \in Queues /\ Running(w, msg[w].q, i)
  BY <1>0, <1>11, <1>12, InHand DEF JobOf
<1>3. /\ row.rerank = job[i].rerank /\ (job[i].embedding => row.embedding)
      /\ row.results \in {job[i].results, IF row.rerank THEN "reranked" ELSE "ann"}
  BY <1>12
<1>4. /\ pc' \in [Workers -> Steps] /\ pc'[w] = next
      /\ \A v \in Workers : v # w => pc'[v] = pc[v]
  BY <1>0, <1>1
<1>5. job' \in [Jobs -> Row] /\ job'[i] = row /\ \A j \in Jobs : j # i => job'[j] = job[j]
  BY <1>0, <1>1, <1>2
<1>6. TypeOK'
  BY <1>0, <1>1, <1>4, <1>5 DEF TypeOK
<1>7. ASSUME NEW v \in Workers PROVE WorkerInv(v)'
  <2>1. CASE v = w
    BY <1>0, <1>1, <1>2, <1>4, <2>1 DEF WorkerInv
  <2>2. CASE v # w
    BY <1>0, <1>1, <1>4, <2>2 DEF WorkerInv, PipelineInv
  <2>3. QED
    BY <2>1, <2>2
<1>8. ASSUME NEW j \in Jobs
      PROVE  /\ \A q \in Queues : Has(q, j)' => Has(q, j)
             /\ \A v \in Workers : DoneOf(v)' = DoneOf(v)
             /\ At("emit_embedded", j)' => At("emit_embedded", j) \/ (j = i /\ next = "emit_embedded")
             /\ At("emit_completed", j)' => At("emit_completed", j) \/ (j = i /\ next = "emit_completed")
             /\ GivenUp(j) => GivenUp(j)'
  <2>1. /\ \A q \in Queues : Has(q, j)' => Has(q, j)
        /\ \A v \in Workers : DoneOf(v)' = DoneOf(v)
    BY <1>1, MessagesKept
  <2>2. /\ At("emit_embedded", j)' => At("emit_embedded", j) \/ (j = i /\ next = "emit_embedded")
        /\ At("emit_completed", j)' => At("emit_completed", j) \/ (j = i /\ next = "emit_completed")
    BY <1>1, <1>2, <1>4 DEF At
  <2>3. GivenUp(j) => GivenUp(j)'
    BY <1>1 DEF GivenUp
  <2>4. QED
    BY <2>1, <2>2, <2>3
<1>9. ASSUME NEW j \in Jobs, j # i PROVE JobInv(j)'
  <2>1. Carried(j) => Carried(j)'
    BY <1>1, <1>2, <1>4, <1>8, <1>9 DEF Carried
  <2>2. JobInv(j) /\ job'[j] = job[j] /\ api' = api /\ log' = log
    BY <1>1, <1>5, <1>9 DEF SearchInv
  <2>3. QED
    BY <1>8, <1>9, <2>1, <2>2, JobKept
<1>10. JobInv(i)'
  <2>1. JobInv(i) /\ api' = api /\ log' = log /\ Has(msg[w].q, i) /\ api[i] # "idle"
    BY <1>1, <1>2 DEF SearchInv, Has, JobInv, IdleInv
  <2>2. EmbeddedInv(i)'
    BY <1>2, <1>3, <1>5, <1>8, <2>1 DEF JobInv, EmbeddedInv, Queues
  <2>3. KindInv(i)'
    <3>1. job[i].results # "none" => row.results # "none"
      BY <1>3
    <3>2. row.results \in {"none", IF row.rerank THEN "reranked" ELSE "ann"}
      BY <1>3, <2>1 DEF JobInv, KindInv
    <3>3. QED
      BY <1>2, <1>3, <1>5, <1>8, <2>1, <3>1, <3>2 DEF JobInv, KindInv, Queues
  <2>4. IdleInv(i)'
    BY <2>1 DEF IdleInv
  <2>5. CarriedInv(i)'
    <3>1. CASE next \notin {"returned", "emit_completed"}
      BY <1>1, <1>2, <1>4, <3>1 DEF CarriedInv, Carried
    <3>2. CASE row.status \in Terminal \cup {"absent"}
      BY <1>5, <3>2 DEF CarriedInv, Terminal
    <3>3. QED
      BY <3>1, <3>2
  <2>6. QED
    BY <2>2, <2>3, <2>4, <2>5 DEF JobInv
<1>13. QED
  BY <1>6, <1>7, <1>9, <1>10 DEF SearchInv, PipelineInv

\* What a handler finds in the row of the job it works on.
LEMMA RowInHand ==
  ASSUME SearchInv, NEW w \in Workers, pc[w] \notin {"idle", "settling"}
  PROVE  /\ job[JobOf(w)] \in Row
         /\ job[JobOf(w)].status = "complete" => job[JobOf(w)].results # "none"
         /\ pc[w] = "complete_ann" => ~job[JobOf(w)].rerank
         /\ pc[w] \in {"mark_reranking", "complete_reranked"} =>
              msg[w].q = "rerank" /\ job[JobOf(w)].rerank
<1>1. PipelineInv /\ TypeOK /\ WorkerInv(w)
  BY DEF SearchInv, PipelineInv
<1>2. PICK i \in Jobs : i = JobOf(w)
  BY <1>1, InHand
<1>3. msg[w].q \in Queues /\ Running(w, msg[w].q, i)
  BY <1>1, <1>2, InHand
<1>4. KindInv(i) /\ Has(msg[w].q, i)
  BY <1>3 DEF SearchInv, JobInv, Has
<1>5. /\ job[i].status = "complete" => job[i].results # "none"
      /\ pc[w] = "complete_ann" => ~job[i].rerank
      /\ pc[w] \in {"mark_reranking", "complete_reranked"} =>
           msg[w].q = "rerank" /\ job[i].rerank
  BY <1>1, <1>4 DEF KindInv, WorkerInv
<1>6. job[i] \in Row
  BY <1>1 DEF TypeOK
<1>7. QED
  BY <1>2, <1>5, <1>6

\* The statements of the handlers.
LEMMA HandlerStep ==
  ASSUME SearchInv, NEW w \in Workers, Handler(w)
  PROVE  SearchInv'
<1>1. CASE EmitEmbedded(w)
  BY <1>1, EmitStep DEF EmitEmbedded, Topics
<1>2. CASE EmitCandidates(w)
  BY <1>2, EmitStep DEF EmitCandidates, Topics
<1>3. CASE EmitCompleted(w)
  BY <1>3, EmitStep DEF EmitCompleted, Topics
<1>4. CASE StoreEmbedding(w)
  <2>1. pc[w] = "store_embedding"
    BY <1>4 DEF StoreEmbedding, Write
  <2>2. PICK row \in Row : row = job[JobOf(w)]
    BY <2>1, RowInHand
  <2> DEFINE r == [row EXCEPT !.embedding = TRUE]
  <2>3. r \in Row /\ r.rerank = row.rerank /\ r.embedding
        /\ r.results = row.results /\ r.status = row.status
    BY DEF Row
  <2>4. Write(w, "store_embedding", r, "emit_embedded")
    BY <1>4, <2>2 DEF StoreEmbedding
  <2> HIDE DEF r
  <2>5. row.status = "complete" => row.results # "none"
    BY <2>1, <2>2, RowInHand
  <2>6. QED
    BY <2>2, <2>3, <2>4, <2>5, WriteStep DEF Steps
<1>5. CASE MarkSearching(w)
  <2>1. pc[w] = "mark_searching"
    BY <1>5 DEF MarkSearching
  <2>2. PICK row \in Row : row = job[JobOf(w)]
    BY <2>1, RowInHand
  <2>3. CASE row.embedding
    <3> DEFINE r == [row EXCEPT !.status = "searching"]
    <3>1. r \in Row /\ r.rerank = row.rerank /\ r.embedding = row.embedding
          /\ r.results = row.results /\ r.status = "searching"
      BY DEF Row
    <3>2. Write(w, "mark_searching", r, "emit_candidates")
      BY <1>5, <2>2, <2>3 DEF MarkSearching
    <3> HIDE DEF r
    <3>3. QED
      BY <2>2, <3>1, <3>2, WriteStep DEF Steps
  <2>4. CASE ~row.embedding
    <3> DEFINE r == Failed(row)
    <3>1. r \in Row /\ r.rerank = row.rerank /\ r.embedding = row.embedding
          /\ r.results = row.results /\ r.status = "failed"
      BY DEF Row, Failed
    <3>2. Write(w, "mark_searching", r, "returned")
      BY <1>5, <2>2, <2>4 DEF MarkSearching
    <3> HIDE DEF r
    <3>3. QED
      BY <2>2, <3>1, <3>2, WriteStep DEF Steps, Terminal
  <2>5. QED
    BY <2>3, <2>4
<1>6. CASE CompleteAnn(w)
  <2>1. pc[w] = "complete_ann"
    BY <1>6 DEF CompleteAnn, Write
  <2>2. PICK row \in Row : row = job[JobOf(w)]
    BY <2>1, RowInHand
  <2> DEFINE r == [row EXCEPT !.status = "complete", !.results = "ann"]
  <2>3. r \in Row /\ r.rerank = row.rerank /\ r.embedding = row.embedding
        /\ r.results = "ann" /\ r.status = "complete"
    BY DEF Row
  <2>4. Write(w, "complete_ann", r, "emit_completed")
    BY <1>6, <2>2 DEF CompleteAnn
  <2> HIDE DEF r
  <2>5. ~row.rerank
    BY <2>1, <2>2, RowInHand
  <2>6. QED
    BY <2>2, <2>3, <2>4, <2>5, WriteStep DEF Steps, Terminal
<1>7. CASE MarkReranking(w)
  <2>1. pc[w] = "mark_reranking"
    BY <1>7 DEF MarkReranking, Write
  <2>2. PICK row \in Row : row = job[JobOf(w)]
    BY <2>1, RowInHand
  <2> DEFINE r == [row EXCEPT !.status = "reranking"]
  <2>3. r \in Row /\ r.rerank = row.rerank /\ r.embedding = row.embedding
        /\ r.results = row.results /\ r.status = "reranking"
    BY DEF Row
  <2>4. Write(w, "mark_reranking", r, "complete_reranked")
    BY <1>7, <2>2 DEF MarkReranking
  <2> HIDE DEF r
  <2>5. msg[w].q = "rerank"
    BY <2>1, <2>2, RowInHand
  <2>6. QED
    BY <2>2, <2>3, <2>4, <2>5, WriteStep DEF Steps
<1>8. CASE CompleteReranked(w)
  <2>1. pc[w] = "complete_reranked"
    BY <1>8 DEF CompleteReranked, Write
  <2>2. PICK row \in Row : row = job[JobOf(w)]
    BY <2>1, RowInHand
  <2> DEFINE r == [row EXCEPT !.status = "complete", !.results = "reranked"]
  <2>3. r \in Row /\ r.rerank = row.rerank /\ r.embedding = row.embedding
        /\ r.results = "reranked" /\ r.status = "complete"
    BY DEF Row
  <2>4. Write(w, "complete_reranked", r, "emit_completed")
    BY <1>8, <2>2 DEF CompleteReranked
  <2> HIDE DEF r
  <2>5. row.rerank = TRUE /\ r.rerank = TRUE
    BY <2>1, <2>2, <2>3, RowInHand DEF Row
  <2>6. QED
    BY <2>2, <2>3, <2>4, <2>5, WriteStep DEF Steps, Terminal
<1>9. CASE FailJob(w)
  <2>1. pc[w] = "fail"
    BY <1>9 DEF FailJob, Write
  <2>2. PICK row \in Row : row = job[JobOf(w)]
    BY <2>1, RowInHand
  <2> DEFINE r == Failed(row)
  <2>3. r \in Row /\ r.rerank = row.rerank /\ r.embedding = row.embedding
        /\ r.results = row.results /\ r.status = "failed"
    BY DEF Row, Failed
  <2>4. Write(w, "fail", r, "raised")
    BY <1>9, <2>2 DEF FailJob
  <2> HIDE DEF r
  <2>5. QED
    BY <2>2, <2>3, <2>4, WriteStep DEF Steps, Terminal
<1>10. CASE FailUnavailable(w)
  <2>1. pc[w] = "fail_unavailable"
    BY <1>10 DEF FailUnavailable, Write
  <2>2. PICK row \in Row : row = job[JobOf(w)]
    BY <2>1, RowInHand
  <2> DEFINE r == [row EXCEPT !.status = "failed", !.error_code = "rerank_unavailable"]
  <2>3. r \in Row /\ r.rerank = row.rerank /\ r.embedding = row.embedding
        /\ r.results = row.results /\ r.status = "failed"
    BY DEF Row
  <2>4. Write(w, "fail_unavailable", r, "returned")
    BY <1>10, <2>2 DEF FailUnavailable
  <2> HIDE DEF r
  <2>5. QED
    BY <2>2, <2>3, <2>4, WriteStep DEF Steps, Terminal
<1>11. QED
  BY <1>1, <1>2, <1>3, <1>4, <1>5, <1>6, <1>7, <1>8, <1>9, <1>10 DEF Handler

-----------------------------------------------------------------------------
\* Every step keeps the invariant.
LEMMA SearchStep == SearchInv /\ [Next]_vars => SearchInv'
<1> SUFFICES ASSUME SearchInv, [Next]_vars PROVE SearchInv'
  OBVIOUS
<1>1. CASE \E j \in Jobs : \/ \E rerank \in BOOLEAN : CreateJob(j, rerank)
                           \/ PublishCreated(j) \/ ApiCrash(j)
  BY <1>1, ApiStep
<1>2. CASE \E t \in Topics, j \in Jobs : Dispatch(t, j) \/ DispatcherCrash(t, j)
  BY <1>2, DispatchStep
<1>3. ASSUME NEW w \in Workers, Work(w) PROVE SearchInv'
  <2>1. CASE \E q \in QueuesOf(w), j \in Jobs : Deliver(w, q, j)
    BY <2>1, DeliverStep
  <2>2. CASE Handler(w)
    BY <2>2, HandlerStep
  <2>3. CASE Return(w)
    BY <2>3, ReturnStep
  <2>4. CASE Settle(w)
    BY <2>4, SettleStep
  <2>5. QED
    BY <1>3, <2>1, <2>2, <2>3, <2>4 DEF Work
<1>4. CASE \E w \in Workers : RerankerGone(w) \/ Fault(w)
  BY <1>4, FaultStep
<1>5. ASSUME NEW w \in Workers, ConnectionLost(w) PROVE SearchInv'
  <2>1. {w} \in SUBSET Workers
    OBVIOUS
  <2>2. QED
    BY <1>5, <2>1, RequeueStep
<1>6. CASE ProcessCrash(CpuWorkers) \/ ProcessCrash({"gpu"})
  <2>1. CpuWorkers \in SUBSET Workers /\ {"gpu"} \in SUBSET Workers
    BY DEF Workers
  <2>2. QED
    BY <1>6, <2>1, RequeueStep
<1>7. CASE ChunkTakesLoop \/ ChunkReturnsLoop \/ UNCHANGED vars
  BY <1>7, LoopStep
<1>8. QED
  BY <1>1, <1>2, <1>3, <1>4, <1>5, <1>6, <1>7 DEF Next

\* The invariant holds in every state of the search pipeline: whatever crashes, is
\* delivered again or raises, each worker holds the message its step belongs to, and
\* each job's row, events and messages agree.
THEOREM SearchInvariant == Spec => []SearchInv
BY SearchInit, SearchStep, PTL DEF Spec

\* Every row, event, message and worker has its type.
THEOREM SearchTypeCorrect == Spec => []TypeOK
<1>1. SearchInv => TypeOK
  BY DEF SearchInv, PipelineInv
<1>2. QED
  BY <1>1, SearchInvariant, PTL

\* The vector of a query is in its row before any event, message or handler asks for
\* the search: SearchHandler's "no embedding stored" branch is never taken.
THEOREM VectorBeforeRun == Spec => []EmbeddedBeforeRun
<1>1. SearchInv => EmbeddedBeforeRun
  <2>1. SUFFICES ASSUME SearchInv, NEW j \in Jobs,
                        \/ log["embedded"][j] > 0
                        \/ queue["run"][j] > 0
                        \/ \E w \in Workers : Running(w, "run", j)
                 PROVE  job[j].embedding
    BY DEF EmbeddedBeforeRun
  <2>2. EmbeddedInv(j)
    BY <2>1 DEF SearchInv, JobInv
  <2>3. QED
    BY <2>1, <2>2 DEF EmbeddedInv, Has
<1>2. QED
  BY <1>1, SearchInvariant, PTL

\* A job that is complete, or announced as complete, has its results, of the kind
\* that was asked for.
THEOREM ResultsBeforeCompletion == Spec => []CompletedHasResults
<1>1. SearchInv => CompletedHasResults
  <2>1. SUFFICES ASSUME SearchInv, NEW j \in Jobs,
                        log["completed"][j] > 0 \/ job[j].status = "complete"
                 PROVE  job[j].results = IF job[j].rerank THEN "reranked" ELSE "ann"
    BY DEF CompletedHasResults
  <2>2. KindInv(j)
    BY <2>1 DEF SearchInv, JobInv
  <2>3. QED
    BY <2>1, <2>2 DEF KindInv
<1>2. QED
  BY <1>1, SearchInvariant, PTL

\* A job whose status is not final is carried on by something, or was given up where
\* an operator can see it.
THEOREM NoJobForgotten == Spec => []NeverForgotten
<1>1. ASSUME SearchInv, NEW j \in Jobs, Carried(j) PROVE InFlight(j)
  <2>1. (\E w \in Workers : \E o \in DoneOf(w) : o.j = j /\ o.outcome = "nack") =>
          \E w \in Workers : \E i \in DOMAIN done[w] :
            done[w][i].j = j /\ done[w][i].outcome = "nack"
    BY DEF DoneOf
  <2>2. QED
    BY <1>1, <2>1 DEF Carried, InFlight
<1>2. SearchInv => NeverForgotten
  <2>1. SUFFICES ASSUME SearchInv, NEW j \in Jobs
                 PROVE  job[j].status \in Terminal \cup {"absent"} \/ InFlight(j) \/ GivenUp(j)
    BY DEF NeverForgotten
  <2>2. CarriedInv(j)
    BY <2>1 DEF SearchInv, JobInv
  <2>3. QED
    BY <1>1, <2>1, <2>2 DEF CarriedInv
<1>3. QED
  BY <1>2, SearchInvariant, PTL

=============================================================================
