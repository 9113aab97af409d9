------------------------- MODULE ModelManagerProofs -------------------------
(***************************************************************************)
(* Proofs about ModelManager, for every registry, every number of request  *)
(* threads and texts, and every bound on requests, faults and restarts.    *)
(***************************************************************************)
EXTENDS ModelManager, TLAPS

\* The step of a request, the lock and the resident model fit together; what was
\* computed so far is a prefix of the rows asked for.
SlotInv(s) ==
    /\ pc[s] \in Holding <=> lock = s
    /\ pc[s] # "answered" => answer[s].status = "none"
    /\ pc[s] \notin {"idle", "answered"} => Refusal(req[s].op, req[s].name) = "none"
    /\ pc[s] = "loading" => req[s].op # "unload" /\ model_id = NoModel
    /\ pc[s] \in {"report", "label"} => req[s].op = "load"
    /\ pc[s] \in {"work", "checked"} =>
           Computes(s) /\ local[s] = model /\ model_id = req[s].name
    /\ pc[s] = "work" =>
           /\ Len(out[s]) <= req[s].texts
           /\ \A i \in DOMAIN out[s] : out[s][i] = [text |-> i, by |-> req[s].name]
    /\ pc[s] = "checked" => Len(out[s]) # req[s].texts
    /\ Computes(s) /\ answer[s].status = "200" =>
           out[s] = [i \in 1..req[s].texts |-> [text |-> i, by |-> req[s].name]]

\* Weights, id and flag agree.
ResidentInv ==
    /\ (model_id = NoModel) <=> (model = NoWeights)
    /\ model_id = model.id
    /\ model.quantised => quantized
    /\ quantized => model_id # NoModel

ManagerInv == TypeOK /\ ResidentInv /\ \A s \in Slots : SlotInv(s)

-----------------------------------------------------------------------------
(* What the helpers return. *)

\* A request that was not refused names a model of the registry, unless it unloads.
LEMMA AcceptedIsListed ==
  ASSUME NEW op, NEW name, Refusal(op, name) = "none", op # "unload"
  PROVE  name \in Models
BY DEF Refusal

\* A precision resolves to a yes or a no.
LEMMA PrecisionResolves ==
  ASSUME NEW m \in Models, NEW precision
  PROVE  ResolveQuantization(m, precision) \in BOOLEAN
BY ManagerAssumption DEF ResolveQuantization

\* A slot that is not acted on keeps its part of the invariant, if it keeps the
\* lock or the lack of it, and the resident model if it has the lock.
LEMMA OtherSlot ==
  ASSUME NEW t \in Slots, SlotInv(t),
         pc'[t] = pc[t], req'[t] = req[t], local'[t] = local[t],
         out'[t] = out[t], answer'[t] = answer[t],
         (lock' = t) <=> (lock = t),
         lock = t => UNCHANGED <<model_id, model>>
  PROVE  SlotInv(t)'
BY DEF SlotInv, Computes, Holding, Refusal, Serves

-----------------------------------------------------------------------------
(* One lemma per group of steps. *)

\* Init
LEMMA ManagerInit == Init => ManagerInv
<1> SUFFICES ASSUME Init PROVE ManagerInv
  OBVIOUS
<1> USE ManagerAssumption
<1>1. NoRequest \in Request /\ NoAnswer \in Answer /\ <<>> \in Seq(OutRow)
  BY DEF NoRequest, NoAnswer, Request, Answer, Ops, Requested, Statuses
<1>2. TypeOK
  <2>1. /\ req \in [Slots -> Request] /\ answer \in [Slots -> Answer]
        /\ out \in [Slots -> Seq(OutRow)]
    BY <1>1 DEF Init
  <2>2. local \in [Slots -> Weights \cup {NoWeights}] /\ model \in Weights \cup {NoWeights}
    BY DEF Init
  <2>3. posted \in 0..MaxRequests /\ bad \in 0..MaxFaults /\ stops \in 0..MaxStops
    BY DEF Init
  <2>4. QED
    BY <2>1, <2>2, <2>3 DEF Init, TypeOK
<1>3. ResidentInv
  BY DEF Init, ResidentInv, NoWeights
<1>4. \A s \in Slots : SlotInv(s)
  BY DEF Init, SlotInv, Holding, Computes, NoRequest, NoAnswer
<1>5. QED
  BY <1>2, <1>3, <1>4 DEF ManagerInv

\* A new request is refused at once or waits for the lock.
LEMMA PostStep ==
  ASSUME ManagerInv, NEW s \in Slots, NEW op \in Ops, NEW name \in Names,
         NEW precision \in Requested, NEW n \in 0..NTexts,
         Post(s, op, name, precision, n)
  PROVE  ManagerInv'
<1> USE ManagerAssumption DEF ManagerInv
<1>1. /\ pc[s] = "idle"
      /\ req' = [req EXCEPT ![s] = [op |-> op, name |-> name,
                                    precision |-> precision, texts |-> n]]
      /\ UNCHANGED <<up, lock, model_id, model, quantized, idle, local, out, bad, stops>>
      /\ posted' \in 0..MaxRequests
  BY DEF Post, resident, TypeOK
<1>2. \/ /\ Refusal(op, name) = "none"
         /\ pc' = [pc EXCEPT ![s] = "waiting"]
         /\ answer' = answer
      \/ /\ Refusal(op, name) \in {"400", "404"}
         /\ pc' = [pc EXCEPT ![s] = "answered"]
         /\ answer' = [answer EXCEPT ![s] = [status |-> Refusal(op, name),
                                             precision |-> "unset"]]
  BY DEF Post, Answered, Goes, Refusal
<1>3. TypeOK'
  <2>1. [op |-> op, name |-> name, precision |-> precision, texts |-> n] \in Request
    BY DEF Request
  <2>2. Refusal(op, name) \in {"400", "404"} =>
          [status |-> Refusal(op, name), precision |-> "unset"] \in Answer
    BY DEF Answer, Statuses, Requested
  <2>3. req' \in [Slots -> Request]
    BY <1>1, <2>1 DEF TypeOK
  <2>4. answer' \in [Slots -> Answer]
    BY <1>2, <2>2 DEF TypeOK
  <2>5. QED
    BY <1>1, <1>2, <2>3, <2>4 DEF TypeOK
<1>4. ResidentInv'
  BY <1>1 DEF ResidentInv
<1>5. SlotInv(s)'
  <2>1. req'[s].op = op /\ req'[s].name = name
    BY <1>1 DEF TypeOK
  <2>2. SlotInv(s)
    OBVIOUS
  <2>3. CASE pc' = [pc EXCEPT ![s] = "waiting"] /\ Refusal(op, name) = "none" /\ answer' = answer
    BY <1>1, <2>1, <2>2, <2>3 DEF SlotInv, TypeOK, Holding, Computes, Refusal, Serves
  <2>4. CASE /\ pc' = [pc EXCEPT ![s] = "answered"]
             /\ Refusal(op, name) \in {"400", "404"}
             /\ answer' = [answer EXCEPT ![s] = [status |-> Refusal(op, name),
                                                 precision |-> "unset"]]
    <3>1. pc'[s] = "answered" /\ answer'[s].status \in {"400", "404"}
      BY <2>4 DEF TypeOK
    <3>2. QED
      BY <1>1, <2>2, <3>1 DEF SlotInv, TypeOK, Holding, Computes, Refusal, Serves
  <2>5. QED
    BY <1>2, <2>3, <2>4
<1>6. \A t \in Slots : t # s => SlotInv(t)'
  BY <1>1, <1>2, OtherSlot DEF TypeOK
<1>7. QED
  BY <1>3, <1>4, <1>5, <1>6

\* A waiting thread gets the lock.
LEMMA AcquireStep ==
  ASSUME ManagerInv, NEW s \in Slots, Acquire(s)
  PROVE  ManagerInv'
<1> USE ManagerAssumption DEF ManagerInv
<1>1. /\ pc[s] = "waiting" /\ lock = Free /\ lock' = s
      /\ pc' = [pc EXCEPT ![s] = "locked"]
      /\ UNCHANGED <<up, model_id, model, quantized, idle, req, local, out, answer,
                     posted, bad, stops>>
  BY DEF Acquire, Goes, resident, bounds
<1>2. TypeOK'
  BY <1>1 DEF TypeOK
<1>3. ResidentInv'
  BY <1>1 DEF ResidentInv
<1>4. SlotInv(s)'
  BY <1>1 DEF SlotInv, TypeOK, Holding, Computes, Refusal, Serves
<1>5. \A t \in Slots : t # s => SlotInv(t)'
  BY <1>1, OtherSlot DEF TypeOK
<1>6. QED
  BY <1>2, <1>3, <1>4, <1>5

\* The holder of the lock releases what it does not need, and starts a loader.
LEMMA EvictStep ==
  ASSUME ManagerInv, NEW s \in Slots, Evict(s)
  PROVE  ManagerInv'
<1> USE ManagerAssumption DEF ManagerInv
<1>1. /\ pc[s] = "locked" /\ req[s].op # "unload"
      /\ model' = NoWeights /\ model_id' = NoModel /\ quantized' = FALSE
      /\ pc' = [pc EXCEPT ![s] = "loading"]
      /\ UNCHANGED <<up, lock, idle, req, local, out, answer, posted, bad, stops>>
  BY DEF Evict, ReleaseModel, Goes, bounds
<1>2. lock = s
  BY <1>1 DEF SlotInv, Holding
<1>3. TypeOK'
  BY <1>1 DEF TypeOK
<1>4. ResidentInv'
  BY <1>1 DEF ResidentInv, NoWeights
<1>5. SlotInv(s)'
  BY <1>1 DEF SlotInv, TypeOK, Holding, Computes, Refusal, Serves
<1>6. \A t \in Slots : t # s => SlotInv(t)'
  BY <1>1, <1>2, OtherSlot DEF TypeOK
<1>7. QED
  BY <1>3, <1>4, <1>5, <1>6

\* The loader returns weights of the model wanted.
LEMMA LoadDoneStep ==
  ASSUME ManagerInv, NEW s \in Slots, LoadDone(s)
  PROVE  ManagerInv'
<1> USE ManagerAssumption DEF ManagerInv
<1>1. /\ pc[s] = "loading" /\ req[s].op # "unload" /\ lock = s
      /\ Refusal(req[s].op, req[s].name) = "none"
  BY DEF LoadDone, SlotInv, Holding
<1>2. req[s].name \in Models
  BY <1>1, AcceptedIsListed
<1>3. WantQuant(s) \in BOOLEAN
  BY <1>2, PrecisionResolves DEF WantQuant
<1>4. /\ model' \in [id : {req[s].name}, quantised : {FALSE, WantQuant(s)}]
      /\ model_id' = req[s].name /\ quantized' = WantQuant(s)
      /\ idle' = FALSE
      /\ UNCHANGED <<up, req, local, out, answer, posted, bad, stops>>
  BY DEF LoadDone, Loader, bounds
<1>5. \/ /\ req[s].op = "load" /\ lock' = Free
         /\ pc' = [pc EXCEPT ![s] = "report"]
      \/ lock' = lock /\ pc' = [pc EXCEPT ![s] = "locked"]
  BY DEF LoadDone, Goes
<1>6. /\ model'.id = req[s].name /\ model'.quantised \in BOOLEAN
      /\ model'.quantised => WantQuant(s)
      /\ model' \in Weights
  BY <1>2, <1>3, <1>4 DEF Weights
<1>7. TypeOK'
  BY <1>2, <1>3, <1>4, <1>5, <1>6 DEF TypeOK
<1>8. ResidentInv'
  BY <1>2, <1>4, <1>6 DEF ResidentInv, NoWeights
<1>9. SlotInv(s)'
  BY <1>1, <1>4, <1>5 DEF SlotInv, TypeOK, Holding, Computes, Refusal, Serves
<1>10. \A t \in Slots : t # s => SlotInv(t)'
  BY <1>1, <1>4, <1>5, OtherSlot DEF TypeOK
<1>11. QED
  BY <1>7, <1>8, <1>9, <1>10

\* The holder of the lock gives it back and answers or reports, the resident
\* model unchanged: a hit, a failed load, a failed or finished computation.
LEMMA ReleaseLockStep ==
  ASSUME ManagerInv, NEW s \in Slots, pc[s] \in Holding,
         NEW status \in {"200", "500", "503"},
         \/ req[s].op = "load" /\ pc' = [pc EXCEPT ![s] = "report"] /\ answer' = answer
         \/ /\ pc' = [pc EXCEPT ![s] = "answered"]
            /\ answer' = [answer EXCEPT ![s] = [status |-> status, precision |-> "unset"]]
            /\ status = "200" /\ Computes(s) =>
                 out[s] = [i \in 1..req[s].texts |-> [text |-> i, by |-> req[s].name]],
         lock' = Free, idle' \in BOOLEAN, bad' \in 0..MaxFaults,
         UNCHANGED <<up, model_id, model, quantized, req, local, out, posted, stops>>
  PROVE  ManagerInv'
<1> USE ManagerAssumption DEF ManagerInv
<1>1. lock = s /\ pc[s] # "answered" /\ pc[s] # "idle"
  BY DEF SlotInv, Holding
<1>2. TypeOK'
  <2>1. [status |-> status, precision |-> "unset"] \in Answer
    BY DEF Answer, Statuses, Requested
  <2>2. answer' \in [Slots -> Answer]
    BY <2>1 DEF TypeOK
  <2>3. QED
    BY <2>2 DEF TypeOK
<1>3. ResidentInv'
  BY DEF ResidentInv
<1>4. SlotInv(s)'
  <2>1. SlotInv(s)
    OBVIOUS
  <2>2. CASE pc' = [pc EXCEPT ![s] = "report"] /\ req[s].op = "load" /\ answer' = answer
    BY <1>1, <2>1, <2>2 DEF SlotInv, TypeOK, Holding, Computes, Refusal, Serves
  <2>3. CASE /\ pc' = [pc EXCEPT ![s] = "answered"]
             /\ answer' = [answer EXCEPT ![s] = [status |-> status, precision |-> "unset"]]
             /\ status = "200" /\ Computes(s) =>
                  out[s] = [i \in 1..req[s].texts |-> [text |-> i, by |-> req[s].name]]
    <3>1. pc'[s] = "answered" /\ answer'[s].status = status /\ out'[s] = out[s] /\ req'[s] = req[s]
      BY <2>3 DEF TypeOK
    <3>2. QED
      BY <1>1, <2>3, <3>1 DEF SlotInv, Holding, Computes
  <2>4. QED
    BY <2>2, <2>3
<1>5. \A t \in Slots : t # s => SlotInv(t)'
  BY <1>1, OtherSlot DEF TypeOK
<1>6. QED
  BY <1>2, <1>3, <1>4, <1>5

\* load() finds its model; the loader raises; a forward pass raises.
LEMMA LoadEndStep ==
  ASSUME ManagerInv, NEW s \in Slots, LoadHit(s) \/ LoadFails(s) \/ ComputeFails(s)
  PROVE  ManagerInv'
<1>1. idle \in BOOLEAN /\ bad \in 0..MaxFaults /\ MaxFaults \in Nat
  BY ManagerAssumption DEF ManagerInv, TypeOK
<1>2. CASE LoadHit(s)
  <2>1. /\ pc[s] \in Holding /\ req[s].op = "load"
        /\ pc' = [pc EXCEPT ![s] = "report"] /\ answer' = answer
        /\ lock' = Free /\ idle' \in BOOLEAN /\ bad' \in 0..MaxFaults
        /\ UNCHANGED <<up, model_id, model, quantized, req, local, out, posted, stops>>
    BY <1>1, <1>2 DEF LoadHit, Goes, Holding, resident, bounds
  <2>2. QED
    BY <2>1, ReleaseLockStep
<1>3. CASE LoadFails(s)
  <2>1. /\ pc[s] \in Holding
        /\ pc' = [pc EXCEPT ![s] = "answered"]
        /\ answer' = [answer EXCEPT ![s] = [status |-> "503", precision |-> "unset"]]
        /\ lock' = Free /\ idle' \in BOOLEAN /\ bad' \in 0..MaxFaults
        /\ UNCHANGED <<up, model_id, model, quantized, req, local, out, posted, stops>>
    BY <1>1, <1>3 DEF LoadFails, Wrong, Answered, Goes, Holding, resident
  <2>2. QED
    BY <2>1, ReleaseLockStep
<1>4. CASE ComputeFails(s)
  <2>1. /\ pc[s] \in Holding
        /\ pc' = [pc EXCEPT ![s] = "answered"]
        /\ answer' = [answer EXCEPT ![s] = [status |-> "500", precision |-> "unset"]]
        /\ lock' = Free /\ idle' \in BOOLEAN /\ bad' \in 0..MaxFaults
        /\ UNCHANGED <<up, model_id, model, quantized, req, local, out, posted, stops>>
    BY <1>1, <1>4 DEF ComputeFails, Wrong, Answered, Goes, Holding, resident
  <2>2. QED
    BY <2>1, ReleaseLockStep
<1>5. QED
  BY <1>2, <1>3, <1>4

\* A computation ends with 200 only when it has a row for every text: the loop
\* ran to the end of the texts, or the rows are one short and their count differs.
LEMMA ComputeDoneStep ==
  ASSUME ManagerInv, NEW s \in Slots, ComputeDone(s)
  PROVE  ManagerInv'
<1> DEFINE status == IF Counted(s) THEN "200" ELSE "503"
<1>1. /\ pc[s] \in Holding
      /\ pc' = [pc EXCEPT ![s] = "answered"]
      /\ answer' = [answer EXCEPT ![s] = [status |-> status, precision |-> "unset"]]
      /\ lock' = Free /\ idle' \in BOOLEAN /\ bad' \in 0..MaxFaults
      /\ UNCHANGED <<up, model_id, model, quantized, req, local, out, posted, stops>>
  BY DEF ComputeDone, Answered, Goes, Holding, resident, bounds, ManagerInv, TypeOK
<1>2. status \in {"200", "500", "503"}
  OBVIOUS
<1>3. status = "200" => out[s] = [i \in 1..req[s].texts |-> [text |-> i, by |-> req[s].name]]
  <2>1. SUFFICES ASSUME Len(out[s]) = req[s].texts
                 PROVE  out[s] = [i \in 1..req[s].texts |-> [text |-> i, by |-> req[s].name]]
    BY DEF Counted
  <2>2. pc[s] = "work" /\ SlotInv(s) /\ out[s] \in Seq(OutRow)
    BY <2>1 DEF ComputeDone, ManagerInv, SlotInv, TypeOK
  <2>3. \A i \in DOMAIN out[s] : out[s][i] = [text |-> i, by |-> req[s].name]
    BY <2>2 DEF SlotInv
  <2>4. DOMAIN out[s] = 1..req[s].texts /\ out[s] = [i \in DOMAIN out[s] |-> out[s][i]]
    BY <2>1, <2>2
  <2>5. QED
    BY <2>3, <2>4
<1> HIDE DEF status
<1>4. QED
  BY <1>1, <1>2, <1>3, ReleaseLockStep

\* applied_quantization: a load is answered with what is resident by then.
LEMMA ReportStep ==
  ASSUME ManagerInv, NEW s \in Slots, ReportFlag(s) \/ ReportLabel(s)
  PROVE  ManagerInv'
<1> USE ManagerAssumption DEF ManagerInv
<1>1. /\ pc[s] \in {"report", "label"}
      /\ UNCHANGED <<up, lock, model_id, model, quantized, idle, req, local, out,
                     posted, bad, stops>>
  BY DEF ReportFlag, ReportLabel, resident, bounds
<1>2. SlotInv(s) /\ req[s].op = "load" /\ lock # s
  BY <1>1 DEF SlotInv, Holding
<1>3. PICK p \in Requested :
        \/ pc' = [pc EXCEPT ![s] = "label"] /\ answer' = answer
        \/ /\ pc' = [pc EXCEPT ![s] = "answered"]
           /\ answer' = [answer EXCEPT ![s] = [status |-> "200", precision |-> p]]
  <2>1. "off" \in Requested /\ \A m : QuantLabel(m) \in Requested /\ "int8" \in Requested
    BY DEF Requested, QuantLabel
  <2>2. (IF model_id = NoModel THEN "int8" ELSE QuantLabel(model_id)) \in Requested
    BY <2>1
  <2>3. CASE ReportFlag(s)
    BY <2>1, <2>3 DEF ReportFlag, Answered, Goes
  <2>4. CASE ReportLabel(s)
    BY <2>2, <2>4 DEF ReportLabel, Answered, Goes
  <2>5. QED
    BY <2>3, <2>4
<1>4. TypeOK'
  <2>1. [status |-> "200", precision |-> p] \in Answer
    BY DEF Answer, Statuses
  <2>2. answer' \in [Slots -> Answer]
    BY <1>3, <2>1 DEF TypeOK
  <2>3. QED
    BY <1>1, <1>3, <2>2 DEF TypeOK
<1>5. ResidentInv'
  BY <1>1 DEF ResidentInv
<1>6. SlotInv(s)'
  BY <1>1, <1>2, <1>3 DEF SlotInv, TypeOK, Holding, Computes, Refusal, Serves
<1>7. \A t \in Slots : t # s => SlotInv(t)'
  BY <1>1, <1>3, OtherSlot DEF TypeOK
<1>8. QED
  BY <1>4, <1>5, <1>6, <1>7

\* A computation starts with the resident model and no rows.
LEMMA CaptureStep ==
  ASSUME ManagerInv, NEW s \in Slots, Capture(s)
  PROVE  ManagerInv'
<1> USE ManagerAssumption DEF ManagerInv
<1>1. /\ pc[s] = "locked" /\ Computes(s) /\ model_id = req[s].name
      /\ local' = [local EXCEPT ![s] = model] /\ out' = [out EXCEPT ![s] = <<>>]
      /\ pc' = [pc EXCEPT ![s] = "work"]
      /\ UNCHANGED <<up, lock, model_id, model, quantized, idle, req, answer,
                     posted, bad, stops>>
  BY DEF Capture, Resident, Goes, resident, bounds
<1>2. SlotInv(s) /\ req[s].texts \in 0..NTexts
  BY DEF TypeOK, Request
<1>3. TypeOK'
  <2>1. out' \in [Slots -> Seq(OutRow)]
    BY <1>1 DEF TypeOK
  <2>2. QED
    BY <1>1, <2>1 DEF TypeOK
<1>4. ResidentInv'
  BY <1>1 DEF ResidentInv
<1>5. SlotInv(s)'
  <2>1. pc'[s] = "work" /\ local'[s] = model /\ out'[s] = <<>> /\ req'[s] = req[s]
    BY <1>1 DEF TypeOK
  <2>2. answer'[s].status = "none" /\ lock' = s
    BY <1>1, <1>2 DEF SlotInv, Holding
  <2>3. Len(<<>>) <= req[s].texts /\ DOMAIN <<>> = {}
    BY <1>2
  <2>4. Computes(s)' /\ Refusal(req[s].op, req[s].name) = "none"
    BY <1>1, <1>2, <2>1 DEF Computes, SlotInv
  <2>5. QED
    BY <1>1, <2>1, <2>2, <2>3, <2>4 DEF SlotInv, Holding, Refusal, Serves
<1>6. \A t \in Slots : t # s => SlotInv(t)'
  BY <1>1, OtherSlot DEF TypeOK
<1>7. QED
  BY <1>3, <1>4, <1>5, <1>6

\* Rows are added under the lock: the next one, or those after a text without one.
LEMMA RowsStep ==
  ASSUME ManagerInv, NEW s \in Slots, NEW step \in {"work", "checked"},
         NEW rows \in Seq(OutRow), pc[s] = "work",
         pc' = [pc EXCEPT ![s] = step], out' = [out EXCEPT ![s] = rows],
         step = "work" =>
             /\ Len(rows) <= req[s].texts
             /\ \A i \in DOMAIN rows : rows[i] = [text |-> i, by |-> req[s].name],
         step = "checked" => Len(rows) # req[s].texts,
         bad' \in 0..MaxFaults,
         UNCHANGED <<up, lock, model_id, model, quantized, idle, req, local, answer,
                     posted, stops>>
  PROVE  ManagerInv'
<1> USE ManagerAssumption DEF ManagerInv
<1>1. SlotInv(s)
  OBVIOUS
<1>2. TypeOK'
  <2>1. out' \in [Slots -> Seq(OutRow)]
    BY DEF TypeOK
  <2>2. QED
    BY <2>1 DEF TypeOK
<1>3. ResidentInv'
  BY DEF ResidentInv
<1>4. SlotInv(s)'
  <2>1. pc'[s] = step /\ out'[s] = rows /\ req'[s] = req[s] /\ local'[s] = local[s]
        /\ answer'[s] = answer[s]
    BY DEF TypeOK
  <2>2. /\ answer[s].status = "none" /\ lock = s
        /\ Computes(s) /\ local[s] = model /\ model_id = req[s].name
        /\ Refusal(req[s].op, req[s].name) = "none"
    BY <1>1 DEF SlotInv, Holding
  <2>3. QED
    BY <2>1, <2>2 DEF SlotInv, Holding, Computes, Refusal, Serves
<1>5. \A t \in Slots : t # s => SlotInv(t)'
  BY OtherSlot DEF TypeOK
<1>6. QED
  BY <1>2, <1>3, <1>4, <1>5

\* Compute, ComputeShort
LEMMA ComputeStep ==
  ASSUME ManagerInv, NEW s \in Slots, Compute(s) \/ ComputeShort(s)
  PROVE  ManagerInv'
<1> DEFINE n == req[s].texts
           k == Len(out[s]) + 1
           by == local[s].id
<1>1. /\ pc[s] = "work" /\ k <= n
      /\ UNCHANGED <<up, lock, model_id, model, quantized, idle, req, local, answer,
                     posted, stops>>
  BY DEF Compute, ComputeShort, Position, Wrong, resident, bounds
<1>2. n \in 0..NTexts /\ out[s] \in Seq(OutRow) /\ bad \in 0..MaxFaults
      /\ NTexts \in Nat /\ MaxFaults \in Nat
  BY ManagerAssumption DEF ManagerInv, TypeOK, Request
<1>3. /\ \A i \in DOMAIN out[s] : out[s][i] = [text |-> i, by |-> req[s].name]
      /\ Computes(s) /\ local[s] = model /\ model_id = req[s].name
      /\ Refusal(req[s].op, req[s].name) = "none"
  BY <1>1 DEF ManagerInv, SlotInv
<1>4. by = req[s].name /\ by \in Models
  <2>1. req[s].op # "unload"
    BY <1>3 DEF Computes
  <2>2. QED
    BY <1>3, <2>1, AcceptedIsListed DEF ManagerInv, ResidentInv
<1>5. \A i \in 1..n : [text |-> i, by |-> by] \in OutRow
  BY <1>2, <1>4 DEF OutRow
<1>6. k \in 1..n /\ k \in Nat /\ Len(out[s]) \in Nat
  BY <1>1, <1>2
<1>7. CASE Compute(s)
  <2> DEFINE rows == Append(out[s], [text |-> k, by |-> by])
  <2>1. pc' = [pc EXCEPT ![s] = "work"] /\ out' = [out EXCEPT ![s] = rows] /\ bad' = bad
    BY <1>7 DEF Compute, Goes, Position, bounds
  <2>2. rows \in Seq(OutRow) /\ Len(rows) = k
    BY <1>2, <1>5, <1>6
  <2>3. \A i \in DOMAIN rows : rows[i] = [text |-> i, by |-> req[s].name]
    BY <1>2, <1>3, <1>4, <1>6
  <2> HIDE DEF rows
  <2>4. QED
    BY <1>1, <1>2, <2>1, <2>2, <2>3, RowsStep
<1>8. CASE ComputeShort(s)
  <2> DEFINE more == [i \in 1..(n - k) |-> [text |-> k + i, by |-> by]]
             rows == out[s] \o more
  <2>1. pc' = [pc EXCEPT ![s] = "checked"] /\ out' = [out EXCEPT ![s] = rows]
    BY <1>8 DEF ComputeShort, Goes, Position
  <2>2. bad' \in 0..MaxFaults
    BY <1>2, <1>8 DEF ComputeShort, Wrong
  <2>3. more \in Seq(OutRow) /\ Len(more) = n - k
    <3>1. n - k \in Nat /\ \A i \in 1..(n - k) : k + i \in 1..n
      BY <1>2, <1>6
    <3>2. \A i \in 1..(n - k) : [text |-> k + i, by |-> by] \in OutRow
      BY <1>5, <3>1
    <3>3. QED
      BY <3>1, <3>2
  <2> HIDE DEF more
  <2>4. rows \in Seq(OutRow) /\ Len(rows) = Len(out[s]) + (n - k)
    BY <1>2, <2>3
  <2>5. Len(rows) # n
    BY <1>2, <1>6, <2>4
  <2> HIDE DEF rows
  <2>6. QED
    BY <1>1, <2>1, <2>2, <2>4, <2>5, RowsStep
<1>9. QED
  BY <1>7, <1>8

\* An unload, of the resident model or of one that is not.
LEMMA UnloadStep ==
  ASSUME ManagerInv, NEW s \in Slots, Unload(s)
  PROVE  ManagerInv'
<1> USE ManagerAssumption DEF ManagerInv
<1>1. /\ pc[s] = "locked" /\ req[s].op = "unload" /\ lock' = Free
      /\ pc' = [pc EXCEPT ![s] = "answered"]
      /\ answer' = [answer EXCEPT ![s] = [status |-> "200", precision |-> "unset"]]
      /\ UNCHANGED <<up, idle, req, local, out, posted, bad, stops>>
  BY DEF Unload, Answered, Goes, bounds
<1>2. \/ model' = NoWeights /\ model_id' = NoModel /\ quantized' = FALSE
      \/ UNCHANGED <<model, model_id, quantized>>
  BY DEF Unload, ReleaseModel, resident
<1>3. SlotInv(s) /\ lock = s /\ ~Computes(s)
  BY <1>1 DEF SlotInv, Holding, Computes
<1>4. TypeOK'
  <2>1. [status |-> "200", precision |-> "unset"] \in Answer
    BY DEF Answer, Statuses, Requested
  <2>2. answer' \in [Slots -> Answer]
    BY <1>1, <2>1 DEF TypeOK
  <2>3. QED
    BY <1>1, <1>2, <2>2 DEF TypeOK
<1>5. ResidentInv'
  BY <1>2 DEF ResidentInv, NoWeights
<1>6. SlotInv(s)'
  BY <1>1, <1>3 DEF SlotInv, TypeOK, Holding, Computes
<1>7. \A t \in Slots : t # s => SlotInv(t)'
  BY <1>1, <1>3, OtherSlot DEF TypeOK
<1>8. QED
  BY <1>4, <1>5, <1>6, <1>7

\* The client has its answer, and the slot is free for another request.
LEMMA CollectStep ==
  ASSUME ManagerInv, NEW s \in Slots, Collect(s)
  PROVE  ManagerInv'
<1> USE ManagerAssumption DEF ManagerInv
<1>1. /\ pc[s] = "answered"
      /\ pc' = [pc EXCEPT ![s] = "idle"]
      /\ req' = [req EXCEPT ![s] = NoRequest]
      /\ local' = [local EXCEPT ![s] = NoWeights]
      /\ out' = [out EXCEPT ![s] = <<>>]
      /\ answer' = [answer EXCEPT ![s] = NoAnswer]
      /\ UNCHANGED <<up, lock, model_id, model, quantized, idle, posted, bad, stops>>
  BY DEF Collect, Goes, resident, bounds
<1>2. TypeOK'
  <2>1. NoRequest \in Request /\ NoAnswer \in Answer /\ <<>> \in Seq(OutRow)
    BY DEF NoRequest, NoAnswer, Request, Answer, Ops, Requested, Statuses
  <2>2. req' \in [Slots -> Request] /\ out' \in [Slots -> Seq(OutRow)]
    BY <1>1, <2>1 DEF TypeOK
  <2>3. answer' \in [Slots -> Answer] /\ local' \in [Slots -> Weights \cup {NoWeights}]
    BY <1>1, <2>1 DEF TypeOK
  <2>4. QED
    BY <1>1, <2>2, <2>3 DEF TypeOK
<1>3. ResidentInv'
  BY <1>1 DEF ResidentInv
<1>4. SlotInv(s)'
  <2>1. pc'[s] = "idle" /\ req'[s].op = "unload" /\ answer'[s].status = "none"
    BY <1>1 DEF TypeOK, NoRequest, NoAnswer
  <2>2. lock' # s
    BY <1>1 DEF SlotInv, Holding
  <2>3. QED
    BY <2>1, <2>2 DEF SlotInv, Holding, Computes
<1>5. \A t \in Slots : t # s => SlotInv(t)'
  BY <1>1, OtherSlot DEF TypeOK
<1>6. QED
  BY <1>2, <1>3, <1>4, <1>5

\* The clock, the reaper, and a start: no request moves, and the resident model
\* goes only while nobody has the lock.
LEMMA QuietStep ==
  ASSUME ManagerInv, IdlePasses \/ Reap \/ Start
  PROVE  ManagerInv'
<1> USE ManagerAssumption DEF ManagerInv
<1>1. /\ UNCHANGED <<lock, pc, req, local, out, answer, posted, bad, stops>>
      /\ up' \in BOOLEAN /\ idle' \in BOOLEAN
  BY DEF IdlePasses, Reap, Start, slot, bounds, TypeOK
<1>2. \/ lock = Free /\ model' = NoWeights /\ model_id' = NoModel /\ quantized' = FALSE
      \/ UNCHANGED <<model, model_id, quantized>>
  BY DEF IdlePasses, Reap, Start, ReleaseModel, resident
<1>3. TypeOK'
  BY <1>1, <1>2 DEF TypeOK
<1>4. ResidentInv'
  BY <1>2 DEF ResidentInv, NoWeights
<1>5. \A t \in Slots : SlotInv(t)'
  BY <1>1, <1>2, OtherSlot
<1>6. QED
  BY <1>3, <1>4, <1>5

\* The process ends: every request in progress breaks off with an error.
LEMMA StopStep ==
  ASSUME ManagerInv, Stop
  PROVE  ManagerInv'
<1> USE ManagerAssumption DEF ManagerInv
<1> DEFINE broken == [status |-> "500", precision |-> "unset"]
<1>1. /\ up' = FALSE /\ idle' = FALSE /\ lock' = Free
      /\ model' = NoWeights /\ model_id' = NoModel /\ quantized' = FALSE
      /\ pc' = [s \in Slots |-> IF pc[s] = "idle" THEN "idle" ELSE "answered"]
      /\ answer' = [s \in Slots |-> IF pc[s] \in {"idle", "answered"} THEN answer[s]
                                    ELSE broken]
      /\ UNCHANGED <<req, local, out, posted, bad>>
  BY DEF Stop, ReleaseModel
<1>2. TypeOK'
  <2>1. broken \in Answer
    BY DEF Answer, Statuses, Requested
  <2> HIDE DEF broken
  <2>2. answer' \in [Slots -> Answer]
    BY <1>1, <2>1 DEF TypeOK
  <2>3. stops' \in 0..MaxStops
    BY DEF Stop, TypeOK
  <2>4. QED
    BY <1>1, <2>2, <2>3 DEF TypeOK
<1>3. ResidentInv'
  BY <1>1 DEF ResidentInv, NoWeights
<1>4. ASSUME NEW t \in Slots PROVE SlotInv(t)'
  <2>1. lock' # t /\ pc'[t] = (IF pc[t] = "idle" THEN "idle" ELSE "answered")
    BY <1>1
  <2>2. /\ req'[t] = req[t] /\ out'[t] = out[t]
        /\ answer'[t] = answer[t] \/ answer'[t].status = "500"
        /\ pc[t] = "idle" => answer'[t] = answer[t]
    BY <1>1
  <2>3. SlotInv(t)
    OBVIOUS
  <2>4. QED
    BY <2>1, <2>2, <2>3 DEF SlotInv, Holding, Computes
<1>5. QED
  BY <1>2, <1>3, <1>4

\* No step breaks the invariant.
LEMMA ManagerStep ==
  ASSUME ManagerInv, [Next]_vars
  PROVE  ManagerInv'
<1>1. ASSUME NEW s \in Slots, Ask(s) PROVE ManagerInv'
  <2>1. PICK op \in Ops, name \in Names, n \in 0..NTexts, precision \in Requested :
          Post(s, op, name, precision, n)
    <3>1. \A op : TextsOf(op) \subseteq 0..NTexts
      BY ManagerAssumption DEF TextsOf
    <3>2. "unset" \in Requested
      BY DEF Requested
    <3>3. QED
      BY <1>1, <3>1, <3>2 DEF Ask
  <2>2. QED
    BY <2>1, PostStep
<1>2. ASSUME NEW s \in Slots, Step(s) PROVE ManagerInv'
  BY <1>2, AcquireStep, EvictStep, LoadDoneStep, LoadEndStep, ComputeDoneStep, ReportStep,
     CaptureStep, ComputeStep, UnloadStep DEF Step
<1>3. ASSUME NEW s \in Slots, Collect(s) PROVE ManagerInv'
  BY <1>3, CollectStep
<1>4. CASE Service
  BY <1>4, QuietStep, StopStep DEF Service
<1>5. CASE UNCHANGED vars
  BY <1>5 DEF vars, resident, slot, bounds, ManagerInv, TypeOK, ResidentInv, SlotInv,
     Computes, Refusal, Serves
<1>6. QED
  BY <1>1, <1>2, <1>3, <1>4, <1>5 DEF Next

-----------------------------------------------------------------------------
(* The theorems. *)

\* The invariant holds of every reachable state of the service.
THEOREM ManagerInvariant == Spec => []ManagerInv
<1>1. Init => ManagerInv
  BY ManagerInit
<1>2. ManagerInv /\ [Next]_vars => ManagerInv'
  BY ManagerStep
<1>3. QED
  BY <1>1, <1>2, PTL DEF Spec

\* Every variable keeps its type.
THEOREM TypeCorrect == Spec => []TypeOK
<1>1. ManagerInv => TypeOK
  BY DEF ManagerInv
<1>2. QED
  BY <1>1, ManagerInvariant, PTL

\* _model, _model_id and _quantized are all set or all absent whenever no loader is
\* between them, whatever loads, failures, unloads, reaps and restarts interleave.
THEOREM ResidentConsistent == Spec => []ResidentIsConsistent
<1>1. ManagerInv => ResidentIsConsistent
  BY DEF ManagerInv, ResidentInv, SlotInv, ResidentIsConsistent
<1>2. QED
  BY <1>1, ManagerInvariant, PTL

\* The model that encode and rerank compute with stays the resident one, of the
\* name in the request, until the computation ends.
THEOREM InUseStays == Spec => []InUseStaysResident
<1>1. ManagerInv => InUseStaysResident
  BY DEF ManagerInv, SlotInv, InUseStaysResident
<1>2. QED
  BY <1>1, ManagerInvariant, PTL

\* A 200 for embeddings or a rerank has one row per input, in the order of the
\* inputs, from the model in the request: a short result never passes for one.
THEOREM AnswersAligned == Spec => []AnswerIsAligned
<1>1. ManagerInv => AnswerIsAligned
  BY DEF ManagerInv, SlotInv, AnswerIsAligned
<1>2. QED
  BY <1>1, ManagerInvariant, PTL

=============================================================================
