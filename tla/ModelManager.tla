---------------------------- MODULE ModelManager ----------------------------
(***************************************************************************)
(* The remote embedder: the FastAPI routes of app.py over ModelManager,    *)
(* which keeps at most one model resident behind a re-entrant lock.        *)
(*                                                                         *)
(* A request runs in a slot: its route checks the arguments, a threadpool  *)
(* thread takes the lock and loads, unloads or computes, and the route     *)
(* answers.  The reaper thread unloads an idle model, and the answer to a  *)
(* load reads the precision without the lock.  A sub-batch is one text.    *)
(***************************************************************************)
EXTENDS Integers, Sequences

CONSTANTS
    Models,         \* MODEL_REGISTRY
    NoModel,        \* nothing is resident
    Names,          \* model ids that clients send
    Kind,           \* spec.kind: "embed" or "rerank"
    Default,        \* spec.quantize
    Slots,          \* threads of the pool, one per request in progress
    Free,           \* nobody holds the lock
    NTexts,         \* texts of an embeddings request
    MaxRequests,    \* bound: requests in a behaviour
    MaxFaults,      \* bound: loads and forward passes that go wrong
    MaxStops        \* bound: times the service goes down

ASSUME ManagerAssumption ==
    /\ Models \subseteq Names
    /\ NoModel \notin Names
    /\ Kind \in [Models -> {"embed", "rerank"}]
    /\ Default \in [Models -> BOOLEAN]
    /\ Free \notin Slots
    /\ NTexts \in Nat \ {0}
    /\ MaxRequests \in Nat
    /\ MaxFaults \in Nat
    /\ MaxStops \in Nat

VARIABLES
    up,             \* the service listens
    lock,           \* _lock: the slot that holds it
    model_id,       \* _model_id
    model,          \* _model: which weights, and whether they really are quantised
    quantized,      \* _quantized
    idle,           \* the last touch is idle_unload_s ago
    pc,             \* per slot: the step of its request
    req,            \* per slot: what was asked
    local,          \* per slot: the local `model` of encode and rerank
    out,            \* per slot: the vectors or scores so far, in order
    answer,         \* per slot: the response
    posted, bad, stops

resident == <<model_id, model, quantized>>
slot == <<pc, req, local, out, answer>>
bounds == <<posted, bad, stops>>
vars == <<up, lock, resident, idle, slot, bounds>>

Ops == {"encode", "rerank", "load", "unload"}
Requested == {"unset", "int8", "int4", "off", "other"}
Weights == [id : Models, quantised : BOOLEAN]
NoWeights == [id |-> NoModel, quantised |-> FALSE]
NoRequest == [op |-> "unload", name |-> NoModel, precision |-> "unset", texts |-> 0]
Statuses == {"none", "200", "400", "404", "500", "503"}
NoAnswer == [status |-> "none", precision |-> "unset"]
Request == [op : Ops, name : Names \cup {NoModel}, precision : Requested, texts : 0..NTexts]
Answer == [status : Statuses, precision : Requested]
OutRow == [text : 1..NTexts, by : Models]

Init ==
    /\ up = TRUE
    /\ lock = Free
    /\ model_id = NoModel
    /\ model = NoWeights
    /\ quantized = FALSE
    /\ idle = FALSE
    /\ pc = [s \in Slots |-> "idle"]
    /\ req = [s \in Slots |-> NoRequest]
    /\ local = [s \in Slots |-> NoWeights]
    /\ out = [s \in Slots |-> <<>>]
    /\ answer = [s \in Slots |-> NoAnswer]
    /\ posted = 0
    /\ bad = 0
    /\ stops = 0

Goes(s, step) == pc' = [pc EXCEPT ![s] = step]
Wrong == bad < MaxFaults /\ bad' = bad + 1 /\ UNCHANGED <<posted, stops>>

\* The route answers with a status; for a load, with a precision too.
Answered(s, status, precision) ==
    /\ Goes(s, "answered")
    /\ answer' = [answer EXCEPT ![s] = [status |-> status, precision |-> precision]]

-----------------------------------------------------------------------------
(* resolve_quantization and _quant_label. *)

\* The vocabulary of the model's own kind.
QuantLabel(m) == IF Kind[m] = "rerank" THEN "int4" ELSE "int8"

ResolveQuantization(m, precision) ==
    CASE precision = QuantLabel(m) -> TRUE
      [] precision = "off" -> FALSE
      [] OTHER -> Default[m]

\* encode and rerank load with the registry default.
WantQuant(s) ==
    ResolveQuantization(req[s].name,
                        IF req[s].op = "load" THEN req[s].precision ELSE "unset")

-----------------------------------------------------------------------------
(* Routes. *)

\* GET /api/v0/models lists every entry of the registry, with its state; the
\* resident model is read without the lock.
Listed(name) == name \in Models
IsLoaded(name) == model_id = name

\* The kind of model that an operation computes with.
Serves(op, m) ==
    CASE op = "encode" -> Kind[m] = "embed"
      [] op = "rerank" -> Kind[m] = "rerank"
      [] OTHER -> TRUE

\* An unknown model, or one of the wrong kind, is refused before the lock.
Refusal(op, name) ==
    IF op = "unload" \/ (name \in Models /\ Serves(op, name)) THEN "none"
    ELSE IF op = "load" THEN "404" ELSE "400"

Post(s, op, name, precision, n) ==
    LET refusal == Refusal(op, name) IN
    /\ up
    /\ pc[s] = "idle"
    /\ posted < MaxRequests
    /\ posted' = posted + 1
    /\ req' = [req EXCEPT ![s] = [op |-> op, name |-> name,
                                  precision |-> precision, texts |-> n]]
    /\ IF refusal = "none" THEN Goes(s, "waiting") /\ UNCHANGED answer
       ELSE Answered(s, refusal, "unset")
    /\ UNCHANGED <<up, lock, resident, idle, local, out, bad, stops>>

Acquire(s) ==
    /\ pc[s] = "waiting"
    /\ lock = Free
    /\ lock' = s
    /\ Goes(s, "locked")
    /\ UNCHANGED <<up, resident, idle, req, local, out, answer, bounds>>

-----------------------------------------------------------------------------
(* load. *)

\* Mutant of ReleaseModel: the flag of the old model stays.
ReleaseWeightsOnly ==
    /\ model' = NoWeights
    /\ model_id' = NoModel
    /\ UNCHANGED quantized

\* _release.
ReleaseModel ==
    /\ model' = NoWeights
    /\ model_id' = NoModel
    /\ quantized' = FALSE

\* What the request finds resident is what it needs: for a load, at its precision.
Resident(s) ==
    /\ model_id = req[s].name
    /\ req[s].op = "load" => quantized = WantQuant(s)

\* load() of a model that is resident at the precision wanted.
LoadHit(s) ==
    /\ pc[s] = "locked"
    /\ req[s].op = "load"
    /\ Resident(s)
    /\ idle' = FALSE
    /\ lock' = Free
    /\ Goes(s, "report")
    /\ UNCHANGED <<up, resident, req, local, out, answer, bounds>>

\* The model at another precision, or another model, goes before the loader runs.
Evict(s) ==
    /\ pc[s] = "locked"
    /\ req[s].op # "unload"
    /\ ~Resident(s)
    /\ ReleaseModel
    /\ Goes(s, "loading")
    /\ UNCHANGED <<up, lock, idle, req, local, out, answer, bounds>>

\* default_loader: a quantised load that raises, or has no CUDA device, is done
\* again at full precision.
Loader(s) == [id : {req[s].name}, quantised : {FALSE, WantQuant(s)}]

\* load() succeeds; encode and rerank, which called it, go on under the lock.
LoadDone(s) ==
    /\ pc[s] = "loading"
    /\ model' \in Loader(s)
    /\ model_id' = req[s].name
    /\ quantized' = WantQuant(s)
    /\ idle' = FALSE
    /\ IF req[s].op = "load" THEN Goes(s, "report") /\ lock' = Free
       ELSE Goes(s, "locked") /\ UNCHANGED lock
    /\ UNCHANGED <<up, req, local, out, answer, bounds>>

\* The loader raises, or _verify_dim rejects an embedder: nothing is resident.
LoadFails(s) ==
    /\ pc[s] = "loading"
    /\ Wrong
    /\ lock' = Free
    /\ Answered(s, "503", "unset")
    /\ UNCHANGED <<up, resident, idle, req, local, out>>

\* applied_quantization, read by the route when the lock is free again: the id
\* and the flag first, the id again for the label.
ReportFlag(s) ==
    /\ pc[s] = "report"
    /\ IF model_id = NoModel \/ ~quantized THEN Answered(s, "200", "off")
       ELSE Goes(s, "label") /\ UNCHANGED answer
    /\ UNCHANGED <<up, lock, resident, idle, req, local, out, bounds>>

ReportLabel(s) ==
    /\ pc[s] = "label"
    /\ Answered(s, "200", IF model_id = NoModel THEN "int8" ELSE QuantLabel(model_id))
    /\ UNCHANGED <<up, lock, resident, idle, req, local, out, bounds>>

-----------------------------------------------------------------------------
(* encode and rerank. *)

Computes(s) == req[s].op \in {"encode", "rerank"}

Capture(s) ==
    /\ pc[s] = "locked"
    /\ Computes(s)
    /\ Resident(s)
    /\ local' = [local EXCEPT ![s] = model]
    /\ out' = [out EXCEPT ![s] = <<>>]
    /\ Goes(s, "work")
    /\ UNCHANGED <<up, lock, resident, idle, req, answer, bounds>>

\* The next text to be computed.
Position(s) == Len(out[s]) + 1

\* Mutant of Compute: the loop runs one sub-batch too far.
ComputePast(s) ==
    /\ pc[s] = "work"
    /\ Position(s) <= req[s].texts + 1
    /\ out' = [out EXCEPT ![s] = Append(@, [text |-> Position(s), by |-> local[s].id])]
    /\ Goes(s, "work")
    /\ UNCHANGED <<up, lock, resident, idle, req, local, answer, bounds>>

\* One sub-batch of encode(), or the whole pool of rerank(), in input order.
Compute(s) ==
    /\ pc[s] = "work"
    /\ Position(s) <= req[s].texts
    /\ out' = [out EXCEPT ![s] = Append(@, [text |-> Position(s), by |-> local[s].id])]
    /\ Goes(s, "work")
    /\ UNCHANGED <<up, lock, resident, idle, req, local, answer, bounds>>

\* The encoder returns no row for a text, and the rows of the texts after it.
ComputeShort(s) ==
    /\ pc[s] = "work"
    /\ Position(s) <= req[s].texts
    /\ Wrong
    /\ out' = [out EXCEPT ![s] = @ \o [i \in 1..(req[s].texts - Position(s)) |->
                   [text |-> Position(s) + i, by |-> local[s].id]]]
    /\ Goes(s, "checked")
    /\ UNCHANGED <<up, lock, resident, idle, req, local, answer>>

\* The forward pass raises: the lock is given back, the model stays.
ComputeFails(s) ==
    /\ pc[s] = "work"
    /\ Position(s) <= req[s].texts
    /\ Wrong
    /\ lock' = Free
    /\ Answered(s, "500", "unset")
    /\ UNCHANGED <<up, resident, idle, req, local, out>>

\* Mutant of Counted: the number of rows is not compared.
CountedNever(s) == TRUE

\* One row per text.
Counted(s) == Len(out[s]) = req[s].texts

ComputeDone(s) ==
    /\ pc[s] = "checked" \/ (pc[s] = "work" /\ Position(s) > req[s].texts)
    /\ idle' = FALSE
    /\ lock' = Free
    /\ Answered(s, IF Counted(s) THEN "200" ELSE "503", "unset")
    /\ UNCHANGED <<up, resident, req, local, out, bounds>>

-----------------------------------------------------------------------------
(* unload, the reaper, and the service itself. *)

\* Mutant of Unload: an unload of a model that is not resident keeps the lock.
UnloadStuck(s) ==
    /\ pc[s] = "locked"
    /\ req[s].op = "unload"
    /\ IF model_id = req[s].name THEN ReleaseModel /\ lock' = Free
       ELSE UNCHANGED <<resident, lock>>
    /\ Answered(s, "200", "unset")
    /\ UNCHANGED <<up, idle, req, local, out, bounds>>

Unload(s) ==
    /\ pc[s] = "locked"
    /\ req[s].op = "unload"
    /\ IF model_id = req[s].name THEN ReleaseModel ELSE UNCHANGED resident
    /\ lock' = Free
    /\ Answered(s, "200", "unset")
    /\ UNCHANGED <<up, idle, req, local, out, bounds>>

\* The clock reaches the idle threshold.
IdlePasses ==
    /\ up
    /\ model_id # NoModel
    /\ ~idle
    /\ idle' = TRUE
    /\ UNCHANGED <<up, lock, resident, slot, bounds>>

\* Mutant of Reap: the reaper does not take the lock.
ReapUnlocked ==
    /\ up
    /\ model_id # NoModel
    /\ idle
    /\ ReleaseModel
    /\ UNCHANGED <<up, lock, idle, slot, bounds>>

\* reap_once, between two requests.
Reap ==
    /\ up
    /\ lock = Free
    /\ model_id # NoModel
    /\ idle
    /\ ReleaseModel
    /\ UNCHANGED <<up, lock, idle, slot, bounds>>

\* The client has the answer.
Collect(s) ==
    /\ pc[s] = "answered"
    /\ Goes(s, "idle")
    /\ req' = [req EXCEPT ![s] = NoRequest]
    /\ local' = [local EXCEPT ![s] = NoWeights]
    /\ out' = [out EXCEPT ![s] = <<>>]
    /\ answer' = [answer EXCEPT ![s] = NoAnswer]
    /\ UNCHANGED <<up, lock, resident, idle, bounds>>

\* The process ends: requests in progress break off, the memory is gone.
Stop ==
    /\ up
    /\ stops < MaxStops
    /\ stops' = stops + 1
    /\ up' = FALSE
    /\ lock' = Free
    /\ ReleaseModel
    /\ idle' = FALSE
    /\ pc' = [s \in Slots |-> IF pc[s] = "idle" THEN "idle" ELSE "answered"]
    /\ answer' = [s \in Slots |-> IF pc[s] \in {"idle", "answered"} THEN answer[s]
                                  ELSE [status |-> "500", precision |-> "unset"]]
    /\ UNCHANGED <<req, local, out, posted, bad>>

Start ==
    /\ ~up
    /\ up' = TRUE
    /\ UNCHANGED <<lock, resident, idle, slot, bounds>>

-----------------------------------------------------------------------------
\* What the threads of the service do with the requests they have.
Step(s) ==
    \/ Acquire(s) \/ LoadHit(s) \/ Evict(s) \/ LoadDone(s) \/ LoadFails(s)
    \/ ReportFlag(s) \/ ReportLabel(s)
    \/ Capture(s) \/ Compute(s) \/ ComputeShort(s) \/ ComputeFails(s) \/ ComputeDone(s)
    \/ Unload(s)

\* Texts in a request of each kind: a rerank pool is scored in one pass.
TextsOf(op) == IF op = "encode" THEN 1..NTexts ELSE {1}

Ask(s) ==
    \E op \in Ops, name \in Names :
        \E n \in TextsOf(op), precision \in IF op = "load" THEN Requested ELSE {"unset"} :
            Post(s, op, name, precision, n)

Service == IdlePasses \/ Reap \/ Stop \/ Start

Next == (\E s \in Slots : Ask(s) \/ Step(s) \/ Collect(s)) \/ Service

Spec == Init /\ [][Next]_vars

\* Every call a thread makes returns or raises, and a waiting thread gets the lock
\* when it is free for good.
FairSpec == Spec /\ \A s \in Slots : WF_vars(Step(s))

-----------------------------------------------------------------------------
TypeOK ==
    /\ up \in BOOLEAN
    /\ lock \in Slots \cup {Free}
    /\ model_id \in Models \cup {NoModel}
    /\ model \in Weights \cup {NoWeights}
    /\ quantized \in BOOLEAN
    /\ idle \in BOOLEAN
    /\ pc \in [Slots -> {"idle", "waiting", "locked", "loading", "report", "label",
                         "work", "checked", "answered"}]
    /\ req \in [Slots -> Request]
    /\ local \in [Slots -> Weights \cup {NoWeights}]
    /\ out \in [Slots -> Seq(OutRow)]
    /\ answer \in [Slots -> Answer]
    /\ posted \in 0..MaxRequests
    /\ bad \in 0..MaxFaults
    /\ stops \in 0..MaxStops

Holding == {"locked", "loading", "work", "checked"}

\* The three attributes agree whenever no loader is between them: weights, id and
\* flag are all there or all absent, weights at a precision nobody asked for are
\* always the loader's fallback, and a failed load leaves nothing behind that
\* a later request could take for its model.
ResidentIsConsistent ==
    /\ (model_id = NoModel) <=> (model = NoWeights)
    /\ model_id = model.id
    /\ model.quantised => quantized
    /\ quantized => model_id # NoModel
    /\ \A s \in Slots : pc[s] = "loading" => model_id = NoModel

\* The model that a request computes with is the resident one until it has
\* finished: no other request, unload or reaper takes it away half-way, so there
\* is never a second model in memory beside one that is being used.
InUseStaysResident ==
    \A s \in Slots : pc[s] \in {"work", "checked"} =>
        /\ local[s] = model
        /\ model_id = req[s].name

\* An answer of 200 to an embeddings or rerank request has a row for every input,
\* in the order of the inputs, all computed by the model that was named, whatever
\* was loaded or unloaded by other requests while it waited.
AnswerIsAligned ==
    \A s \in Slots : Computes(s) /\ answer[s].status = "200" =>
        out[s] = [i \in 1..req[s].texts |-> [text |-> i, by |-> req[s].name]]

\* Every request is answered, and none keeps the lock: however loads and forward
\* passes fail, and whichever requests compete.
EveryRequestAnswered ==
    \A s \in Slots : pc[s] = "waiting" ~> pc[s] = "answered"

=============================================================================
