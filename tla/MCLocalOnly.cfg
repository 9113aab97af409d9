\* No remote service: local runs of a model that may exceed the memory limit.
SPECIFICATION Spec
CONSTANTS
    e1 = e1
    r1 = r1
    x = x
    s1 = s1
    s2 = s2
    p1 = p1
    p2 = p2
    pr = pr
    a = a
    b = b
    c = c
    Models = {e1, r1}
    NoModel = NoModel
    Names = {e1, r1, x}
    Kind <- Kinds
    Default <- Defaults
    Slots = {s1, s2}
    Free = Free
    NTexts = 1
    MaxRequests = 6
    MaxFaults = 0
    MaxStops = 0
    Primaries = {p1}
    Rerankers = {}
    RemoteId <- RemoteIds
    UseRemote <- Nowhere
    AllowLocal <- NotUnlisted
    Quantization <- Precisions
    Heavy = {p1}
    Tasks = {a}
    NoTask = NoTask
    PrimaryOf <- TasksOf
    MaxTroubles = 0
    MaxKills = 3
CHECK_DEADLOCK FALSE
INVARIANT
    KilledAtMostOnce
