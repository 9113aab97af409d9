\* Batches of an embedder that may be too large for the container, of an unlisted one and of a reranker.
SPECIFICATION FairSpec
CONSTANTS
    e1 = e1
    r1 = r1
    x = x
    s1 = s1
    s2 = s2
    p1 = p1
    p2 = p2
    pr = pr
    a = a
    b = b
    c = c
    Models = {e1, r1}
    NoModel = NoModel
    Names = {e1, r1, x}
    Kind <- Kinds
    Default <- Defaults
    Slots = {s1, s2}
    Free = Free
    NTexts = 1
    MaxRequests = 10
    MaxFaults = 0
    MaxStops = 1
    Primaries = {p1, p2, pr}
    Rerankers = {pr}
    RemoteId <- RemoteIds
    UseRemote <- Everywhere
    AllowLocal <- NotUnlisted
    Quantization <- Precisions
    Heavy = {p1}
    Tasks = {a, b, c}
    NoTask = NoTask
    PrimaryOf <- TasksOf
    MaxTroubles = 1
    MaxKills = 3
CHECK_DEADLOCK FALSE
INVARIANTS
    TypeOK
    RowsOfOwnModel
    GuardedKilledAtMostOnce
    BlockedOnlyAfterDeath
PROPERTY
    EveryBatchEnds
