\* Two request threads, an embedder, a reranker and an unknown id; three requests.
SPECIFICATION FairSpec
CONSTANTS
    e1 = e1
    r1 = r1
    x = x
    s1 = s1
    s2 = s2
    Models = {e1, r1}
    NoModel = NoModel
    Names = {e1, r1, x}
    Kind <- Kinds
    Default <- Defaults
    Slots = {s1, s2}
    Free = Free
    NTexts = 2
    MaxRequests = 3
    MaxFaults = 1
    MaxStops = 1
CHECK_DEADLOCK FALSE
INVARIANTS
    TypeOK
    ResidentIsConsistent
    InUseStaysResident
    AnswerIsAligned
PROPERTY
    EveryRequestAnswered
