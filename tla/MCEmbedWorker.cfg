\* Two model queues, batches of two, two live tasks in one queue, a stale and a malformed message.
SPECIFICATION FairSpec
CONSTANTS
    m1 = m1
    m2 = m2
    a = a
    b = b
    c = c
    d = d
    e = e
    Models = {m1, m2}
    NoModel = NoModel
    Tasks = {a, b, c, d, e}
    ModelOf <- TwoQueues
    Malformed = {e}
    Stale = {b}
    MaxBatch = 2
    MaxCrashes = 1
    MaxFaults = 2
CHECK_DEADLOCK FALSE
INVARIANTS
    TypeOK
    BatchInvariant
    OneSpacePerTable
    AckedIsDone
    AnnouncedIsStored
PROPERTY
    EventuallySettled
