\* One consumer per topic: order, losses, progress.
SPECIFICATION FairSpec
CONSTANTS
    g1 = g1
    t1 = t1
    t2 = t2
    c1 = c1
    c2 = c2
    Topics = {t1, t2}
    Groups = {g1}
    Consumers = {c1, c2}
    Subscription <- OnePerTopic
    BatchSize = 2
    MaxEvents = 3
    MaxCrashes = 1
INVARIANTS
    TypeOK
    DeliveredInOrder
    CrashLosesAtMostOne
PROPERTIES
    OffsetNeverRewinds
    EventuallyReached
    ImplementsStream
