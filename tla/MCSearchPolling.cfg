\* No crash and no fault, only two threads on one loop: what polling clients rely on.
SPECIFICATION FairSpec
CONSTANTS
    j1 = j1
    j2 = j2
    Jobs = {j1}
    NoMsg = NoMsg
    GpuBatch = 1
    MaxCrashes = 0
    MaxFaults = 0
PROPERTY EveryJobTerminates
