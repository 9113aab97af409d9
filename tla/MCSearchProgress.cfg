\* One job, several crashes and faults: progress.
SPECIFICATION FairSpec
CONSTANTS
    j1 = j1
    j2 = j2
    Jobs = {j1}
    NoMsg = NoMsg
    GpuBatch = 2
    MaxCrashes = 2
    MaxFaults = 1
PROPERTY
    EventuallySettled
