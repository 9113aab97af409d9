\* Two jobs at once, a crash and a fault: safety.
SPECIFICATION Spec
CONSTANTS
    j1 = j1
    j2 = j2
    Jobs = {j1, j2}
    NoMsg = NoMsg
    GpuBatch = 2
    MaxCrashes = 1
    MaxFaults = 1
SYMMETRY Symmetry
INVARIANTS
    TypeOK
    CompletedHasResults
    EmbeddedBeforeRun
    NeverForgotten
