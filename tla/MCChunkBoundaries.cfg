\* Every short text and a family of longer ones, in four configurations.
SPECIFICATION Spec
CONSTANTS
    MaxChars = 6
    MaxTokens = 5
    Texts <- Samples
    Configs <- Strategies
    Markers <- Hierarchy
    Tolerance <- Fifth
    MinTarget = 2
    MinSlack = 1
    NoBreak = NoBreak
    MaxChunks = 12
CHECK_DEADLOCK FALSE
INVARIANTS
    TypeOK
    NothingLost
    CutOnce
    EvenTextWithinLimit
PROPERTY StallsOnlyWhenFull
