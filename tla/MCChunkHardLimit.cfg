\* A chunk of more words than hard_limit: every short text and a family of longer ones.
SPECIFICATION Spec
CONSTANTS
    MaxChars = 6
    MaxTokens = 5
    Texts <- Samples
    Configs <- Strategies
    Markers <- Hierarchy
    Tolerance <- Fifth
    MinTarget = 2
    MinSlack = 1
    NoBreak = NoBreak
    MaxChunks = 12
CHECK_DEADLOCK FALSE
INVARIANT WithinHardLimit
