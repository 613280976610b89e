SPECIFICATION Spec
CONSTANTS
    Cluster = {c1, c2}
    Incarnation = {i1, i2}
    NoIncarnation = none
    NumBlocks = 3
    MaxEpochs = 2
    MaxAttempts = 2
    MinBlocks = 1
    MaxBlocks = 3
    StealMin = 1
    AllowStealing = TRUE
    MaxSpans = 2
    MaxRequest = 3
    MaxSeq = 3
    Free = free
    Done = done
    Bad = bad
SYMMETRY Symmetry
INVARIANTS
    Verified
    ZeroDuplication
PROPERTIES
    StealSparesProgress
    AcquireSkipsNothing
    LedgerSpec
