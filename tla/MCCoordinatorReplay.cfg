SPECIFICATION CoordinatorSpec
CONSTANTS
    Cluster = {c1, c2}
    Incarnation = {}
    NoIncarnation = none
    NumBlocks = 2
    MaxEpochs = 2
    MaxAttempts = 1
    MinBlocks = 2
    MaxBlocks = 2
    StealMin = 1
    AllowStealing = TRUE
    MaxSpans = 2
    MaxRequest = 4
    MaxSeq = 2
    Free = free
    Done = done
    Bad = bad
    NoSnapshot = nosnapshot
    NoLease = nolease
    SnapshotFirst = TRUE
    Expires = TRUE
    GoesSilent = FALSE
    TornWrites = TRUE
    MaxLines = 3
SYMMETRY ClusterSymmetry
VIEW NoHistory
INVARIANTS
    ReplayVerifies
