SPECIFICATION CoordinatorSpec
CONSTANTS
    Cluster = {c1}
    Incarnation = {}
    NoIncarnation = none
    NumBlocks = 2
    MaxEpochs = 1
    MaxAttempts = 0
    MinBlocks = 1
    MaxBlocks = 2
    StealMin = 1
    AllowStealing = FALSE
    MaxSpans = 2
    MaxRequest = 4
    MaxSeq = 3
    Free = free
    Done = done
    Bad = bad
    NoSnapshot = nosnapshot
    NoLease = nolease
    SnapshotFirst = TRUE
    Expires = FALSE
    GoesSilent = FALSE
    TornWrites = FALSE
    MaxLines = 4
VIEW NoAttempts
INVARIANTS
    CommitsSurvive
    NoPhantomCommit
PROPERTIES
    LeasesSurvive
