SPECIFICATION FairSessionSpec
CONSTANTS
    NumBlocks = 2
    MaxSpans = 2
    Cluster = {a, b}
    Incarnation <- Lives
    NoIncarnation = none
    MaxEpochs = 1
    MaxAttempts = 0
    MinBlocks = 1
    MaxBlocks = 1
    StealMin = 1
    AllowStealing = TRUE
    MaxRequest = 1
    MaxSeq = 8
    Job = {a}
    PhaseBlocks = 1
    InnerSteps = 1
    Consumption = FALSE
    Outages = FALSE
    LostReplies = TRUE
    GiveUps = FALSE
    MaxLives = 2
    Heartbeats = FALSE
    MaxCrashes = 1
    MaxPeerSeq = 2
    MaxDivergeSeq = 0
    Free = Free
    Done = Done
    Bad = Bad
CHECK_DEADLOCK FALSE
INVARIANTS
    CommitsAreDurable
    GrantsAreHeld
PROPERTIES
    EpochEnds
