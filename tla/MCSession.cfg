SPECIFICATION SessionSpec
CONSTANTS
    NumBlocks = 2
    MaxSpans = 2
    Cluster = {a, b}
    Incarnation <- Lives
    NoIncarnation = none
    MaxEpochs = 1
    MaxAttempts = 0
    MinBlocks = 2
    MaxBlocks = 2
    StealMin = 1
    AllowStealing = TRUE
    MaxRequest = 2
    MaxSeq = 3
    Job = {a}
    PhaseBlocks = 2
    InnerSteps = 2
    Consumption = FALSE
    Outages = TRUE
    LostReplies = TRUE
    GiveUps = TRUE
    MaxLives = 1
    Heartbeats = TRUE
    MaxCrashes = 0
    MaxPeerSeq = 2
    MaxDivergeSeq = 1
    Free = Free
    Done = Done
    Bad = Bad
VIEW WhatMatters
CHECK_DEADLOCK FALSE
INVARIANTS
    ViewIsSafe
