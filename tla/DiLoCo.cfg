SPECIFICATION Spec
CONSTANTS
    Replicas = 2
    Slots = 2
    InnerSteps = 2
    StepsPerEpoch = 3
    Epochs = 3
    Intervals = {1, 2}
    MaxKills = 2
CHECK_DEADLOCK FALSE
INVARIANTS
    OneTheta
    CheckpointIsTheta
    MomentumBelongs
    AllWorkIsFolded
    NobodyWaitsAlone
