SPECIFICATION MCSpec
CONSTANTS
    near = near
    far = far
    NoEval = NoEval
    Sites <- MCSites
    Shapes <- MCShapes
    Submitter <- MCSubmitter
    Geometry <- MCGeometry
    EvalFix <- MCEvalFix
    EvalWindows = 0
    Startup <- MCStartup
    MaxProbeAge = 2
    NoProbe = NoProbe
    Xfer <- MCXfer
    UserGrid = {}
    LanesMax = 1
    MaxLinks = 3
    ChainPolicies = {"none", "self", "singleton"}
    Horizon = 20
    Overlap = TRUE
    Lead = 0
    Warm = {}
    BalanceMax = 2
    Merge = 1
    Tau = 2
CHECK_DEADLOCK FALSE
INVARIANTS
    CreditedAreAlive
    SplitIsExact
    PrunePreserves
    EnvelopeIsExact
    RecommendationStands
PROPERTIES
    FastIsStepping
