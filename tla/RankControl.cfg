SPECIFICATION FairSpec
CONSTANTS
    Leader = r0
    Workers = {r1, r2}
    TrainingSteps = 3
    InnerSteps = 2
    MaxInner = 3
    MaxCommands = 3
CHECK_DEADLOCK FALSE
INVARIANTS
    NobodyIsStranded
    OneSchedule
PROPERTIES
    WorkersLeave
