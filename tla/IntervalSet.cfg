SPECIFICATION Spec
CONSTANTS
    NumBlocks = 8
    MaxSpans = 2
INVARIANTS
    PoolExact
