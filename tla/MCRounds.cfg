SPECIFICATION MCSpec
CONSTANTS
  Cluster = {a, b}
  NumRounds = 2
  MinClients = 1
  MaxStarts = 2
  MaxInFlight = 1
CHECK_DEADLOCK FALSE
INVARIANTS
  OnlyFitIsMerged
PROPERTIES
  TasksAdvance
  EveryPhaseEnds
  RunEnds
