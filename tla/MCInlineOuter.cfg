SPECIFICATION Spec
CONSTANTS
  PersistEvery = 2
  KeepPersistent = 1
  KeepEphemeral = 1
  H0 = 10
  QsrMax = 20
  QsrWarmup = 1
  JensenLo = 15
  JensenHi = 60
  JensenWarmup = 1
  Rates = {1, 2}
  Gaps <- MCGaps
  MaxAttempts = 5
  MaxReadings = 3
  MaxCrashes = 1
  Overflows = 1
  WriteErrors = TRUE
INVARIANTS RecoversLastMerge RollbackReaches
PROPERTIES FractureBites
CHECK_DEADLOCK FALSE
