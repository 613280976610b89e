SPECIFICATION Spec
CONSTANTS
  Job = {j1, j2}
  Cluster = {a, b}
  KeepRounds = 1
  KilledAt = {"idle", "open", "closed", "seeding", "ready", "published"}
  MaxModels = 3
  MaxPhases = 4
  MaxKills = 1
INVARIANTS MergesMeetTheirBase FilesAgree ServedIsCurrent DownloadsFinish
PROPERTIES ModelIsKept
SYMMETRY MCSymmetry
CHECK_DEADLOCK FALSE
