\* An acknowledgement repeated for a file whose publication was never synced.
SPECIFICATION Spec
CONSTANTS
  Data = {x}
  Hole = Hole
  None = None
  Sessions = {s1}
  MaxBlocks = 1
  Quota = 1
  AtomicRename = TRUE
  SyncDirectory = TRUE
  MaxTransfers = 2
  MaxEdits = 0
  MaxFaults = 1
INVARIANT
  ReportedSurvivesPowerLoss
CHECK_DEADLOCK FALSE
