\* Two sessions on one directory on Linux or Android, without disk faults: one writer
\* per digest, and under the fairness of the runtime every wait ends.
\* A file of two blocks is over the quota.
SPECIFICATION FairSpec
CONSTANTS
  Data = {x}
  Hole = Hole
  None = None
  Sessions = {s1, s2}
  MaxBlocks = 2
  Quota = 1
  AtomicRename = TRUE
  SyncDirectory = TRUE
  MaxTransfers = 2
  MaxEdits = 1
  MaxFaults = 0
INVARIANT
  OneWriterPerDigest
PROPERTIES
  SenderSettles
  LockIsReleased
\* Every transfer of the bound has been used and has ended.
CHECK_DEADLOCK FALSE
