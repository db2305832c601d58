\* One session retries files that may be edited while they are sent, over a
\* disk that may be damaged and lose power, where publish is hard_link and then
\* remove_file and the directory is not synced (Windows).
SPECIFICATION Spec
CONSTANTS
  Data = {x, y}
  Hole = Hole
  None = None
  Sessions = {s1}
  MaxBlocks = 2
  Quota = 2
  AtomicRename = FALSE
  SyncDirectory = FALSE
  MaxTransfers = 2
  MaxEdits = 1
  MaxFaults = 2
SYMMETRY Interchangeable
INVARIANTS
  TypeOK
  CompletedIsVerified
  WholeHashHoldsWithoutFaults
PROPERTIES
  GoodBlocksAreKept
  DeliverySpec
\* Every transfer of the bound has been used and has ended.
CHECK_DEADLOCK FALSE
