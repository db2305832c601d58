\* A loss in the middle of a file: a repair request switches parity on.
SPECIFICATION Spec
CONSTANTS
  Chunks = 3
  Startup = 2
  AckStep = 2
  CreditCaps = {2}
  CacheSize = 4
  GroupSize = 4
  Candidates = 1
  DiskMayFail = FALSE
INVARIANT ParityRecovers
CHECK_DEADLOCK FALSE
