\* A file of three chunks over a network that loses and reorders, with a disk
\* that may fail and a disconnect of either side at any time.
SPECIFICATION FairSpec
CONSTANTS
  Chunks = 3
  Startup = 2
  AckStep = 2
  CreditCaps = {1, 2}
  CacheSize = 2
  GroupSize = 2
  Candidates = 2
  DiskMayFail = TRUE
INVARIANTS TypeOK ReceiverIsNotOverrun RefusedOnlyWhenDamaged
PROPERTIES DeliverySpec SenderSettles
\* The transfer has ended.
CHECK_DEADLOCK FALSE
