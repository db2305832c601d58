\* Every order, loss and duplication of up to MaxCounter packets.
SPECIFICATION Spec
CONSTANTS
  Width = 4
  MaxCounter = 10
INVARIANTS
  TypeOK
  OpenedAtMostOnce
  FreshIsNotRefused
  WindowInvariant
\* The counter is exhausted.
CHECK_DEADLOCK FALSE
