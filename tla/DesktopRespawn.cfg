SPECIFICATION Spec
CONSTANTS
  Engines = {1, 2}
  Calls = {c1, c2}
  NoCall = NoCall
  NoEngine = NoEngine
  MaxFiles = 0
  Digests = {d1}
  MaxPending = 8
  MaxDisconnects = 1
INVARIANTS DisconnectStopsEngine
CHECK_DEADLOCK FALSE
