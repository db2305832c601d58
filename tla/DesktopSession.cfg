\* Two engines, two requests that may be a double click, a received file and a
\* disconnect, under the fairness of timers and callbacks.
SPECIFICATION FairSpec
CONSTANTS
  Engines = {1, 2}
  Calls = {c1, c2}
  NoCall = NoCall
  NoEngine = NoEngine
  MaxFiles = 1
  Digests = {d1}
  MaxPending = 1
  MaxDisconnects = 1
INVARIANTS TypeOK OneEngine SendsAreCounted UiShowsNoGhost
PROPERTIES EveryCallIsAnswered
CHECK_DEADLOCK FALSE
