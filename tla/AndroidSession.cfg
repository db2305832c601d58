\* Two sessions after each other, a file sent in each; room for one source in the
\* registry, so that a second is copied instead.
SPECIFICATION FairSpec
CONSTANTS
  Engines = {1, 2}
  Calls <- MCCalls
  NoCall = NoCall
  NoSession = NoSession
  MaxSends = 1
  MaxSources = 1
  MaxFiles = 0
  Digests = {}
  MaxGenerations = 3
INVARIANTS TypeOK CommandTakesItsSource SendButtonIsCurrent
PROPERTIES RequestsLetGo
CHECK_DEADLOCK FALSE
