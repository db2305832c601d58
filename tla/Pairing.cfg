\* Two holders of one ticket and a stranger, with clocks that disagree and a
\* host clock that is set, under the fairness of tasks and timers.
SPECIFICATION FairSpec
CONSTANTS
  Guests = {g1, g2}
  Strangers = {x}
  Nobody = Nobody
  TTL = 4
  AttemptLimit = 2
  AuthLimit = 1
  JoinLimit = 3
  Skew = 1
  GuestOffsets <- WallClocks
  HostOffsets <- Corrections
  MaxTime = 7
INVARIANTS
  TypeOK
  GuestIsPaired
  HonouredTicketIsValid
PROPERTIES
  PairedWithinLife
  OnlyTimeFailsTheHost
  HostSettles
  JoinSettles
\* Everybody is paired or has given up, and the clock is at its bound.
CHECK_DEADLOCK FALSE
