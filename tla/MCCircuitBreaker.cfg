SPECIFICATION FairSpec
CONSTANTS
  c1 = c1  c2 = c2
  Callers = {c1, c2}
  Window = 2
  Threshold = 2
  OpenSecs = 2
  MaxRetries = 1
  MaxDelay = 1
INVARIANTS
  TypeOK
  ClosedBelowThreshold
PROPERTIES
  OpensOnStreak
  StaysOpen
  EventuallyTried
