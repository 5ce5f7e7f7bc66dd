SPECIFICATION Spec
SYMMETRY Symmetry
CHECK_DEADLOCK FALSE
CONSTANTS
  Callers = {c1, c2}
  Keys = {k1, k2}
  TripFailures = 2
  Success = 1
  Failure = 1
  BaseCooldown = 2
  MaxCooldown = 7
  TTL = 3
  Spread = 1
  Parts = 4
  MaxKeys = 1
  MaxLag = 1
  MaxClock = 10
  None = None
INVARIANTS
  CreditMatchesState
  TripsInTime
  DenialsEnd
PROPERTIES
  ProbesAreSpaced
  ExponentIsKept
  ForgetsIdleOnly
