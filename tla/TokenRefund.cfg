SPECIFICATION Spec
SYMMETRY Symmetry
CHECK_DEADLOCK FALSE
CONSTANTS
  Limiters = {l1, l2}
  Unit = 3
  Rate = 2
  Burst = 2
  MaxDelay = 3
  Nanos = 2
  TTL = 7
  MaxSkew = 1
  MaxLag = 1
  MaxResends = 1
  MaxClock = 9
  None = None
INVARIANTS
  AllowedIsPaid
