SPECIFICATION Spec
SYMMETRY Symmetry
CHECK_DEADLOCK FALSE
CONSTANTS
  l1 = l1
  Limiters = {l1}
  Calls = {c1, c2}
  Peeks = {c1, c2}
  Owners = {}
  Stoppers = {}
  Timers = {t1, t2}
  MaxClock = 3
  MaxFaults = 1
  Uses <- StopsTwice
  LimiterOf <- OneLimiter
  None = None
INVARIANTS
  HitsConserved
  OneFlushInFlight
  FailureIsNotSilent
