SPECIFICATION FairSpec
CHECK_DEADLOCK FALSE
CONSTANTS
  l1 = l1
  Limiters = {l1}
  Calls = {c1}
  Peeks = {}
  Owners = {o1, o2}
  Stoppers = {o1}
  Timers = {t1, t2}
  MaxClock = 1
  MaxFaults = 1
  Uses <- StopsTwice
  LimiterOf <- OneLimiter
  None = None
INVARIANTS
  TicksAreCounted
  StoppedIsQuiet
PROPERTIES
  LifecycleReturns
  HitsReachRedis
