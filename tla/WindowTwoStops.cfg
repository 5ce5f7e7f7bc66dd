SPECIFICATION FairSpec
CHECK_DEADLOCK FALSE
CONSTANTS
  l1 = l1
  Limiters = {l1}
  Calls = {}
  Peeks = {}
  Owners = {o1, o2}
  Stoppers = {o1, o2}
  Timers = {t1, t2, t3, t4}
  MaxClock = 1
  MaxFaults = 0
  Uses <- StopsTwice
  LimiterOf <- OneLimiter
  None = None
PROPERTY LifecycleReturns
