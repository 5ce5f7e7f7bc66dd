SPECIFICATION FairSpec

CHECK_DEADLOCK FALSE
CONSTANTS
  Opens = {o1, o2}
  k1 = k1
  k2 = k2
  Keys = {k1}
  KeyOf <- OneKey
  Second = {}
  NilDone = {o1}
  NilValued = {}
  Failing = {"create", "wake", "sleep"}
  Enforces = {TRUE, FALSE}
  ZeroGrace = FALSE
  Aliases = {a1}
  Publishers = {p1}
  Groups = {g1}
  Watches = {}
  MaxResets = 1
  Nobody = Nobody
INVARIANT EnforcedCloseBeforeCreate
PROPERTIES
  OpenReturns
  OrphansAreClosed
  WatchersExit
