SPECIFICATION Spec
SYMMETRY AliasSymmetry
CHECK_DEADLOCK FALSE
CONSTANTS
  Opens = {o1, o2}
  k1 = k1
  k2 = k2
  Keys = {k1, k2}
  KeyOf <- TwoKeys
  Second = {o2}
  NilDone = {}
  NilValued = {o2}
  Failing = {}
  Enforces = {TRUE, FALSE}
  ZeroGrace = TRUE
  Aliases = {a1, a2}
  Publishers = {p1, p2}
  Groups = {g1}
  Watches = {w1}
  MaxResets = 1
  Nobody = Nobody
INVARIANTS
  LinksMirrorEntries
  WatcherUpToDate
  BoundIsAlive
