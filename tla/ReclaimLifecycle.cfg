SPECIFICATION Spec
SYMMETRY OpenSymmetry
CHECK_DEADLOCK FALSE
CONSTANTS
  Opens = {o1, o2, o3}
  k1 = k1
  k2 = k2
  Keys = {k1}
  KeyOf <- OneKey
  Second = {}
  NilDone = {}
  NilValued = {}
  Failing = {"create", "wake"}
  Enforces = {TRUE, FALSE}
  ZeroGrace = FALSE
  Aliases = {}
  Publishers = {}
  Groups = {}
  Watches = {}
  MaxResets = 1
  Nobody = Nobody
INVARIANTS
  HeldIsAwake
  HolderCount
  HooksAlternate
  AwakeIsMapped
  BusyHasOneOwner
  OrphanBeforeDispose
PROPERTIES
  OneEnding
