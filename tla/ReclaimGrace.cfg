SPECIFICATION ServeSpec

CHECK_DEADLOCK FALSE
CONSTANTS
  Opens = {o1, o2, o3}
  k1 = k1
  k2 = k2
  Keys = {k1}
  KeyOf <- OneKey
  Second = {}
  NilDone = {}
  NilValued = {}
  Failing = {}
  Enforces = {FALSE}
  ZeroGrace = FALSE
  Aliases = {}
  Publishers = {}
  Groups = {}
  Watches = {}
  MaxResets = 0
  Nobody = Nobody
INVARIANT GraceIsKept
