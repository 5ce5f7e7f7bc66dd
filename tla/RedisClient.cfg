SPECIFICATION Spec
SYMMETRY Symmetry
CHECK_DEADLOCK FALSE
CONSTANTS
  Commands = {c1, c2, c3}
  Groups = {}
  Scripts = {c2}
  Cancelled = {c2}
  Sockets = {s1, s2, s3}
  PoolSize = 2
  MaxIdleConns = 2
  MaxRetries = 1
  MaxFaults = 1
  NativeGroup = FALSE
  Preloaded = TRUE
  None = None
INVARIANTS
  TurnsConserved
  SocketsAccounted
  RepliesMatch
  LateCloseIsHarmless
  LiveCap
  AppliedOnce
