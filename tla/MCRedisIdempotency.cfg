SPECIFICATION Spec
CONSTANTS
  k1 = k1
  Keys <- MCKeys
  TTLs <- MCTTLs
  Callers = {c1, c2}
  Conns = {n1, n2}
  Ops <- ContendingOps
  Commands <- ContendingCommands
  Second = 1
  MaxInstant = 3
  MaxTime = 2
  MaxPipe = 1
SYMMETRY Symmetry
INVARIANTS FailedConnectionNotCached
PROPERTIES ImplementsClaims
