SPECIFICATION Spec
CONSTANTS
  k1 = k1
  Keys <- MCKeys
  TTLs <- MCTTLs
  Callers = {c1, c2}
  Conns = {n1, n2}
  Ops = {"claim_pending"}
  Commands <- ClaimCommands
  Second = 1
  MaxInstant = 2
  MaxTime = 1
  MaxPipe = 1
PROPERTIES PendingMeansAnother
