SPECIFICATION FairSpec
CONSTANTS
  k1 = k1
  Keys <- MCKeys
  TTLs <- MCTTLs
  Callers = {c1}
  Conns = {n1, n2}
  Ops <- AllOps
  Commands <- AllCommands
  Second = 2
  MaxInstant = 4
  MaxTime = 2
  MaxPipe = 2
PROPERTIES EveryCallReturns
