SPECIFICATION Spec
CONSTANTS
  t1 = t1
  t2 = t2
  t3 = t3
  s1 = s1
  v1 = v1
  v2 = v2
  Tokens = {t1, t2, t3}
  Ids = {s1}
  Stamps = {v1, v2}
  TTLs <- MCTTLs
  Minted <- MCMinted
  Callers = {c1}
  Conns = {n1, n2}
  Commands <- TwoCommands
  Retries = TRUE
  Second = 1
  MaxInstant = 1
  MaxTime = 0
  MaxPipe = 1
INVARIANTS RotationIsSingleUse
