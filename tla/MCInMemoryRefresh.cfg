SPECIFICATION Spec
CONSTANTS
  Tokens = {t1, t2, t3}
  Ids = {s1, s2}
  Stamps = {v1, v2}
  Callers = {c1, c2}
  TTLs = {1, 7}
  Second = 1
  MaxInstant = 3
  MaxTime = 2
SYMMETRY Symmetry
INVARIANTS OneTokenPerSession
PROPERTIES LiveTokensKept ImplementsRotation
