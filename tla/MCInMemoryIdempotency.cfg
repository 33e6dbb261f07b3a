SPECIFICATION Spec
CONSTANTS
  Keys = {k1, k2}
  Callers = {c1, c2}
  TTLs = {0, 1, 7}
  Second = 2
  MaxInstant = 3
  MaxTime = 2
SYMMETRY Symmetry
INVARIANTS TypeOK AtMostOneLiveGrant
PROPERTIES LiveEntriesKept NoExpiredSurvivor ImplementsClaims
