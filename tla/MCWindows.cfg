SPECIFICATION MCSpec

CONSTANTS
  k1 = k1
  k2 = k2
  Keys = {k1}
  LimitOf <- MCLimits
  Requests = {r1, r2, r3}
  CountMax = 4
  Milli = 2
  MaxLag = 2
  Grace = 2
  MaxTime = 5
  Ages = {0, 3}
  ProcessKeys = {k1, k2}
  ProcessLimitOf <- BothLimits
  ProcessLag = 0

SYMMETRY Symmetry

INVARIANTS
  AtMostCount

PROPERTIES
  RejectedOnlyWhenFull
  InProcessCountsItsWindow
