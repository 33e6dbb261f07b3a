SPECIFICATION Spec

CONSTANTS
  None = None
  Second = 2
  MaxInstant = 40
  MaxI64 = 50
  MaxCount = 9

  Workers = {w1, w2}
  TTL = 3
  Grace = 1
  Cadence = 4
  Keep = 1
  LastCycle = 2
  MaxLag = 1
  MaxFaults = 2

  Runners = {r1, r2}
  Followups = {f1}
  RetryPolicy <- ThreeThenFive
  max_attempts = 3
  RunTTL = 3
  RunLag = 1
  RunFaults = 2

  Senders = {s1, s2}
  Marks = {"read"}
  MaxVersion = 2
  DeliveryAttempts = 2
  DeliveryFaults = 1

INVARIANTS
  EachCycleAppliedOnce
  StatusTellsWhoMayRun
  NewestCyclesKept
  ReachedOnce
  QuietReportMeansNothingLeft

PROPERTIES
  LeaseHandover
  NoRetryEarly
  WorkSettles

\* When all work is done the world stops.
CHECK_DEADLOCK FALSE
