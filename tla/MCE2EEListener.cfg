CONSTANTS
  Runs = {r1, r2}
  Stoppers = {s1}
  Waiters = {w1}
  Nobody = Nobody
  EnableE2EE = TRUE
  MaxEvents = 2
SPECIFICATION FairSpec
INVARIANTS
  NoOrphan
  FailureReported
  FlagsSettle
PROPERTIES
  StopEnds
CHECK_DEADLOCK FALSE
