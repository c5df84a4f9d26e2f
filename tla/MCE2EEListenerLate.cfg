CONSTANTS
  Runs = {r1, r2}
  Stoppers = {s1}
  Waiters = {w1}
  Nobody = Nobody
  EnableE2EE = TRUE
  MaxEvents = 0
SPECIFICATION Spec
SYMMETRY ThreadSymmetry
INVARIANTS
  NoReadyAfterStop
CHECK_DEADLOCK FALSE
