CONSTANTS
  Addrs = {a1}
  MaxId = 1
  MaxOps = 2
SPECIFICATION Spec
SYMMETRY AddrSymmetry
INVARIANTS
  FailureLeavesNoTrace
CHECK_DEADLOCK FALSE
