CONSTANTS
  Addrs = {a1, a2}
  MaxId = 3
  MaxOps = 5
SPECIFICATION Spec
SYMMETRY AddrSymmetry
INVARIANTS
  IdNamesOneKey
  AckedSurvives
  ConsumedStaysGone
  UploadedNotOffered
CHECK_DEADLOCK FALSE
