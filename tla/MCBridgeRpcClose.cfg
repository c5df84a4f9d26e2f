CONSTANTS
  Ext = {e1, e2}
  Ctl = {k1}
  Sentinel = Sentinel
  MaxGen = 2
  MaxRetries = 1
  MayClose = TRUE
SPECIFICATION Spec
SYMMETRY CallSymmetry
INVARIANTS
  CallKeepsGeneration
  TimedOutRefused
  StrandedOnlyWhenGivenUp
  ClosedLeavesNoProcess
  SentinelLast
  NothingLeftBehind
PROPERTIES
  FramingIntact
CHECK_DEADLOCK FALSE
