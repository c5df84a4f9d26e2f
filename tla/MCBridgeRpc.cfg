CONSTANTS
  Ext = {e1}
  Ctl = {k1, k2}
  Sentinel = Sentinel
  MaxGen = 2
  MaxRetries = 1
  MayClose = FALSE
SPECIFICATION FairSpec
INVARIANTS
  OneBridge
  NewsIsCurrent
  RecoveryExclusive
PROPERTIES
  AtMostOnce
  TaintHeals
  CallsReturn
CHECK_DEADLOCK FALSE
