CONSTANTS
  Others = {3}
  Cap = 2
  MaxRetries = 1
  MaxTop = 5
  MaxFaults = 2
SPECIFICATION FairSpec
INVARIANTS
  DeltasInOrder
  LossCounted
PROPERTIES
  StopHeard
CHECK_DEADLOCK FALSE
