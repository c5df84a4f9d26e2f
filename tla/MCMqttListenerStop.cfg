CONSTANTS
  Others = {3}
  Cap = 1
  MaxRetries = 1
  MaxTop = 2
  MaxFaults = 1
SPECIFICATION FairSpec
PROPERTIES
  StopEndsRun
CHECK_DEADLOCK FALSE
