CONSTANTS
  Others = {3}
  Cap = 1
  MaxRetries = 3
  MaxTop = 2
  MaxFaults = 1
SPECIFICATION FairSpec
PROPERTIES
  OverflowHeals
CHECK_DEADLOCK FALSE
