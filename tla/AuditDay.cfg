SPECIFICATION FairSpec
CONSTANTS
  p1 = p1
  p2 = p2
  Publishers <- MCPublishers
  K = 2
  Recorded <- MCRecorded
  SubMax = 2
  SinkMax = 1
  MaxDay = 2
  Timeouts = TRUE
  Configs <- MCConfigs
  Stop = Stop
  Nothing = Nothing
CHECK_DEADLOCK FALSE
INVARIANTS
  Conservation
  InOrder
PROPERTIES
  CloseReturns
