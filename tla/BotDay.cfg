SPECIFICATION FairSpec
CONSTANTS
  f1 = f1
  f2 = f2
  Forced <- MCForced
  MaxCycles = 3
  MaxDowns = 1
  MaxLeaks = 1
  Boots <- MCBoots
INVARIANTS
  OneCycle
  RunsOnlyIfAsked
PROPERTIES
  AcceptedEnds
  StopEnds
