SPECIFICATION Spec
CONSTANTS
  a = a
  b = b
  c = c
  d = d
  x = x
  y = y
  z = z
  old = old
  new = new
  url = url
  junk = junk
  seen = seen
  Steps <- MCSteps
  Stages <- MCStages
  Entities <- MCEntities
  Vals <- MCVals
  Preds = {seen}
  Carry <- MCCarry
  Cut = {url}
  Writes <- MCWrites
  Guarded = {b}
  Filtered = {c}
  Inject = {b, c, d}
  MaxEntities = 2
  RetryCount = 1
  Configs <- MCConfigs
  PoolFaults = TRUE
  Seeds <- MCSeeds
  Absent = Absent
  None = None
CHECK_DEADLOCK FALSE
PROPERTIES
  OnlyCompletedContribute
  LastListedDecides
  Implements
