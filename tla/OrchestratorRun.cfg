SPECIFICATION Spec
CONSTANTS
  NGoals = 4
  NTools = 2
  Hits <- MCHits
  Salvageable = {3}
  ProseCell <- MCProseCell
  Prose = text
  Attrs <- MCAttrs
  Vals <- MCVals
  Preds <- MCPreds
  InitAttrs <- MCInitAttrs
  InitPreds = {}
  Rules <- MCRules
  Replies <- MCReplies
  ToolOutputs <- MCToolOutputs
  Configs <- MCConfigs
  AdapterFaults = TRUE
  ProviderFaults = TRUE
  Absent = Absent
  NoTool = NoTool
  NoSnapshot = NoSnapshot
  score = score
  report = report
  low = low
  high = high
  text = text
  good = good
  vip = vip
CHECK_DEADLOCK FALSE
INVARIANTS
  SuccessIsDurable
  CheckpointConsistent
  EventTrail
  PassSettlesRules
PROPERTIES
  Implements
