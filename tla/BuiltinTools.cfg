SPECIFICATION ToolboxSpec
CHECK_DEADLOCK FALSE
CONSTANTS
  Workflows <- MCWorkflows
  Runtimes = {"python", "lua"}
  Docs = 2
  MaxTurns = 2
  MaxHits = 2
  MaxNow = 1
  MaxPrints = 3
INVARIANTS AnswersInTime CodeIsReal TriggersReach
PROPERTIES RunsLatest
