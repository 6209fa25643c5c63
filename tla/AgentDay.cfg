SPECIFICATION Spec
CONSTANTS
  None = None
  Commands = {"play", "find"}
  Plans <- MCPlans
  About <- MCAbout
  Synthesis = "think"
  Discovered = {}
  Scripts <- MCScripts
  Pages <- MCPages
  PlanRetries = 1
  StepRetries = 1
  LLMFallback = TRUE
  MaxIterations = 3
  Modes = {"file", "signal", "repl", "one_shot"}
  Senders = {"friend", "stranger"}
  Allowed = {"friend"}
  Pattern <- MCPattern
  Mission = {"play"}
  Prior <- MCPrior
  Ticking = FALSE
  MaxCycles = 0
  MaxRecent = 1
  Scanned = 1
  MaxSeen = 1
  MaxSends = 2
  MaxStarts = 2
  MaxFaults = 1
INVARIANTS RetrySeesAll CyclesIncrease AnswersOnce
PROPERTY Noticed
CHECK_DEADLOCK FALSE
