SPECIFICATION Spec
CONSTANTS
  c1 = c1
  c2 = c2
  Callers <- MCCallers
  Requests = 1
  MaxRetries = 2
  MaxParse = 2
  RetryOn = {"provider", "auth"}
  Errors = {"provider", "auth"}
  Answers <- MCAnswers
  BaseDelay = 1
  MaxDelay = 3
  MaxCalls = 1
  MaxTokens = 2
  Configs <- MCConfigs
  None = None
CHECK_DEADLOCK FALSE
INVARIANTS
  Story
  BudgetHolds
