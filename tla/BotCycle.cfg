SPECIFICATION Spec
CHECK_DEADLOCK FALSE
CONSTANTS
  c1 = c1
  c2 = c2
  Clients <- MCClients
  Files <- MCFiles
  RlGoals <- MCRlGoals
  Limits <- MCLimits
  MaxRetries = 1
  Says = {"proceed", "defer"}
  Ttl = 1
  HardTimeout = 1
INVARIANTS HearsAll EffectsDecided SignalFresh Accounts
