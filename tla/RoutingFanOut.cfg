SPECIFICATION Spec
CONSTANTS
  s1 = s1
  s2 = s2
  g1 = g1
  g2 = g2
  t1 = t1
  t2 = t2
  None = None
  Stages <- MCStages
  Tools <- MCTools
  Program <- MCProgram
  Match <- MCMatch
  HintTables <- MCHintTables
  Outcomes <- MCOutcomes
  Uth = 350
  MaxRuns = 2
CHECK_DEADLOCK FALSE
INVARIANTS
  SessionIsOwn
  MemoryAccounts
