SPECIFICATION FairSpec
CONSTANTS
  c1 = c1
  c2 = c2
  None = None
  Callers <- MCCallers
  Calls = 2
  Ask <- MCAsk
  Catalogue <- MCCatalogue
  Overlap <- MCOverlap
  Keywords <- MCKeywords
  AutoDiscover = TRUE
CHECK_DEADLOCK FALSE
INVARIANTS
  InOrderOnce
PROPERTIES
  ExecuteReturns
