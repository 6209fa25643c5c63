SPECIFICATION CommandsSpec
CONSTANTS
  None = None
  A = A
  B = B
  x = x
  hot = hot
  Hot = Hot
  cold = cold
  said = said
  saidEscaped = saidEscaped
  noted = noted
  goalA = goalA
  goalB = goalB
  GOALA = GOALA
  goalC = goalC
  vague = vague
  C = C
  garbled = garbled
  Garbled = garbled
  Begins <- MCBegins
  Escaped <- MCEscaped
  Noted = {noted}
  Cwd = "here"
  Above <- MCAbove
  Placed <- MCPlaced
  Pipelines = {"pipe"}
  MaxCommands = 2
  MaxLost = 1
  Entities <- MCEntities
  Attributes <- MCAttributes
  Words <- MCWords
  Values <- MCValues
  Exprs <- MCExprs
  Fold <- MCFold
  Inside <- MCInside
  Sources <- MCSources
  Replies <- MCReplies
  Commands <- MCCommands
  Mentions <- MCMentions
  Vague <- MCVague
  Mute <- MCMute
INVARIANTS
  ExitTruth
  AuditTells
  CasesAsMeant
PROPERTIES
  
  SeedReaches
CHECK_DEADLOCK FALSE
