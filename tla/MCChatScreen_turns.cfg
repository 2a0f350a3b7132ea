SPECIFICATION FairSpec
CONSTANTS
  short = short
  long = long
  full = full
  essay = essay
  blank = blank
  NULL = NULL
  Content <- MCContent
  SizeOf <- MCSizeOf
  Text = {short, long}
  Output = {full, essay, blank}
  Tool = {"lookup"}
  TurnCap = 3
  CharBudget = 4
  MaxTurn = 2
  MaxTask = 2
  MaxOutput = 4
  MaxCalls = 2
  MaxTurns = 3
INVARIANTS TypeOK ContextWithinBounds RepliesAttestTheirMessage
PROPERTIES EvidenceIsWork EveryTurnEnds
CHECK_DEADLOCK FALSE
