CONSTANTS
  Absent = Absent
  i1 = i1
  i2 = i2
  home = home
  other = other
  local = local
  Origins <- MCOrigins
  Literals <- MCLiterals
  Statuses = {200, 404, 502}
  MaxRedirects = 2
  MaxBytes = 1
  Providers = {"openai", "gemini", "anthropic"}
  Blocks <- MCBlocks
  Arguments <- MCArguments
  Expressions <- MCExpressions
  Tools <- MCTools
  Values <- MCValues
  Schemas <- MCSchemas
  Depth <- MCDepth
  Inherited = {"constructor"}
  MaxDepth = 2
  MaxInput = 8
  MaxRunTurns = 3
SPECIFICATION WireSpec
INVARIANTS ResultsArePaired ToolsGetWhatTheyDeclare EvaluatesAsRead FetchKeepsItsScope
PROPERTY EveryRunEnds
CHECK_DEADLOCK FALSE
