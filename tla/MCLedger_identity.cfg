SPECIFICATION Spec
CONSTANTS
  a1 = a1
  a2 = a2
  n1 = n1
  n2 = n2
  k1 = k1
  x1 = x1
  NULL = NULL
  AgentId = {a1, a2, f1, f2, f3}
  Name = {n1, n2, n3, n4}
  IdemKey = {k1}
  Content = {x1}
  Source = {"hub"}
  IdCall = {i1, i2, i3}
  AttCall = {}
  Seed <- MCLegacySeed
  MaxTries = 2
  IdRequest <- MCIdentityRequests
  AttRequest <- MCNoRequests
SYMMETRY Symmetry
INVARIANTS NameResolves RevokeOkIsDurable KillSwitchInherited LineageIsForest
PROPERTY HistoryKept
CHECK_DEADLOCK FALSE
