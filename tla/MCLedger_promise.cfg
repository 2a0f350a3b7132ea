SPECIFICATION FairSpec
CONSTANTS
  a1 = a1
  a2 = a2
  n1 = n1
  n2 = n2
  k1 = k1
  x1 = x1
  NULL = NULL
  AgentId = {a1, a2, f1, f2}
  Name = {n1, n2, n3}
  IdemKey = {k1}
  Content = {x1}
  Source = {"hub"}
  IdCall = {i1, i2}
  AttCall = {c1}
  Seed <- MCSeed
  MaxTries = 1
  IdRequest <- MCRevokeRequests
  AttRequest <- MCAttestRequests
INVARIANT TypeOK
PROPERTIES PromiseKept EveryCallReturns
CHECK_DEADLOCK FALSE
