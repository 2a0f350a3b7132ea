SPECIFICATION Spec
CONSTANTS
  p1 = p1
  g1 = g1
  u1 = u1
  NULL = NULL
  Agent = {p1, p2}
  Guest = {g1, g2}
  Account = {u1}
  Request = {r1, r2, r3, r4}
  Window = 2
  MaxTime = 2
  WebRequest <- MCWebRequests
SYMMETRY Symmetry
INVARIANTS TenantIsolation RepliesAttested KeyHasOneHolder CreatedAgentsUsable
CHECK_DEADLOCK FALSE
