CONSTANTS
    a1 = a1
    a2 = a2
    NaN = NaN
    NULL = NULL
    Agents = {a1, a2}
    Users = {"owner", "stranger"}
    Sources = {"native", "web"}
    Rows <- MCRows
    Ledgers <- MCLedgers
    Weights <- MCWeights
    PageSize = 2
    Cap = 3
    Owner = "owner"
    MaxChanges = 2
SPECIFICATION Spec
INVARIANTS
    ScoreIsExact
    LimitIsHonest
    RevokedVerifiesNothing
    PrivateStaysHidden
CHECK_DEADLOCK FALSE
