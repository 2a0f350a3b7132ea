CONSTANTS
    NULL = NULL
    Agents = {a1}
    Guest = "guest"
    Account = "account"
    MaxChanges = 3
    MaxSteps = 3
SPECIFICATION Spec
INVARIANTS
    SettledIsCurrent
    CreatedIsListed
CHECK_DEADLOCK FALSE
