CONSTANTS
    a1 = a1
    a2 = a2
    Agents = {a1, a2}
    Texts = {"text"}
    NULL = NULL
    Boots = {b1, b2}
    Legacy <- MCLegacy
    Replies <- MCReplies
    MaxReplies = 2
    MaxRetries = 2
SPECIFICATION Spec
INVARIANTS
    BootedIsComplete
    RacesRunOut
    LinksMatch
CHECK_DEADLOCK FALSE
