CONSTANTS
    b1 = b1
    e1 = e1
    e2 = e2
    p1 = p1
    p2 = p2
    NULL = NULL
    Browsers = {b1, b2}
    Guests = {"g1", "g2"}
    SignIns = {s1, s2, s3}
    Asked <- MCAsked
    Window = 2
    MaxRequests = 2
    SweepThreshold = 2
    CookieLife = 2
    Bounds <- MCBounds
SPECIFICATION Spec
SYMMETRY Symmetry
INVARIANTS
    OneAccountPerPerson
    DenialsHaveCause
    LimitIsExact
CHECK_DEADLOCK FALSE
