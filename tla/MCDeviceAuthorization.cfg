SPECIFICATION Spec
CONSTANTS
    None = None
    p1 = p1
    p2 = p2
    b1 = b1
    b2 = b2
    u1 = u1
    u2 = u2
    Polls <- MCPolls
    Browsers <- MCBrowsers
    Users <- MCUsers
    Lifetime = 2
    Interval = 1
    Increment = 1
    FailureLimit = 1
    MaxClock = 2
    MaxInterval = 2
SYMMETRY RequestSymmetry
INVARIANTS
    TypeOK
    FinalIsFinal
PROPERTIES
    KeepsGrant
