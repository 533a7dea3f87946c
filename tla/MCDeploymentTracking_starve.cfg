SPECIFICATION FairSpec
CONSTANTS
    a1 = a1
    a2 = a2
    e1 = e1
    e2 = e2
    p1 = p1
    p2 = p2
    Order <- TwoAttempts
    Events <- OneEvent
    Processes <- OneProcess
    W = 1
    Outage = TRUE
    MaxFaults = 0
    MaxRestarts = 0
PROPERTIES
    NoneStarves
CHECK_DEADLOCK FALSE
