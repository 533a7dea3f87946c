SPECIFICATION FairSpec
CONSTANTS
    None = None
    NoEvent = NoEvent
    c1 = c1
    c2 = c2
    p1 = p1
    p2 = p2
    w1 = w1
    w2 = w2
    Components <- MCComponents
    Requests <- MCRequests
    Workers <- MCWorkers
    Kinds <- MCKinds
    MaxEvents = 2
    MaxFaults = 1
INVARIANTS
    TypeOK
    CoveredOnce
    CoveredEarned
PROPERTIES
    KeepsRow
    ClaimKept
    GateReopens
CHECK_DEADLOCK FALSE
