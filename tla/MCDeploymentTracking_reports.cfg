SPECIFICATION FairSpec
CONSTANTS
    a1 = a1
    a2 = a2
    e1 = e1
    e2 = e2
    p1 = p1
    p2 = p2
    Order <- OneAttempt
    Events <- TwoEvents
    Processes <- TwoProcesses
    W = 1
    Outage = FALSE
    MaxFaults = 1
    MaxRestarts = 1
INVARIANTS
    TypeOK
    HonestReports
    OneResult
    NothingDropped
PROPERTIES
    RowsMoveOn
    KeepsReports
    EventuallyReported
CHECK_DEADLOCK FALSE
