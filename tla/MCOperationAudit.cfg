SPECIFICATION FairSpec
CONSTANTS
    None = None
    Reader = Reader
    c1 = c1
    c2 = c2
    o1 = o1
    o2 = o2
    Calls <- MCCalls
    Operations <- MCOperations
    Limit = 1
    StaleLimit = 1
    MaxFaults = 1
INVARIANTS
    TypeOK
    NothingSkipped
PROPERTIES
    KeepsTrail
    EventuallyTold
CHECK_DEADLOCK FALSE
