SPECIFICATION PolledSpec
CONSTANTS
    None = None
    q1 = q1
    q2 = q2
    c1 = c1
    c2 = c2
    v1 = v1
    v2 = v2
    Requests <- TwoRequests
    Components <- TwoComponents
    Versions <- MCVersions
    Initial = v1
    Targets <- V2
    Kinds <- NoRetry
    DiskVersions <- NoVersions
    FenceSupported = FALSE
    MaxRecords = 1
    MaxBatches = 1
    MaxFaults = 0
    MaxCrashes = 1
INVARIANTS
    BatchesWhole
PROPERTIES
    EventuallyFinished
CHECK_DEADLOCK FALSE
