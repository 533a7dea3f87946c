SPECIFICATION Spec
CONSTANTS
    None = None
    q1 = q1
    q2 = q2
    c1 = c1
    c2 = c2
    v1 = v1
    v2 = v2
    Requests <- TwoRequests
    Components <- OneComponent
    Versions <- MCVersions
    Initial = v1
    Targets <- V2
    Kinds <- UpgradePoll
    DiskVersions <- NoVersions
    FenceSupported = FALSE
    MaxRecords = 1
    MaxBatches = 2
    MaxFaults = 0
    MaxCrashes = 1
SYMMETRY Symmetry
INVARIANTS
    RowsNotLost
    VerdictEarned
    RowTruth
CHECK_DEADLOCK FALSE
