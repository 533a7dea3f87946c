SPECIFICATION Spec
CONSTANTS
    None = None
    q1 = q1
    q2 = q2
    c1 = c1
    c2 = c2
    v1 = v1
    v2 = v2
    Requests <- OneRequest
    Components <- OneComponent
    Versions <- MCVersions
    Initial = v1
    Targets <- V2
    Kinds <- UpgradeRestore
    DiskVersions <- V2
    FenceSupported = FALSE
    MaxRecords = 2
    MaxBatches = 1
    MaxFaults = 1
    MaxCrashes = 0
INVARIANTS
    RolledBackOnFailure
CHECK_DEADLOCK FALSE
