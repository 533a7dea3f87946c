SPECIFICATION Spec
CONSTANTS
    None = None
    Retirer = Retirer
    i1 = i1
    u1 = u1
    u2 = u2
    x1 = x1
    y1 = y1
    a1 = a1
    r1 = r1
    s1 = s1
    s2 = s2
    Installers <- NoRequest
    Upgraders <- OneUpgrader
    Restorers <- NoRequest
    Syncers <- OneSyncer
    Apps <- OneApp
    Records <- OneRecord
    Versions <- ThreeVersions
    Stores <- OneStore
    MaxRequests = 1
    MaxFaults = 0
INVARIANTS
    BoundVersionsExist
CHECK_DEADLOCK FALSE
