SPECIFICATION Spec
CONSTANTS
    None = None
    Retirer = Retirer
    i1 = i1
    u1 = u1
    u2 = u2
    x1 = x1
    y1 = y1
    a1 = a1
    r1 = r1
    s1 = s1
    s2 = s2
    Installers <- OneInstaller
    Upgraders <- TwoUpgraders
    Restorers <- OneRestorer
    Syncers <- OneSyncer
    Apps <- OneApp
    Records <- OneRecord
    Versions <- TwoVersions
    Stores <- TwoStores
    MaxRequests = 2
    MaxFaults = 1
SYMMETRY Symmetry
INVARIANTS
    TypeOK
    LeasesSpanCommit
    NoLeaseForgotten
    AnswerExplained
    NoUseOverlooked
PROPERTIES
    KeepsFence
CHECK_DEADLOCK FALSE
