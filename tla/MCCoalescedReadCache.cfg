SPECIFICATION Spec
CONSTANTS
    None = None
    t1 = t1
    t2 = t2
    t3 = t3
    k1 = k1
    f1 = f1
    f2 = f2
    f3 = f3
    Threads <- MCThreads
    Keys <- MCKeys
    Flights <- MCFlights
    MaxVersion = 1
    MaxGeneration = 2
SYMMETRY ThreadSymmetry
INVARIANTS
    TypeOK
    SingleFlight
    NobodyForgotten
PROPERTIES
    KeepsPromise
