CONSTANTS
    p1 = p1
    p2 = p2
    k1 = k1
    k2 = k2
    Procs = {p1, p2}
    Keys = {k1, k2}
    Files = {"sessions", "thoughts", "groups"}
    MaxSaves = 3
    MaxFaults = 1
SPECIFICATION Spec
INVARIANTS
    CacheHasPersisted
    MergesKept
    SettledSurvives
SYMMETRY StoreSymmetry
CHECK_DEADLOCK FALSE
