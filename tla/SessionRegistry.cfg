CONSTANTS
    Names = {"a"}
    w1 = w1
    w2 = w2
    Workers = {w1, w2}
    Boots = {"server", "embedded"}
    MaxId = 2
    MaxMade = 2
    MaxRequests = 2
    MaxFaults = 1
SYMMETRY WorkerSymmetry
SPECIFICATION Spec
INVARIANTS
    OneActorPerTmux
    AuthorityIsDurable
    CleanedMeansGone
    CleaningHasOwner
    IdentitySurvivesRestart
PROPERTIES
    KillIsExact
    OnlyExitedGoMissing
CHECK_DEADLOCK FALSE
