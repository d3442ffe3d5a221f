SPECIFICATION Spec
CONSTANTS
    Actor = actor
    Callers = {actor, p1}
    Probes = {p1}
    Writes = {w1}
    Submits = {s1}
    Acked = {w1, s1}
    Chunks = 2
    MaxHangs = 1
    MaxMultiplier = 2
    NoRequest = NoRequest
INVARIANTS
    OnlyUnconfirmedRepeats
    AnswerIsTrue
PROPERTIES
    EveryRequestIsAnswered
    DeliveredArrives
    BreakerRecovers
CHECK_DEADLOCK FALSE
