CONSTANTS
    Sessions = {s1, s2}
    QueueCap = 1
    MaxThoughts = 3
    MaxWriteErrors = 1
SPECIFICATION Spec
INVARIANTS
    NothingLost
    FlushMeansSaved
PROPERTIES
    ThoughtsAreSaved
    FlushReturns
CHECK_DEADLOCK FALSE
