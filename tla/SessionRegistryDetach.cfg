CONSTANTS
    Names = {"a"}
    Workers = {"w1"}
    Boots = {}
    MaxId = 2
    MaxMade = 2
    MaxRequests = 1
    MaxFaults = 0
SPECIFICATION Spec
PROPERTIES
    ReplacementIsSafe
CHECK_DEADLOCK FALSE
