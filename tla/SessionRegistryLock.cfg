CONSTANTS
    Names = {"a"}
    Workers = {"w1"}
    Boots = {}
    MaxId = 2
    MaxMade = 1
    MaxRequests = 1
    MaxFaults = 0
SPECIFICATION Spec
PROPERTIES
    DiscoveryEnds
CHECK_DEADLOCK FALSE
