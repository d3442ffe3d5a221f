CONSTANTS
    ErrorLinger = 2
    OutputIdle = 3
    AttentionDelay = 4
    Commands = {c1, c2}
    NoCmd = NoCmd
SPECIFICATION CallSpec
INVARIANT
    StatesAreTimed
PROPERTIES
    DeadlinesAreEarned
    SettlesInTheEnd
