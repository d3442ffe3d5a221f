CONSTANTS
    Sessions = {s1}
    PruneAfter = 2
    MaxSeq = 2
    MaxFaults = 3
SPECIFICATION Spec
INVARIANT
    OneDaemon
PROPERTIES
    OnlyAnswersSucceed
    StreamedThoughtsNeverGoBack
    BridgeRecovers
