CONSTANTS
    Browsers = {b1, b2}
    Ids = {i1, i2}
    NoId = NoId
    Capacity = 3
    Sizes = {1, 2, 4}
    ChanBound = 1
    MaxSubs = 1
    MaxFrames = 3
    MaxRestarts = 1
SPECIFICATION Spec
INVARIANTS
    StreamIsWhole
PROPERTIES
    NeverBackNeverSkip
    CatchesUp
CHECK_DEADLOCK FALSE
