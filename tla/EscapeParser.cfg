SPECIFICATION ParserSpec
CONSTANTS
    Tokens <- MCTokens
    Unfinished <- MCUnfinished
    MaxTokens = 5
    Limit = 4
INVARIANTS
    CutsAreInvisible
    RecoversAfterLimit
CHECK_DEADLOCK FALSE
