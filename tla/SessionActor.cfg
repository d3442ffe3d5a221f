CONSTANTS
    ErrorLinger = 1
    OutputIdle = 1
    AttentionDelay = 1
    tool = tool
    Commands = {tool}
    ToolCommands = {tool}
    NoCmd = NoCmd
    Reads <- MCReads
    Coalesce = 1
    InputGrace = 1
    LivenessEvery = 1
    MaxBuffered = 2
    PtyBound = 1
    MaxReads = 3
SPECIFICATION Spec
INVARIANTS
    OutputInOrder
    DetectorStaysCoupled
PROPERTIES
    IsAPipe
    ReadsAreEmitted
CHECK_DEADLOCK FALSE
