CONSTANTS
    Sessions = {1}
    MaxInputs = 6
    MaxFaults = 2
SPECIFICATION Spec
INVARIANTS
    ClearIsLast
    OneInteraction
    TranscriptsStay
PROPERTIES
    ListedStays
    SelectionArrives
CHECK_DEADLOCK FALSE
