CONSTANTS
    Size = 2
    Threshold = 2
    EarlyExitCount = 1
    DraftChunks <- MCDraftChunks
    Err = Err
    Capacity = 1
    MaxChunks = 4
SPECIFICATION Spec
INVARIANTS
    DecisionIsRule
PROPERTIES
    DisconnectIsNoticed
    RouteReturns
    DrafterGoroutineEnds
CHECK_DEADLOCK FALSE
