CONSTANTS
    Size = 2
    Threshold = 2
    EarlyExitCount = 1
    SoftThreshold = 1
    DraftChunks <- MCDraftChunks
    HeavyChunks = {hv}
    Err = Err
    Capacity = 1
    MaxChunks = 3
SPECIFICATION Spec
INVARIANTS
    CallIsOwned
    HandedCallIsLive
    AcceptedDraftIsJudged
PROPERTIES
    KeepsContract
    DecidesAsRouter
    NoGoroutineLeft
CHECK_DEADLOCK FALSE
