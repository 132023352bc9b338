CONSTANTS
    Size = 2
    Threshold = 2
    EarlyExitCount = 1
    SoftThreshold = 1
    DraftChunks <- MCFewDraftChunks
    HeavyChunks = {hv}
    Err = Err
    Capacity = 1
    MaxChunks = 2
SPECIFICATION Spec
INVARIANT
    AcceptedDraftIsWhole
CHECK_DEADLOCK FALSE
