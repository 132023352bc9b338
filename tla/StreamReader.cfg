CONSTANTS
    Chunks = {c1, c2}
    Err = Err
    Capacity = 2
    MaxChunks = 5
SPECIFICATION Spec
INVARIANTS
    NoGapInDelivery
    NothingFollowsAnError
PROPERTIES
    GoroutinesEnd
    ReaderReturns
CHECK_DEADLOCK FALSE
