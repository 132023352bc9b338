SPECIFICATION Spec
CONSTANTS
    NumPrompts = 3
    Exact <- MCExact
    Concurrency = 2
    Retries = 1
    MaxRuns = 2
    MaxTears = 1
    Torn = Torn
INVARIANTS
    NoDuplicateRecords
    LossIsBounded
    InterruptLeavesNoTrace
    UndisturbedRunCollectsAll
PROPERTY
    EveryRunEnds
CHECK_DEADLOCK FALSE
