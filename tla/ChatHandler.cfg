CONSTANTS
    Requests = {r1, r2}
    None = None
SPECIFICATION Spec
INVARIANTS
    OnlyAcceptedDraftsCached
    ReplyIsWhatItSays
    HeavyErrorSurfaces
    CallReleased
    HeavyCalledOnce
    ModeIsAsked
    CountersAgree
PROPERTIES
    EveryRequestEnds
CHECK_DEADLOCK FALSE
