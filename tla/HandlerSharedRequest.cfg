CONSTANTS
    Requests = {r1}
    None = None
SPECIFICATION Spec
INVARIANTS
    FallbackHonoursRequest
CHECK_DEADLOCK FALSE
