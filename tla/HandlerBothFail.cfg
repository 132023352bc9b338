CONSTANTS
    Requests = {r1}
    None = None
SPECIFICATION Spec
INVARIANTS
    BothFailedIsAnError
CHECK_DEADLOCK FALSE
