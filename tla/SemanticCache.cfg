CONSTANTS
    Ops = {o1, o2}
    Ids = {i1, i2}
    Prompts <- MCPrompts
    Score <- MCScore
    SimThreshold = 95
    None = None
    MaxBacklog = 2
    p = p
    close = close
    far = far
SYMMETRY MCSymmetry
SPECIFICATION Spec
INVARIANTS
    HitIsSimilar
    CleanupFindsNoEntry
    StoredStaysServable
PROPERTIES
    NoHitAfterEvict
