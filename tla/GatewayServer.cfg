CONSTANTS
    ConfigFiles <- MCConfigFiles
    Requests = {r1, r2}
    None = None
SPECIFICATION Spec
INVARIANTS
    ListensWithSoundConfig
    CutOnlyForCause
    LogTellsWhatWasSent
PROPERTIES
    SignalEnds
CHECK_DEADLOCK FALSE
