SPECIFICATION Spec
CONSTANTS
    MaxRuns = 1
    MaxSignals = 1
    MaxTimeouts = 0
    MaxTroubles = 1
    Services = {1}
    Hoppers = {1}
    NoHopper = 0
INVARIANTS
    StopHeeded
CHECK_DEADLOCK FALSE
