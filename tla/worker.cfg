SPECIFICATION FairSpec
CONSTANTS
    MaxRuns = 2
    MaxSignals = 1
    MaxTimeouts = 1
    MaxTroubles = 1
    Services = {1, 2}
    Hoppers = {1, 2}
    NoHopper = 0
INVARIANTS
    TypeOK
    LastRecordFinal
    ThreadsEnd
    HopperStopReported
PROPERTIES
    HopperFailureEnds
    HopperFailureCloses
CHECK_DEADLOCK FALSE
