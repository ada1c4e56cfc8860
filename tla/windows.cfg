SPECIFICATION Spec
CONSTANTS
    twin = twin
    beaconA = beaconA
    beaconB = beaconB
    probe = probe
    NoIdentity = NoIdentity
    Windows <- MCWindows
    Identities = {twin}
    Contents <- MCContents
    CounterKeys <- MCCounterKeys
    Subtypes <- MCSubtypes
    CountedUnder <- MCCountedUnder
    Transmitters <- MCTransmitters
    TransmitterOf <- MCTransmitterOf
    Frames <- MCFrames
    MaxTime = 5
    MaxFrames = 4
INVARIANTS
    TypeOK
    CountsWindow
    CountersMatchGroups
    SeenTimesExact
    RetryKnown
