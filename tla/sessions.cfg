SPECIFICATION Spec
CONSTANTS
    main = main
    second = second
    thread = thread
    signal = signal
    file = file
    air = air
    Runners <- TwoRunners
    MainThread = main
    Stoppers = {thread}
    Handlers = {}
    Agents <- TwoRunnersAgents
    NoAgent = NoAgent
    Sources <- Mixed
    NoSource = NoSource
    LiveSources = {air}
    RenumberingSources = {file}
    MaxPackets = 1
    CloseMayRaise = FALSE
INVARIANTS
    TypeOK
    OneSession
    StateTracksSession
    AcceptedStopSticks
    NoCaptureLeak
    StopBounded
PROPERTIES
    ImplementsContract
