SPECIFICATION Spec
CONSTANTS
    main = main
    second = second
    thread = thread
    signal = signal
    file = file
    air = air
    Runners = {main}
    MainThread = main
    Stoppers = {}
    Handlers = {signal}
    Agents <- SignalAgents
    NoAgent = NoAgent
    Sources <- Mixed
    NoSource = NoSource
    LiveSources = {air}
    RenumberingSources = {file}
    MaxPackets = 2
    CloseMayRaise = TRUE
INVARIANTS
    Accounting
    NoRedelivery
    StateTracksSession
CHECK_DEADLOCK FALSE
