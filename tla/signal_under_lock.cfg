SPECIFICATION Spec
CONSTANTS
    main = main
    second = second
    thread = thread
    signal = signal
    file = file
    air = air
    Runners = {main}
    MainThread = main
    Stoppers = {}
    Handlers = {signal}
    Agents <- SignalAgents
    NoAgent = NoAgent
    Sources = {air}
    NoSource = NoSource
    LiveSources = {air}
    RenumberingSources = {}
    MaxPackets = 1
    CloseMayRaise = FALSE
INVARIANTS
    NoSelfDeadlock
CHECK_DEADLOCK FALSE
