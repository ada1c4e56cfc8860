SPECIFICATION FairSpec
CONSTANTS
    main = main
    second = second
    thread = thread
    signal = signal
    file = file
    air = air
    Runners = {main}
    MainThread = main
    Stoppers = {thread}
    Handlers = {}
    Agents <- ThreadAgents
    NoAgent = NoAgent
    Sources = {air}
    NoSource = NoSource
    LiveSources = {air}
    RenumberingSources = {}
    MaxPackets = 1
    CloseMayRaise = FALSE
PROPERTIES
    StopTerminates
