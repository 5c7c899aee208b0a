SPECIFICATION Spec
CONSTANTS
    ui = ui
    poller = poller
    NoCache = NoCache
    NoJob = NoJob
    Pollers = {ui}
    Controllers = {ui}
    Modes = {"off", "cool", "fan", "dry", "auto", "heat"}
    Temperatures <- TestTemperatures
    Speeds = {"auto", "3"}
    RemoteStates <- NoRemote
    Delays = FALSE
    InitialUnits <- FoundAny
INVARIANT TypeOK
INVARIANT CacheCoherent
PROPERTY ImplementsContract
