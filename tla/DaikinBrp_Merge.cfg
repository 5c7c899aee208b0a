SPECIFICATION Spec
CONSTANTS
    ui = ui
    poller = poller
    NoCache = NoCache
    NoJob = NoJob
    Pollers = {poller}
    Controllers = {ui}
    Modes = {"cool", "heat"}
    Temperatures = {85}
    Speeds = {"3"}
    RemoteStates <- NoRemote
    Delays = FALSE
    InitialUnits <- FoundCooling
PROPERTY MergeKeepsMode
