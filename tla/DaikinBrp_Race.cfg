SPECIFICATION FairSpec
CONSTANTS
    ui = ui
    poller = poller
    api = api
    NoCache = NoCache
    NoJob = NoJob
    Pollers = {poller}
    Controllers = {ui, api}
    Modes = {"cool"}
    Temperatures = {}
    Speeds = {}
    RemoteStates <- SwitchedOff
    Delays = TRUE
    InitialUnits <- SwitchedOff
INVARIANT PollFailureShows
PROPERTY SelfHealing
