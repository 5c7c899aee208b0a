SPECIFICATION Spec
CONSTANTS
    daikin = daikin
    homewizard = homewizard
    external = external
    a = a
    NoDriver = NoDriver
    NoCache = NoCache
    Unknown = Unknown
    Drivers = {daikin, homewizard, external}
    Hosts = {a}
    SweepTime = 2
    TTL = 3
    MaxResets = 1
INVARIANT TypeOK
INVARIANT OneSweep
INVARIANT WaitBounded
PROPERTY NeverStale
