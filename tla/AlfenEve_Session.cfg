SPECIFICATION FairSpec
CONSTANTS
    poller = poller
    optimizer = optimizer
    NoThread = NoThread
    NoAmps = NoAmps
    Pollers = {poller}
    Optimizers = {optimizer}
    Amps = {6, 16}
    MaxLate = 1
    DiskFaults = TRUE
    FileDamage = TRUE
    CertPaths = {FALSE, TRUE}
INVARIANT TypeOK
INVARIANT OneOwner
INVARIANT LimitIsAcknowledged
INVARIANT PollFailureShows
INVARIANT RequestsBounded
INVARIANT RaisesOnlyOverCertificate
PROPERTY EveryCallReturns
PROPERTY Recovery
