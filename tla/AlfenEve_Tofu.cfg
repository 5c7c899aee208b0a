SPECIFICATION FairSpec
CONSTANTS
    poller = poller
    optimizer = optimizer
    NoThread = NoThread
    NoAmps = NoAmps
    Pollers = {poller}
    Optimizers = {optimizer}
    Amps = {6, 16}
    MaxLate = 1
    DiskFaults = TRUE
    FileDamage = FALSE
    CertPaths = {FALSE}
PROPERTY TofuRetried
