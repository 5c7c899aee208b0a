SPECIFICATION FairSpec
CONSTANTS
    w1 = w1
    w2 = w2
    NoAddress = NoAddress
    N = 5
    Workers = {w1, w2}
    ProbeTime = 2
    ScanTimeout = 4
    MaxRaising = 1
CHECK_DEADLOCK FALSE
INVARIANT TypeOK
INVARIANT LowEndCovered
PROPERTY NoLateProbe
PROPERTY EveryScanEnds
