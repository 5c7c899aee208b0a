SPECIFICATION FairSpec
CONSTANTS
    Ports <- TwoPorts
    Rates <- TwoRates
    LastAddress = 2
    NoRate = 0
    MaxLate = 1
    PollPort = "ttyUSB0"
    PollAddress = 2
    PollRate = 9600
    Reads <- TwoReads
INVARIANT TypeOK
INVARIANT ScanIsRight
INVARIANT LateRepliesHarmless
INVARIANT NoHandleLeft
INVARIANT AnswersAreOwn

PROPERTY ScanEnds
PROPERTY PollsRecover
