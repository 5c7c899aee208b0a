SPECIFICATION FairSpec
CONSTANTS
    t1 = t1
    t2 = t2
    Threads = {t1, t2}
    NoThread = NoThread
    LockWait = 4
    CommandTime = 1
INVARIANT TypeOK
INVARIANT OneOwner
INVARIANT CallBounded
INVARIANT ErrorMeansNoPort
PROPERTY EveryCallReturns
PROPERTY Recovery
