SPECIFICATION Spec
CONSTANTS
    t1 = t1
    t2 = t2
    Threads = {t1, t2}
    NoThread = NoThread
    LockWait = 10
    CommandTime = 1
INVARIANT FailedPollNotConnected
INVARIANT NoReset
