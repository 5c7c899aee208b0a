SPECIFICATION Spec
CONSTANTS
    t1 = t1
    t2 = t2
    t3 = t3
    Threads = {t1, t2, t3}
    NoThread = NoThread
    LockWait = 10
    CommandTime = 1
INVARIANT FailedPollNotConnected
