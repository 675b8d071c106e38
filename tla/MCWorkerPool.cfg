CONSTANTS
    w1 = w1  w2 = w2  t1 = t1  t2 = t2  t3 = t3
    Workers = {w1, w2}
    Tasks = {t1, t2, t3}
    QueueCap = 1
    ErrCap = 2
SPECIFICATION FairSpec
INVARIANTS ShutdownDrains AcceptedNotLost BatchComplete
PROPERTY BatchReturns
