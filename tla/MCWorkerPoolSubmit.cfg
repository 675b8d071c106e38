CONSTANTS
    w1 = w1  w2 = w2  t1 = t1  t2 = t2  t3 = t3
    Workers = {w1}
    Tasks = {t1, t2}
    QueueCap = 2
    ErrCap = 10
SPECIFICATION Spec
INVARIANT SubmitNilMeansAccepted
