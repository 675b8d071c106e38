CONSTANTS
    e1 = e1  e2 = e2  e3 = e3
    Emitters = {e1, e2, e3}
    Statuses = {200, 403}
    MaxSize = 1
    MaxFiles = 1
    DefaultLimit = 2
    Nothing = Nothing
    MaxSec = 2
    MaxIO = 1
    Funcs = {"audit", "health"}
SPECIFICATION Spec
INVARIANTS LogRetained AbortNeedsOrphan
PROPERTIES ShutdownEnds
CHECK_DEADLOCK FALSE
