CONSTANTS
    m1 = m1  v1 = v1  v2 = v2  f1 = f1  f2 = f2  c1 = c1  c2 = c2  go = go
    Modules = {m1}
    Versions = {v1, v2}
    Paths = {f1, f2}
    Bodies <- MCBodies
    Languages = {go}
    Clients = {c1, c2}
    Sprocket = sprocket
    Absent = Absent  Empty = Empty  Mixed = Mixed  None = None
    MaxRequests = 2
    MaxCrashes = 1

SPECIFICATION Spec

PROPERTY AckedVersionFinal
CHECK_DEADLOCK FALSE
