CONSTANTS
    m1 = m1  v1 = v1  f1 = f1  f2 = f2  x = x  y = y  p1 = p1  p2 = p2
    r1 = r1  r2 = r2  primary = primary
    Procs = {p1, p2}
    Replicas = {r1, r2}
    Primary = primary
    NoConn = NoConn
    CounterMod = 3
    Modules = {m1}
    Versions = {v1}
    Paths = {f1, f2}
    Contents = {x, y}
    Bodies <- MCBodies
    None = None
    MaxRequests = 3
    MaxFaults = 1
SYMMETRY Symm
SPECIFICATION Spec
INVARIANTS ObjectsBeforeRows ReadYourWrites PanicNeedsRemoval
PROPERTY ImplementsCatalog
CHECK_DEADLOCK FALSE
