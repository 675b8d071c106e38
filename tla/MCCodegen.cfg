CONSTANTS
    l1 = l1  l2 = l2  w1 = w1  w2 = w2  c1 = c1  p1 = p1  p2 = p2  k1 = k1
    Langs = {l1, l2}
    Workers = {w1, w2}
    Contents = {c1}
    NoSpec = NoSpec
    MaxCalls = 2
    MaxFaults = 2
    MaxEdits = 1
    Loaders = {p1, p2}
    Dirs = {"good", "buf"}
    Manifests <- MCManifests
    NoEntry = NoEntry
    MaxAge = 0
    MaxDay = 1
    MaxBreaks = 1
    Keys = {k1, k2, k3}
    DepLists <- MCDepLists
    Unreadable = Unreadable
    NoKey = NoKey
    MaxPushes = 1
SPECIFICATION Spec
INVARIANTS    GraphFaithful WalksExact
SYMMETRY Symmetry
CHECK_DEADLOCK FALSE
