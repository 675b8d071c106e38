CONSTANTS
    a = a  b = b  c = c  ma = ma  mc = mc
    Keys = {a, b, c}
    ModuleOf <- MCModuleOf
    DepSets <- MCDepSets
    Existing = {a, b}
    Delay = 1
    CleanAfter = 1
    MayFail = TRUE
    NoKey = NoKey  NoEntry = NoEntry
    MaxPushes = 2
SPECIFICATION FairSpec
INVARIANTS GraphConsistent NoSilentLoss DependentsFollow
CHECK_DEADLOCK FALSE
PROPERTY QueuedIsCompiled
