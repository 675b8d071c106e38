CONSTANTS
    h1 = h1  r1 = r1  r2 = r2  t1 = t1  t2 = t2
    Hooks = {h1}
    Types = {t1, t2}
    Requests = {r1, r2}
    EventType <- MCEventType
    MaxLogs = 1
    MaxAttempts = 2
    MaxTokens = 1
    MaxAdmin = 2
    MaxTicks = 1
SPECIFICATION FairSpec
INVARIANTS AttemptsAccounted
PROPERTIES ImplementsPromise DeliveryEnds
CHECK_DEADLOCK FALSE
