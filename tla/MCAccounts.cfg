CONSTANTS
    p1 = p1  p2 = p2  u1 = u1  u2 = u2  e1 = e1  m1 = m1  m2 = m2
    NoRow = NoRow
    Procs = {p1, p2}
    Users = {u1, u2}
    Emails = {e1}
    Roles = {"admin", "viewer"}
    Tiers = {"small", "large"}
    Default <- MCDefault
    Custom = {0, 3}
    MaxPeriod = 1
    MaxTokens = 2
    MaxFaults = 1
    MaxJobs = 3
    Methods = {m1, m2}
    BasePrice <- MCPrice
    OverPrice <- MCPrice
    MaxInvoices = 1
    MaxChanges = 2
    Requests = {p1, p2}
    Clients = {"user", "ip"}
    Rate <- MCRate
    Burst <- MCBurst
    Window = 2
    MaxNow = 5
    MaxBuckets = 2
    MaxDown = 1
    MaxCount = 4
SPECIFICATION Spec
INVARIANTS  AckedIsComplete OneMemberPerInvitation QuotasFollowPlan  BucketLaw
PROPERTIES CheckEnds
CHECK_DEADLOCK FALSE
