CONSTANTS
    NoRow = NoRow  Null = Null  Blank = Blank  u1 = u1  x1 = x1
    Procs = {p1}
    Admins = {p2}
    Users = {u1, u2}
    Teams = {t1}
    RoleIds = {r1, r2}
    Names = {"module_owner"}
    Orgs = {o1}
    Perms = {x1, x2}
    TTL = 1
    MaxNow = 1
    MaxChanges = 2
    Servers = {s1, s2}
    Migrations <- MCMigrations
    BuiltInNames <- MCBuiltIn
    MaxCrashes = 2
    Uids = {i1, i2}
    Logins = {ann, bob}
    TokenIds = {k1}
    OrgNames = {"sso-users"}
    Modules = {m1}
    MaxEdits = 2
    Browsers = {b1, b2}
    Providers = {idp}
    People = {ext}
    GroupRole <- MCGroupRole
    MaxStates = 2
SPECIFICATION Spec
INVARIANTS   OneUserPerIdentity
PROPERTIES ChecksEnd
CHECK_DEADLOCK FALSE
