-------------------------------- MODULE Rbac --------------------------------
(***************************************************************************)
(* pkg/rbac: roles with inheritance, direct and team assignments, and the  *)
(* permission checker with its cache in the table permission_cache.  Each  *)
(* SQL statement is a step: a check reads the cache, the direct roles, the *)
(* team roles and one role row after another, and a handler that changes   *)
(* an assignment clears the cache in a statement of its own, if it does.   *)
(* The scope and the resource of an assignment are left out: the checker   *)
(* reads neither (roleScopeMatches).                                       *)
(***************************************************************************)
EXTENDS Naturals, FiniteSets, TLC

CONSTANTS
    Procs,      \* goroutines of requests that check permissions
    Admins,     \* goroutines of requests that change roles and assignments
    NoRow,      \* a row that does not exist, a NULL column (a model value)
    Users, Teams,
    RoleIds,    \* ids of rows of roles
    Names,      \* role names
    Orgs,       \* organizations
    Perms,      \* resource:action pairs
    TTL,        \* cacheTTL
    MaxNow,     \* bound: clock
    MaxChanges  \* bound: statements that change roles, teams and assignments

\* The rows of roles.
RoleRows ==
    [name : Names \cup {"org_admin"}, org : Orgs \cup {NoRow}, perms : SUBSET Perms,
     parent : RoleIds \cup {NoRow}, builtin : BOOLEAN]
ASSUME RbacAssumption ==
    /\ TTL \in Nat \ {0} /\ MaxNow \in Nat /\ MaxChanges \in Nat
    /\ NoRow \notin RoleRows

Idle == [op |-> "idle"]

VARIABLES
    roles,     \* [RoleIds -> NoRow, or name, org, perms, parent, builtin]
    grants,    \* user_roles: set of user, role, org, until
    teams,     \* [Teams -> NoRow, or its organization]
    inTeam,    \* team_members: subset of Teams \X Users
    teamRoles, \* team_roles: subset of Teams \X RoleIds
    cache,     \* permission_cache: [Users \X Perms -> NoRow, or the result]
    now,
    work,      \* [Procs \cup Admins -> the check or the invalidation in progress]
    changes,   \* statements that changed something so far
    resp,      \* the answer this step gave, NoRow when it gave none
    verdict,   \* history: the last result of CheckPermission, in the step that gives it
    linkedAt,  \* history: [Users -> when the user last had a role]
    carriedAt  \* history: [Perms -> when a role last carried the permission]

tables == <<roles, grants, teams, inTeam, teamRoles>>
rbacVars == <<tables, cache, now, work, changes, resp, verdict, linkedAt, carriedAt>>

Linked(u) ==
    \/ \E g \in grants : g.user = u /\ (g.until = NoRow \/ g.until > now)
    \/ \E t \in Teams, r \in RoleIds : <<t, u>> \in inTeam /\ <<t, r>> \in teamRoles
Carried(x) == \E r \in RoleIds : roles[r] # NoRow /\ x \in roles[r].perms

BuiltIn(name, perms) ==
    [name |-> name, org |-> NoRow, perms |-> perms, parent |-> NoRow, builtin |-> TRUE]
RbacInit ==
    /\ LET first == CHOOSE r \in RoleIds : TRUE IN
       roles = [i \in RoleIds |-> IF i = first THEN BuiltIn("org_admin", Perms) ELSE NoRow]
    /\ grants = {}
    /\ \/ teams = [t \in Teams |-> NoRow] /\ inTeam = {} /\ teamRoles = {}
       \/ \E org \in Orgs, u \in Users, r \in RoleIds :
             /\ roles[r] # NoRow /\ teams = [t \in Teams |-> org]
             /\ inTeam = Teams \X {u} /\ teamRoles = Teams \X {r}
    /\ cache = [k \in Users \X Perms |-> NoRow]
    /\ now = 0 /\ changes = 0
    /\ work = [p \in Procs \cup Admins |-> Idle]
    /\ resp = NoRow /\ verdict = NoRow
    /\ linkedAt = [u \in Users |-> 0] /\ carriedAt = [x \in Perms |-> 0]

\* The history variables, in every step.
History ==
    /\ linkedAt' = [u \in Users |-> IF Linked(u)' THEN now' ELSE
                                    IF Linked(u) THEN now ELSE linkedAt[u]]
    /\ carriedAt' = [x \in Perms |-> IF Carried(x)' THEN now' ELSE
                                     IF Carried(x) THEN now ELSE carriedAt[x]]

-----------------------------------------------------------------------------
(* The store.                                                              *)

GetRole(id) == roles[id]
Visible(row, org) == row # NoRow /\ (row.org = NoRow \/ (org # NoRow /\ row.org = org))
\* The role of the organization before the global one.
GetRoleByName(name, org) ==
    LET named == {r \in RoleIds : Visible(roles[r], org) /\ roles[r].name = name}
        own == {r \in named : roles[r].org # NoRow}
    IN  IF own # {} THEN own ELSE named
ListRoles(org) ==
    {r \in RoleIds : roles[r] # NoRow /\ (Visible(roles[r], org) \/ roles[r].builtin)}
GetUserRoles(u, org) ==
    {g \in grants : /\ g.user = u /\ (g.until = NoRow \/ g.until > now)
                    /\ g.org = NoRow \/ (org # NoRow /\ g.org = org)}
GetTeam(t) == teams[t]
ListTeams(org) == {t \in Teams : teams[t] = org}
GetTeamMembers(t) == {u \in Users : <<t, u>> \in inTeam}
\* With no organization given every role of the team counts.
getUserTeamRoles(u, org) ==
    {r \in RoleIds : /\ \E t \in Teams : <<t, r>> \in teamRoles /\ <<t, u>> \in inTeam
                     /\ org = NoRow \/ Visible(roles[r], org)}

\* UNIQUE (name, organization_id): two NULL organizations never collide.
Taken(name, org) ==
    org # NoRow /\ \E r \in RoleIds : roles[r] # NoRow /\ roles[r].name = name /\ roles[r].org = org
CreateRole(id, row) ==
    /\ roles[id] = NoRow /\ ~Taken(row.name, row.org)
    /\ row.parent # NoRow => row.parent = id \/ roles[row.parent] # NoRow
    /\ roles' = [roles EXCEPT ![id] = row]
    /\ UNCHANGED <<grants, teams, inTeam, teamRoles>>
UpdateRole(id, perms, parent) ==
    /\ parent # NoRow => roles[parent] # NoRow
    /\ roles' = [roles EXCEPT ![id].perms = perms, ![id].parent = parent]
    /\ UNCHANGED <<grants, teams, inTeam, teamRoles>>
\* parent_role_id is set to NULL, the assignments go with the role.
DeleteRole(id) ==
    /\ roles[id] # NoRow /\ ~roles[id].builtin
    /\ roles' = [r \in RoleIds |->
            IF r = id \/ roles[r] = NoRow THEN IF r = id THEN NoRow ELSE roles[r]
            ELSE [roles[r] EXCEPT !.parent = IF @ = id THEN NoRow ELSE @]]
    /\ grants' = {g \in grants : g.role # id}
    /\ teamRoles' = {tr \in teamRoles : tr[2] # id}
    /\ UNCHANGED <<teams, inTeam>>
AssignRoleToUser(g) ==
    /\ roles[g.role] # NoRow
    /\ \A h \in grants : <<h.user, h.role, h.org>> # <<g.user, g.role, g.org>>
    /\ grants' = grants \cup {g} /\ UNCHANGED <<roles, teams, inTeam, teamRoles>>
RevokeRoleFromUser(g) ==
    grants' = grants \ {g} /\ UNCHANGED <<roles, teams, inTeam, teamRoles>>
CreateTeam(t, org) ==
    /\ teams[t] = NoRow /\ teams' = [teams EXCEPT ![t] = org]
    /\ UNCHANGED <<roles, grants, inTeam, teamRoles>>
UpdateTeam(t) == UNCHANGED tables
DeleteTeam(t) ==
    /\ teams' = [teams EXCEPT ![t] = NoRow]
    /\ inTeam' = {m \in inTeam : m[1] # t}
    /\ teamRoles' = {tr \in teamRoles : tr[1] # t}
    /\ UNCHANGED <<roles, grants>>
AddTeamMember(t, u) ==
    /\ teams[t] # NoRow /\ <<t, u>> \notin inTeam
    /\ inTeam' = inTeam \cup {<<t, u>>} /\ UNCHANGED <<roles, grants, teams, teamRoles>>
RemoveTeamMember(t, u) ==
    inTeam' = inTeam \ {<<t, u>>} /\ UNCHANGED <<roles, grants, teams, teamRoles>>
AssignRoleToTeam(t, r) ==
    /\ teams[t] # NoRow /\ roles[r] # NoRow /\ <<t, r>> \notin teamRoles
    /\ teamRoles' = teamRoles \cup {<<t, r>>} /\ UNCHANGED <<roles, grants, teams, inTeam>>
RevokeRoleFromTeam(t, r) ==
    teamRoles' = teamRoles \ {<<t, r>>} /\ UNCHANGED <<roles, grants, teams, inTeam>>

-----------------------------------------------------------------------------
(* The checker.  A check is [op, user, org, mode, left, perm, step, ids,   *)
(* up, names, perms, began]: mode and left are the middleware's loop over  *)
(* the permissions it requires, ids the direct roles and up the parents    *)
(* still to read, perms and names what the rows read so far carry.         *)

Answer(code, what) == resp' = <<code, what>>
Silent == resp' = NoRow
Keep == UNCHANGED <<tables, cache, now, changes>>
Begin(p, w) == work[p] = Idle /\ work' = [work EXCEPT ![p] = w]
Finish(p) == work' = [work EXCEPT ![p] = Idle]
At(p, step) == work[p].op = "check" /\ work[p].step = step
Check(u, org, mode, left, perm) ==
    [op |-> "check", user |-> u, org |-> org, mode |-> mode, left |-> left, perm |-> perm,
     step |-> IF mode \in {"role", "permissions"} THEN "direct" ELSE "cache",
     ids |-> {}, up |-> {}, names |-> {}, perms |-> {}, began |-> now]

\* The result goes to the caller, or to the next turn of the middleware's loop.
Deliver(p, allowed) ==
    LET w == work[p]
        last == w.left = {} \/ w.mode = "one" \/ allowed = (w.mode = "any")
    IN  IF last THEN Finish(p) /\ Answer(IF allowed THEN 200 ELSE 403, w.mode)
        ELSE /\ Silent
             /\ \E x \in w.left :
                   work' = [work EXCEPT ![p] = Check(w.user, w.org, w.mode, w.left \ {x}, x)]
\* RequireAnyPermission goes on after an error, RequireAllPermissions answers 403.
Abort(p) ==
    IF work[p].mode = "any" /\ work[p].left # {} THEN Deliver(p, FALSE)
    ELSE Finish(p) /\ Answer(IF work[p].mode \in {"any", "all"} THEN 403 ELSE 500, work[p].mode)

FreshIgnored(e) == e # NoRow
Fresh(e) == e # NoRow /\ e.expires > now
getCachedPermission(p) ==
    LET k == <<work[p].user, work[p].perm>> IN
    /\ At(p, "cache") /\ Keep
    /\ IF Fresh(cache[k])
       THEN /\ Deliver(p, cache[k].allowed)
            /\ verdict' = [user |-> k[1], perm |-> k[2], allowed |-> cache[k].allowed,
                           began |-> cache[k].began, age |-> now + TTL - cache[k].expires]
       ELSE work' = [work EXCEPT ![p].step = "direct"] /\ Silent /\ verdict' = NoRow
DirectRoles(p) ==
    /\ At(p, "direct") /\ Keep /\ verdict' = NoRow /\ Silent
    /\ work' = [work EXCEPT ![p].step = "team",
                 ![p].ids = {g.role : g \in GetUserRoles(work[p].user, work[p].org)}]
Collect(w, rows) ==
    [w EXCEPT !.perms = @ \cup UNION {r.perms : r \in rows},
              !.names = IF w.mode = "role" THEN @ \cup {r.name : r \in rows} ELSE @,
              !.up = @ \cup ({r.parent : r \in rows} \ {NoRow})]
\* The rows of the team roles come with the query, and win over the rows that
\* are read for the direct roles.
TeamRoles(p) ==
    LET w == work[p]
        team == getUserTeamRoles(w.user, w.org)
    IN
    /\ At(p, "team") /\ Keep /\ verdict' = NoRow /\ Silent
    /\ work' = [work EXCEPT ![p] =
            [Collect(w, {roles[r] : r \in team}) EXCEPT !.step = "rows", !.ids = w.ids \ team]]
\* The direct roles are read one by one and skipped when they are gone.
CombineRoles(p) ==
    LET w == work[p] IN
    /\ At(p, "rows") /\ Keep /\ verdict' = NoRow /\ Silent
    /\ \/ w.ids = {} /\ work' = [work EXCEPT ![p].step = "parents"]
       \/ \E id \in w.ids :
             work' = [work EXCEPT ![p] =
                [Collect(w, {GetRole(id)} \ {NoRow}) EXCEPT !.ids = w.ids \ {id}]]
\* One call of the recursion: the parent's row, then the parent's parent.
resolveSelf(p) ==
    /\ At(p, "parents") /\ Keep /\ verdict' = NoRow
    /\ \E id \in work[p].up :
          IF GetRole(id) = NoRow THEN Abort(p)
          ELSE Silent /\ work' = [work EXCEPT ![p] = Collect(@, {GetRole(id)})]
resolveRoleInheritance(p) ==
    LET w == work[p] IN
    /\ At(p, "parents") /\ Keep /\ verdict' = NoRow
    /\ \E id \in w.up :
          IF GetRole(id) = NoRow THEN Abort(p)
          ELSE /\ Silent
               /\ work' = [work EXCEPT ![p] =
                     Collect([w EXCEPT !.up = w.up \ {id}], {GetRole(id)})]
roleHasPermission(w) == w.perm \in w.perms
roleScopeMatches(w) == TRUE
cachePermissionResult(w, allowed) ==
    cache' = [cache EXCEPT ![<<w.user, w.perm>>] =
                [allowed |-> allowed, expires |-> now + TTL, began |-> w.began]]
CheckPermission(p) ==
    LET w == work[p]
        allowed == roleHasPermission(w) /\ roleScopeMatches(w)
    IN  /\ At(p, "parents") /\ w.up = {} /\ w.mode \in {"one", "any", "all"}
        /\ cachePermissionResult(w, allowed) /\ Deliver(p, allowed)
        /\ verdict' = [user |-> w.user, perm |-> w.perm, allowed |-> allowed,
                       began |-> w.began, age |-> 0]
        /\ UNCHANGED <<tables, now, changes>>
GetEffectivePermissions(p) ==
    /\ At(p, "parents") /\ work[p].up = {} /\ work[p].mode = "permissions"
    /\ Finish(p) /\ resp' = <<200, "permissions", work[p].perms>> /\ verdict' = NoRow /\ Keep
RoleCheck(p) ==
    /\ At(p, "parents") /\ work[p].up = {} /\ work[p].mode = "role"
    /\ Finish(p) /\ verdict' = NoRow /\ Keep
    /\ Answer(IF "org_admin" \in work[p].names THEN 200 ELSE 403, "role")

\* Manager.CheckPermission, POST /rbac/check, RequirePermission and
\* RequireModulePermission ask for one permission; a request without a user
\* is answered 401, one without a module name 400.
Require(p, mode, left, perm) ==
    /\ \E u \in Users, org \in Orgs \cup {NoRow} : Begin(p, Check(u, org, mode, left, perm))
    /\ Silent /\ verdict' = NoRow /\ Keep
RequirePermission(p) == \E x \in Perms : Require(p, "one", {}, x)
RequireModulePermission(p) ==
    \/ RequirePermission(p)
    \/ work[p] = Idle /\ Answer(400, "module") /\ verdict' = NoRow /\ Keep /\ UNCHANGED work
RequireAnyPermission(p) == \E x \in Perms : Require(p, "any", Perms \ {x}, x)
RequireAllPermissions(p) == \E x \in Perms : Require(p, "all", Perms \ {x}, x)
RequireRole(p) == Require(p, "role", {}, NoRow)
HandleGetUserPermissions(p) == Require(p, "permissions", {}, NoRow)
Unauthenticated(p) ==
    work[p] = Idle /\ Answer(401, "user") /\ verdict' = NoRow /\ Keep /\ UNCHANGED work
CheckStep(p) ==
    \/ getCachedPermission(p) \/ DirectRoles(p) \/ TeamRoles(p) \/ CombineRoles(p)
    \/ resolveRoleInheritance(p)
    \/ CheckPermission(p) \/ GetEffectivePermissions(p) \/ RoleCheck(p)

-----------------------------------------------------------------------------
(* The handlers that change something; the Manager's versions of some of   *)
(* them clear the cache too.                                               *)

Change(p) ==
    /\ changes < MaxChanges /\ changes' = changes + 1
    /\ work[p] = Idle /\ verdict' = NoRow /\ UNCHANGED <<cache, now>>
Then(p, users) ==
    work' = [work EXCEPT ![p] =
        IF users = {} THEN Idle ELSE [op |-> "invalidate", users |-> users]]
InvalidateCache(p) ==
    /\ work[p].op = "invalidate"
    /\ \E u \in work[p].users :
          /\ cache' = [k \in Users \X Perms |-> IF k[1] = u THEN NoRow ELSE cache[k]]
          /\ Then(p, work[p].users \ {u})
    /\ verdict' = NoRow /\ Silent /\ UNCHANGED <<tables, now, changes>>

HandleCreateRole(p) ==
    /\ Change(p) /\ Then(p, {}) /\ Answer(201, "role")
    /\ \E id \in RoleIds, name \in Names, org \in Orgs \cup {NoRow}, perms \in SUBSET Perms,
          parent \in RoleIds \cup {NoRow} :
          CreateRole(id, [name |-> name, org |-> org, perms |-> perms,
                          parent |-> parent, builtin |-> FALSE])
CreateCustomRole(p) == HandleCreateRole(p)
HandleUpdateRole(p) ==
    /\ Change(p) /\ Then(p, {})
    /\ \E id \in RoleIds, perms \in SUBSET Perms, parent \in RoleIds \cup {NoRow} :
          \/ GetRole(id) = NoRow /\ Answer(404, "role") /\ UNCHANGED tables
          \/ /\ GetRole(id) # NoRow /\ GetRole(id).builtin
             /\ Answer(403, "role") /\ UNCHANGED tables
          \/ /\ GetRole(id) # NoRow /\ ~GetRole(id).builtin
             /\ UpdateRole(id, perms, parent) /\ Answer(200, "role")
HandleDeleteRole(p) ==
    /\ Change(p) /\ Then(p, {})
    /\ \E id \in RoleIds :
          \/ DeleteRole(id) /\ Answer(204, "role")
          \/ /\ roles[id] # NoRow => roles[id].builtin
             /\ Answer(500, "role") /\ UNCHANGED tables
HandleAssignRoleToUser(p) ==
    /\ Change(p) /\ Answer(201, "user_role")
    /\ \E u \in Users, r \in RoleIds, org \in Orgs \cup {NoRow}, until \in {NoRow, now + 1} :
          /\ AssignRoleToUser([user |-> u, role |-> r, org |-> org, until |-> until])
          /\ Then(p, {u})
ManagerAssignRoleToUser(p) == HandleAssignRoleToUser(p)
\* The row is named by its id and the cache is cleared for the user of the URL.
HandleRevokeRoleFromUser(p) ==
    /\ Change(p) /\ Answer(204, "user_role")
    /\ \E g \in grants, u \in Users : RevokeRoleFromUser(g) /\ Then(p, {u})
HandleCreateTeam(p) ==
    /\ Change(p) /\ Then(p, {}) /\ Answer(201, "team")
    /\ \E t \in Teams, org \in Orgs : CreateTeam(t, org)
ManagerCreateTeam(p) == HandleCreateTeam(p)
HandleUpdateTeam(p) ==
    /\ Change(p) /\ Then(p, {})
    /\ \E t \in Teams : UpdateTeam(t) /\ Answer(IF GetTeam(t) = NoRow THEN 404 ELSE 200, "team")
HandleDeleteTeam(p) ==
    /\ Change(p) /\ Then(p, {}) /\ Answer(204, "team") /\ \E t \in Teams : DeleteTeam(t)
HandleAddTeamMember(p) ==
    /\ Change(p) /\ Then(p, {}) /\ Answer(201, "team_member")
    /\ \E t \in Teams, u \in Users : AddTeamMember(t, u)
ManagerAddTeamMember(p) ==
    /\ Change(p) /\ Answer(201, "team_member")
    /\ \E t \in Teams, u \in Users : AddTeamMember(t, u) /\ Then(p, {u})
HandleRemoveTeamMember(p) ==
    /\ Change(p) /\ Then(p, {}) /\ Answer(204, "team_member")
    /\ \E t \in Teams, u \in Users : RemoveTeamMember(t, u)
HandleAssignRoleToTeam(p) ==
    /\ Change(p) /\ Then(p, {}) /\ Answer(201, "team_role")
    /\ \E t \in Teams, r \in RoleIds : AssignRoleToTeam(t, r)
\* The members are read after the row is there.
ManagerAssignRoleToTeam(p) ==
    /\ Change(p) /\ Answer(201, "team_role")
    /\ \E t \in Teams, r \in RoleIds : AssignRoleToTeam(t, r) /\ Then(p, GetTeamMembers(t))
HandleRevokeRoleFromTeam(p) ==
    /\ Change(p) /\ Then(p, {}) /\ Answer(204, "team_role")
    /\ \E t \in Teams, r \in RoleIds : RevokeRoleFromTeam(t, r)
\* The first administrator of an organization, the owner of a module: no
\* cached denial of theirs is cleared.
BootstrapOrganization(p) ==
    /\ Change(p) /\ Then(p, {}) /\ Answer(200, "bootstrap")
    /\ \E u \in Users, org \in Orgs :
          \E r \in GetRoleByName("org_admin", org) :
             AssignRoleToUser([user |-> u, role |-> r, org |-> org, until |-> NoRow])
BootstrapModule(p) ==
    /\ Change(p) /\ Then(p, {}) /\ Answer(200, "bootstrap")
    /\ \E u \in Users, org \in Orgs \cup {NoRow} :
          \E r \in GetRoleByName("module_owner", org) :
             AssignRoleToUser([user |-> u, role |-> r, org |-> org, until |-> NoRow])
\* A statement that violates a constraint: every handler answers 500.
RejectedStatement(p) ==
    /\ Change(p) /\ Then(p, {}) /\ Answer(500, "error") /\ UNCHANGED tables
CleanupExpiredPermissions(p) ==
    /\ work[p] = Idle /\ verdict' = NoRow /\ Silent /\ UNCHANGED <<tables, now, work, changes>>
    /\ cache' = [k \in Users \X Perms |-> IF Fresh(cache[k]) THEN cache[k] ELSE NoRow]
    /\ cache' # cache
Tick ==
    /\ now < MaxNow /\ now' = now + 1 /\ verdict' = NoRow
    /\ Silent /\ UNCHANGED <<tables, cache, work, changes>>

Reads(p) == work[p] = Idle /\ verdict' = NoRow /\ Keep /\ UNCHANGED work
Returns(what, body) == resp' = <<200, what, body>>
HandleListRoles(p) ==
    Reads(p) /\ \E org \in Orgs \cup {NoRow} : Returns("roles", ListRoles(org))
HandleGetRole(p) ==
    Reads(p) /\ \E id \in RoleIds :
        IF GetRole(id) = NoRow THEN Answer(404, "role") ELSE Returns("role", {id})
HandleGetUserRoles(p) ==
    Reads(p) /\ \E u \in Users, org \in Orgs \cup {NoRow} :
        Returns("user_roles", {g.role : g \in GetUserRoles(u, org)})
HandleListTeams(p) == Reads(p) /\ \E org \in Orgs : Returns("teams", ListTeams(org))
HandleGetTeam(p) ==
    Reads(p) /\ \E t \in Teams :
        IF GetTeam(t) = NoRow THEN Answer(404, "team") ELSE Returns("team", {t})
HandleGetTeamMembers(p) == Reads(p) /\ \E t \in Teams : Returns("members", GetTeamMembers(t))
HandleGetRoleTemplates(p) == Reads(p) /\ Returns("templates", {"ci-bot", "auditor", "docs-manager"})
GetStats(p) ==
    Reads(p) /\ Returns("stats", <<Cardinality({r \in RoleIds : roles[r] # NoRow}),
        Cardinality({r \in RoleIds : roles[r] # NoRow /\ ~roles[r].builtin}),
        Cardinality(grants), Cardinality({t \in Teams : teams[t] # NoRow}),
        Cardinality(inTeam), Cardinality({k \in Users \X Perms : Fresh(cache[k])})>>)

Checking(p) == CheckStep(p) \/ RequirePermission(p) \/ CleanupExpiredPermissions(p)
Requirements(p) ==
    \/ RequireModulePermission(p) \/ RequireAnyPermission(p) \/ RequireAllPermissions(p)
    \/ RequireRole(p) \/ HandleGetUserPermissions(p) \/ Unauthenticated(p)
Administration(p) ==
    \/ InvalidateCache(p) \/ RejectedStatement(p)
    \/ CreateCustomRole(p) \/ HandleUpdateRole(p) \/ HandleDeleteRole(p)
    \/ ManagerAssignRoleToUser(p) \/ HandleRevokeRoleFromUser(p)
    \/ ManagerCreateTeam(p) \/ HandleUpdateTeam(p) \/ HandleDeleteTeam(p)
    \/ HandleAddTeamMember(p) \/ ManagerAddTeamMember(p) \/ HandleRemoveTeamMember(p)
    \/ HandleAssignRoleToTeam(p) \/ ManagerAssignRoleToTeam(p) \/ HandleRevokeRoleFromTeam(p)
    \/ BootstrapOrganization(p) \/ BootstrapModule(p)
RoleReads(p) ==
    \/ HandleListRoles(p) \/ HandleGetRole(p) \/ HandleGetUserRoles(p)
    \/ HandleListTeams(p) \/ HandleGetTeam(p) \/ HandleGetTeamMembers(p)
    \/ HandleGetRoleTemplates(p) \/ GetStats(p)
RbacNext ==
    /\ \/ \E p \in Procs : Checking(p)
       \/ \E p \in Admins : Administration(p)
       \/ Tick
    /\ History
RequirementsNext ==
    /\ \/ \E p \in Procs : CheckStep(p) \/ Requirements(p) \/ RoleReads(p)
       \/ \E p \in Admins : Administration(p)
    /\ History

-----------------------------------------------------------------------------
(* A permission is granted no longer than the cache allows: a result that  *)
(* says yes is younger than the TTL, and the user had a role, and some     *)
(* role carried the permission, at a moment of the check that computed it  *)
(* or later.  Most handlers never clear the cache, and a check in progress *)
(* writes what it read before the cache was cleared: the TTL is all there  *)
(* is between a revocation and its effect.                                 *)
StaleBounded ==
    verdict # NoRow /\ verdict.allowed =>
        /\ verdict.age < TTL
        /\ linkedAt[verdict.user] >= verdict.began
        /\ carriedAt[verdict.perm] >= verdict.began

\* Some roles are one another's ancestors: UpdateRole accepts any parent.
Cyclic ==
    \E S \in SUBSET RoleIds \ {{}} : \A r \in S : roles[r] # NoRow /\ roles[r].parent \in S
(* Every check ends, unless from some point on roles are their own         *)
(* ancestors: resolveRoleInheritance follows the parents of a cycle until  *)
(* the stack is exhausted.                                                 *)
ChecksEnd ==
    (\A p \in Procs : []<>(work[p].op # "check")) \/ <>[]Cyclic
=============================================================================
