--------------------------- MODULE Organizations ---------------------------
(***************************************************************************)
(* pkg/orgs behind pkg/api/org_handlers.go and the quota middleware: one   *)
(* organization with its members, invitations, quotas and usage rows.      *)
(* Each SQL statement is a step.  A handler of one statement is an action; *)
(* CreateOrganization and a request that consumes quota are the jobs of    *)
(* goroutines.  Of the five counters of a usage row, which no statement    *)
(* mixes, a behaviour follows one, the subject.                            *)
(***************************************************************************)
EXTENDS Naturals, FiniteSets, TLC

CONSTANTS
    Procs,      \* request goroutines
    NoRow,      \* a row that does not exist (a model value)
    Users, Emails, Roles,
    Tiers,      \* quota tiers; "small" is the default one
    Default,    \* [Tiers -> limit GetDefaultQuotas gives the subject]
    Custom,     \* limits an administrator may set
    MaxPeriod,  \* bound: months
    MaxTokens,  \* bound: invitation tokens generated
    MaxFaults,  \* bound: SQL statements that fail
    MaxJobs     \* bound: requests that consume quota

\* The rows of org_invitations; a token and the id of a row are numbers.
InviteRows ==
    [id : Nat, token : Nat, role : Roles, expired : BOOLEAN, accepted : BOOLEAN]
ASSUME OrganizationsAssumption ==
    /\ Default \in [Tiers -> Nat] /\ "small" \in Tiers /\ Custom \subseteq Nat
    /\ "admin" \in Roles /\ IsFiniteSet(Procs) /\ Procs # {}
    /\ MaxPeriod \in Nat /\ MaxTokens \in Nat
    /\ NoRow \notin Nat /\ NoRow \notin {"active", "deleted"} /\ NoRow \notin InviteRows

Resources == {"modules", "versions", "storage", "jobs", "api"}
Periods == 0 .. MaxPeriod
Idle == [op |-> "idle"]

VARIABLES
    org,      \* organizations.status, NoRow before the row is inserted
    quota,    \* the subject's column of org_quotas, or NoRow
    usage,    \* [Periods -> the subject's column of org_usage, or NoRow]
    members,  \* [Users -> role, or NoRow]
    invites,  \* [Emails -> row of org_invitations, or NoRow]
    tokens,   \* invitation tokens generated so far
    utc,      \* the month of the database's NOW()
    local,    \* the month of time.Now() in the server's time zone
    subject,  \* the resource this behaviour follows
    made,     \* [Periods -> resources created on a check of that usage row]
    job,      \* [Procs -> the request the goroutine is working on]
    jobs,     \* requests that consumed quota so far
    faults,   \* failed statements so far
    resp,     \* the last HTTP answer: status code, what it is, and the body of a read
    peak,     \* history: the highest quota there was
    lost,     \* history: increments that failed, quotas that were not found
    acked,    \* history: CreateOrganization answered 201
    admitted  \* history: [invitation rows -> users they made members]

tenancy == <<org, quota, usage, peak, acked>>
people == <<members, invites, tokens, admitted>>
clock == <<utc, local>>
consumption == <<subject, made, jobs, lost>>
orgVars == <<tenancy, people, clock, consumption, job, faults, resp>>

Answer(code, what) == resp' = <<code, what>>
Returns(what, body) == resp' = <<200, what, body>>
Quiet == UNCHANGED resp
\* A statement that fails: every caller answers 500 and returns.
Fails(p) ==
    /\ faults < MaxFaults /\ faults' = faults + 1
    /\ job' = [job EXCEPT ![p] = Idle]
    /\ Answer(500, "error")

Unfounded ==
    /\ org = NoRow /\ quota = NoRow /\ peak = 0 /\ acked = FALSE
    /\ usage = [k \in Periods |-> NoRow]
    /\ members = [u \in Users |-> NoRow]
\* The states in which CreateOrganization may have left it.
Founded(used) ==
    /\ org = "active" /\ quota \in {NoRow, Default["small"]}
    /\ acked = (quota # NoRow) /\ peak = IF acked THEN quota ELSE 0
    /\ usage = [k \in Periods |-> IF acked /\ k = 0 THEN used ELSE NoRow]
    /\ \E u \in Users : members = [v \in Users |-> IF acked /\ v = u THEN "admin" ELSE NoRow]
Unused ==
    /\ invites = [e \in Emails |-> NoRow]
    /\ tokens = 0 /\ utc = 0 /\ local = 0
    /\ subject \in Resources
    /\ made = [k \in Periods |-> 0]
    /\ job = [p \in Procs |-> Idle]
    /\ jobs = 0 /\ faults = 0 /\ lost = 0
    /\ resp = <<200, "up">>
    /\ admitted = [t \in 1 .. MaxTokens |-> {}]

-----------------------------------------------------------------------------
(* The service: what its statements read and write.                        *)

GetDefaultQuotas(tier) == IF tier \in Tiers THEN Default[tier] ELSE Default["small"]
GetOrganization == org
GetOrganizationBySlug == org
\* The organizations a user belongs to, the deleted ones left out.
ListOrganizations(u) == {o \in {org} : o = "active" /\ members[u] # NoRow}
GetQuotas == quota
\* The rows with period_end > NOW(), of which GetUsage takes the latest.
Current == {k \in Periods : usage[k] # NoRow /\ k >= utc}
Latest(ks) == CHOOSE k \in ks : \A j \in ks : j <= k
GetUsage == Latest(Current)
GetUsageHistory(limit) ==
    {k \in Periods : usage[k] # NoRow
                  /\ Cardinality({j \in Periods : usage[j] # NoRow /\ j > k}) < limit}
ListMembers == {u \in Users : members[u] # NoRow}
GetMember(u) == members[u]
ListInvitations == {e \in Emails : invites[e] # NoRow /\ ~invites[e].accepted}

\* Mutants: the quotas row is not made; the month of the row is a fixed one.
createQuotasForgotten(tier) == UNCHANGED <<quota, peak>>
createQuotas(tier) ==
    quota' = GetDefaultQuotas(tier) /\ peak' = GetDefaultQuotas(tier)
\* ON CONFLICT DO NOTHING: the month is the local one.
initializeUsageFirst ==
    usage' = [usage EXCEPT ![0] = IF @ = NoRow THEN 0 ELSE @]
initializeUsagePeriod ==
    usage' = [usage EXCEPT ![local] = IF @ = NoRow THEN 0 ELSE @]
UpdateQuotasRow(limit) ==
    /\ quota' = IF quota = NoRow THEN NoRow ELSE limit
    /\ peak' = IF quota # NoRow /\ limit > peak THEN limit ELSE peak
AddMemberRow(u, role) ==
    members' = [members EXCEPT ![u] = IF @ = NoRow THEN role ELSE @]
\* The subject's counter grows in every row that has not ended.
Incremented == [k \in Periods |-> IF k \in Current THEN usage[k] + 1 ELSE usage[k]]

-----------------------------------------------------------------------------
(* POST /orgs: four statements and no transaction.                         *)

Begin(p, work) == job[p] = Idle /\ job' = [job EXCEPT ![p] = work]
Goto(p, step) == job' = [job EXCEPT ![p].step = step]
At(p, op, step) == job[p].op = op /\ job[p].step = step
Done(p) == job' = [job EXCEPT ![p] = Idle]

HandleCreateOrganization(p) ==
    /\ \E u \in Users, tier \in Tiers \cup {"none"} :
          Begin(p, [op |-> "create", step |-> "insert", user |-> u, tier |-> tier])
    /\ ~acked  \* bound: nobody creates it again once it is acknowledged
    /\ Quiet /\ UNCHANGED <<tenancy, people, clock, consumption, faults>>

\* The slug is unique: a second organization of the name is refused.
CreateOrganization(p) ==
    /\ At(p, "create", "insert")
    /\ IF org = NoRow
       THEN org' = "active" /\ Goto(p, "quotas") /\ Quiet
       ELSE org' = org /\ Done(p) /\ Answer(500, "error")
    /\ UNCHANGED <<quota, usage, peak, acked, people, clock, consumption, faults>>

CreateQuotasStep(p) ==
    /\ At(p, "create", "quotas")
    /\ createQuotas(job[p].tier) /\ Goto(p, "usage")
    /\ Quiet /\ UNCHANGED <<org, usage, acked, people, clock, consumption, faults>>

CreateUsageStep(p) ==
    /\ At(p, "create", "usage")
    /\ initializeUsagePeriod /\ Goto(p, "member")
    /\ Quiet /\ UNCHANGED <<org, quota, peak, acked, people, clock, consumption, faults>>

CreateMemberStep(p) ==
    /\ At(p, "create", "member") /\ Done(p)
    /\ IF members[job[p].user] = NoRow
       THEN AddMemberRow(job[p].user, "admin") /\ acked' = TRUE /\ Answer(201, "org")
       ELSE Answer(500, "error") /\ UNCHANGED <<members, acked>>
    /\ UNCHANGED <<org, quota, usage, peak, invites, tokens, admitted, clock, consumption, faults>>

CreateFails(p) ==
    /\ job[p].op = "create" /\ Fails(p)
    /\ UNCHANGED <<tenancy, people, clock, consumption>>

-----------------------------------------------------------------------------
(* Requests of one statement.                                              *)

Unchanged(vs) == UNCHANGED <<vs, clock, consumption, job, faults>>

HandleGetOrganization ==
    /\ IF GetOrganization = NoRow THEN Answer(404, "error") ELSE Returns("org", org)
    /\ Unchanged(<<tenancy, people>>)
HandleListOrganizations(u) ==
    Returns("orgs", ListOrganizations(u)) /\ Unchanged(<<tenancy, people>>)
\* None of the columns it sets is read by a guard.
UpdateOrganization == org # NoRow
HandleUpdateOrganization ==
    /\ IF ~UpdateOrganization THEN Answer(500, "error") ELSE Returns("org", org)
    /\ Unchanged(<<tenancy, people>>)
\* A soft delete: quotas, usage and members stay.
DeleteOrganization == org' = IF org = NoRow THEN NoRow ELSE "deleted"
HandleDeleteOrganization ==
    /\ DeleteOrganization
    /\ IF org = NoRow THEN Answer(500, "error") ELSE Answer(204, "")
    /\ Unchanged(<<quota, usage, peak, acked, people>>)
HandleGetQuotas ==
    /\ IF GetQuotas = NoRow THEN Answer(404, "error") ELSE Returns("quota", quota)
    /\ Unchanged(<<tenancy, people>>)
HandleUpdateQuotas(limit) ==
    /\ UpdateQuotasRow(limit)
    /\ IF quota = NoRow THEN Answer(500, "error") ELSE Returns("quota", limit)
    /\ Unchanged(<<org, usage, acked, people>>)
\* Without a current row GetUsage makes the row of the local month and asks
\* again; for an unknown organization the foreign key refuses the row.
HandleGetUsage ==
    /\ IF Current # {} THEN Returns("usage", usage[GetUsage]) /\ UNCHANGED usage
       ELSE IF org = NoRow THEN Answer(404, "error") /\ UNCHANGED usage
       ELSE initializeUsagePeriod /\ Quiet
    /\ Unchanged(<<org, quota, peak, acked, people>>)
HandleGetUsageHistory(limit) ==
    Returns("history", GetUsageHistory(limit)) /\ Unchanged(<<tenancy, people>>)

HandleListMembers == Returns("members", ListMembers) /\ Unchanged(<<tenancy, people>>)
HandleAddMember(u, role) ==
    /\ org # NoRow
    /\ AddMemberRow(u, role)
    /\ IF GetMember(u) = NoRow THEN Answer(201, "") ELSE Answer(500, "error")
    /\ Unchanged(<<tenancy, invites, tokens, admitted>>)
UpdateMemberRole(u, role) ==
    members' = [members EXCEPT ![u] = IF @ = NoRow THEN @ ELSE role]
HandleUpdateMember(u, role) ==
    /\ UpdateMemberRole(u, role)
    /\ IF members[u] = NoRow THEN Answer(500, "error") ELSE Answer(204, "")
    /\ Unchanged(<<tenancy, invites, tokens, admitted>>)
RemoveMemberRow(u) == members' = [members EXCEPT ![u] = NoRow]
HandleRemoveMember(u) ==
    /\ RemoveMemberRow(u)
    /\ IF members[u] = NoRow THEN Answer(500, "error") ELSE Answer(204, "")
    /\ Unchanged(<<tenancy, invites, tokens, admitted>>)

\* A second invitation of an address keeps role and accepted_at of the row.
CreateInvitation(e, role) ==
    /\ tokens' = tokens + 1
    /\ invites' = [invites EXCEPT ![e] =
         IF @ = NoRow
         THEN [id |-> tokens + 1, token |-> tokens + 1, role |-> role, expired |-> FALSE, accepted |-> FALSE]
         ELSE [@ EXCEPT !.token = tokens + 1, !.expired = FALSE]]
HandleCreateInvitation(e, role) ==
    /\ org # NoRow /\ tokens < MaxTokens
    /\ CreateInvitation(e, role) /\ Answer(201, "invitation")
    /\ Unchanged(<<tenancy, members, admitted>>)
HandleListInvitations == Returns("invitations", ListInvitations) /\ Unchanged(<<tenancy, people>>)
RevokeInvitation(e) == invites' = [invites EXCEPT ![e] = NoRow]
HandleRevokeInvitation(e) ==
    /\ IF invites[e] # NoRow /\ ~invites[e].accepted
       THEN RevokeInvitation(e) /\ Answer(204, "")
       ELSE UNCHANGED invites /\ Answer(500, "error")
    /\ Unchanged(<<tenancy, members, tokens, admitted>>)
ExpireInvitation(e) ==
    /\ invites[e] # NoRow /\ ~invites[e].expired
    /\ invites' = [invites EXCEPT ![e].expired = TRUE]
    /\ Quiet /\ Unchanged(<<tenancy, members, tokens, admitted>>)
CleanupExpiredInvitations ==
    /\ invites' = [e \in Emails |-> IF invites[e] # NoRow /\ invites[e].expired /\ ~invites[e].accepted
                                    THEN NoRow ELSE invites[e]]
    /\ Quiet /\ Unchanged(<<tenancy, members, tokens, admitted>>)

\* The transaction locks the row it finds by the token.
AcceptableTwice(e) == ~invites[e].expired
Acceptable(e) == ~invites[e].accepted /\ ~invites[e].expired
AcceptInvitation(t, u) ==
    LET found == {e \in Emails : invites[e] # NoRow /\ invites[e].token = t} IN
    IF \E e \in found : Acceptable(e)
    THEN \E e \in found :
         /\ AddMemberRow(u, invites[e].role)
         /\ invites' = [invites EXCEPT ![e].accepted = TRUE]
         /\ admitted' = [admitted EXCEPT ![invites[e].id] =
                            IF members[u] = NoRow THEN @ \cup {u} ELSE @]
         /\ Answer(204, "")
    ELSE Answer(400, "error") /\ UNCHANGED <<members, invites, admitted>>
HandleAcceptInvitation(t, u) ==
    AcceptInvitation(t, u) /\ Unchanged(<<tenancy, tokens>>)

-----------------------------------------------------------------------------
(* A request that consumes quota: the middleware reads the quota, then the *)
(* usage, serves the request, and a goroutine counts it afterwards.        *)

OrgContextMiddleware(p) ==
    /\ jobs < MaxJobs
    /\ \E found \in {GetOrganization, GetOrganizationBySlug} : found # NoRow
    /\ Begin(p, [op |-> "consume", step |-> "quota", limit |-> 0, row |-> 0])
    /\ jobs' = jobs + 1
    /\ Quiet /\ UNCHANGED <<tenancy, people, clock, subject, made, lost, faults>>

\* An error that is not an exceeded quota stops every request but the one
\* that is only held to the hourly limit.
ReadQuota(p) ==
    /\ At(p, "consume", "quota")
    /\ CASE quota # NoRow -> job' = [job EXCEPT ![p].step = "usage", ![p].limit = quota] /\ Quiet
         [] quota = NoRow /\ subject = "api" -> Goto(p, "serve") /\ Quiet
         [] OTHER -> Done(p) /\ Answer(500, "error")
    /\ lost' = IF quota = NoRow THEN lost + 1 ELSE lost
    /\ UNCHANGED <<tenancy, people, clock, subject, made, jobs, faults>>

\* The recursion of GetUsage: a missing row is inserted, then read again.
ReadUsage(p) ==
    /\ At(p, "consume", "usage") /\ subject \notin {"versions", "api"} /\ Current = {}
    /\ initializeUsagePeriod
    /\ Quiet /\ UNCHANGED <<org, quota, peak, acked, people, clock, consumption, job, faults>>

\* versions and api count rows of their own tables, the others the usage row.
Consumed == IF subject \in {"versions", "api"} THEN made[0] ELSE usage[GetUsage]
CheckModuleQuotaLoose(limit) == Consumed > limit
CheckModuleQuota(limit) == Consumed >= limit
CheckCompileJobQuota(limit) == Consumed >= limit
CheckVersionQuota(limit) == Consumed >= limit
CheckStorageQuota(limit, additional) == Consumed + additional > limit
CheckAPIRateLimit(limit) == Consumed >= limit
\* The status code of the refusal, 0 when the request goes on.
EnforceModuleQuota(limit) == IF CheckModuleQuota(limit) THEN 403 ELSE 0
EnforceCompileJobQuota(limit) == IF CheckCompileJobQuota(limit) THEN 403 ELSE 0
QuotaCheckMiddleware(limit) ==
    IF \/ subject = "versions" /\ CheckVersionQuota(limit)
       \/ subject = "storage" /\ CheckStorageQuota(limit, 1)
       \/ subject = "api" /\ CheckAPIRateLimit(limit)
    THEN 429 ELSE 0
Refusal(limit) ==
    CASE subject = "modules" -> EnforceModuleQuota(limit)
      [] subject = "jobs" -> EnforceCompileJobQuota(limit)
      [] OTHER -> QuotaCheckMiddleware(limit)

Enforce(p) ==
    /\ At(p, "consume", "usage")
    /\ subject \in {"versions", "api"} \/ Current # {}
    /\ IF Refusal(job[p].limit) # 0
       THEN Done(p) /\ Answer(Refusal(job[p].limit), "quota exceeded")
       ELSE /\ job' = [job EXCEPT ![p].step = "serve",
                         ![p].row = IF subject \in {"versions", "api"} THEN 0 ELSE GetUsage]
            /\ Quiet
    /\ UNCHANGED <<tenancy, people, clock, consumption, faults>>

Serve(p) ==
    /\ At(p, "consume", "serve")
    /\ made' = [made EXCEPT ![job[p].row] = @ + 1]
    /\ Goto(p, "count") /\ Answer(201, subject)
    /\ UNCHANGED <<tenancy, people, clock, subject, jobs, lost, faults>>

CountFirst(p) ==
    /\ At(p, "consume", "count") /\ Current = {}
    /\ initializeUsagePeriod
    /\ Quiet /\ UNCHANGED <<org, quota, peak, acked, people, clock, consumption, job, faults>>
Counts(p, r) ==
    /\ At(p, "consume", "count") /\ subject = r /\ Current # {}
    /\ usage' = Incremented /\ Done(p)
    /\ Quiet /\ UNCHANGED <<org, quota, peak, acked, people, clock, consumption, faults>>
IncrementModules(p) == Counts(p, "modules")
IncrementVersions(p) == Counts(p, "versions")
IncrementStorage(p) == Counts(p, "storage")
IncrementCompileJobs(p) == Counts(p, "jobs")
IncrementAPIRequests(p) == Counts(p, "api")
\* The error of the goroutine is logged, the request is not counted.
IncrementLost(p) ==
    /\ At(p, "consume", "count") /\ faults < MaxFaults
    /\ faults' = faults + 1 /\ lost' = lost + 1 /\ Done(p)
    /\ Quiet /\ UNCHANGED <<tenancy, people, clock, subject, made, jobs>>

\* A server west of UTC sees the new month after the database, one east of
\* it before.
UtcMonth ==
    /\ utc < MaxPeriod /\ utc <= local /\ utc' = utc + 1
    /\ Quiet /\ UNCHANGED <<tenancy, people, local, consumption, job, faults>>
LocalMonth ==
    /\ local < MaxPeriod /\ local <= utc /\ local' = local + 1
    /\ Quiet /\ UNCHANGED <<tenancy, people, utc, consumption, job, faults>>
\* The rows of the last hour are forgotten one by one; the worst case is all.
HourPasses ==
    /\ subject = "api" /\ made' = [made EXCEPT ![0] = 0]
    /\ Quiet /\ UNCHANGED <<tenancy, people, clock, subject, jobs, lost, job, faults>>

CreateNext == \E p \in Procs :
    \/ HandleCreateOrganization(p) \/ CreateOrganization(p) \/ CreateQuotasStep(p)
    \/ CreateUsageStep(p) \/ CreateMemberStep(p) \/ CreateFails(p)

ReadNext ==
    \/ HandleGetOrganization \/ HandleUpdateOrganization \/ HandleDeleteOrganization
    \/ HandleGetQuotas \/ HandleGetUsage \/ HandleListMembers \/ HandleListInvitations
    \/ \E u \in Users : HandleListOrganizations(u)
    \/ \E limit \in 1 .. 2 : HandleGetUsageHistory(limit)

MemberNext ==
    \/ \E u \in Users, role \in Roles : HandleAddMember(u, role) \/ HandleUpdateMember(u, role)
    \/ \E u \in Users : HandleRemoveMember(u)
    \/ \E e \in Emails, role \in Roles : HandleCreateInvitation(e, role)
    \/ \E e \in Emails : HandleRevokeInvitation(e) \/ ExpireInvitation(e)
    \/ CleanupExpiredInvitations
    \/ \E t \in 1 .. MaxTokens, u \in Users : HandleAcceptInvitation(t, u)

ConsumeStep(p) ==
    \/ ReadQuota(p) \/ ReadUsage(p) \/ Enforce(p) \/ Serve(p) \/ CountFirst(p)
    \/ IncrementModules(p) \/ IncrementVersions(p) \/ IncrementStorage(p)
    \/ IncrementCompileJobs(p) \/ IncrementAPIRequests(p)

ConsumeNext ==
    \/ \E p \in Procs : OrgContextMiddleware(p) \/ ConsumeStep(p) \/ IncrementLost(p)
    \/ UtcMonth \/ LocalMonth \/ HourPasses
QuotaNext == ConsumeNext \/ \E limit \in Custom : HandleUpdateQuotas(limit)

-----------------------------------------------------------------------------
\* The check and the count of a request are apart, so that goroutines that
\* checked together all create: on one usage row the quota is overrun by at
\* most the other goroutines, the increments that failed and the requests
\* let through because no quota was found, also when the
\* quota is lowered, the month changes or the server's clock disagrees with
\* the database about the month.  pkg/middleware/quota.go:107
OverrunBounded ==
    \A k \in Periods : made[k] <= peak + (Cardinality(Procs) - 1) + lost

\* An organization acknowledged with 201 has its quotas and a usage row: the
\* failure of one of the later statements is never answered as success.
\* pkg/orgs/service.go:56
AckedIsComplete == acked => org # NoRow /\ quota # NoRow /\ \E k \in Periods : usage[k] # NoRow

\* However often an address is invited again, and whoever presents which of
\* its links, a row of org_invitations makes at most one member.
\* pkg/orgs/members.go:262
OneMemberPerInvitation == \A i \in 1 .. MaxTokens : Cardinality(admitted[i]) <= 1

\* The quota check of a request ends: GetUsage calls itself until the row of
\* the month exists, which the server's clock must reach.
\* pkg/orgs/service.go:371
CheckEnds == \A p \in Procs : At(p, "consume", "usage") ~> ~At(p, "consume", "usage")
=============================================================================
