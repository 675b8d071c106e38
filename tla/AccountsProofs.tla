--------------------------- MODULE AccountsProofs ---------------------------
(***************************************************************************)
(* Organizations and billing, for any number of goroutines, users,         *)
(* addresses, tiers and months, and with the requests of every handler     *)
(* side by side: how far a quota can be overrun, what an acknowledged      *)
(* organization has, whom an invitation lets in, and when the quotas are   *)
(* those of the plan; and the two rate limiters, for any rate, burst,      *)
(* window and number of requests: how many requests they let through.      *)
(***************************************************************************)
EXTENDS Billing, RateLimit, FiniteSetTheorems, WellFoundedInduction, TLAPS

\* An organization that is not there yet, or was made; and every handler.
AccountsInit == (Unfounded \/ \E used \in Nat : Founded(used)) /\ Unused /\ BillingInit
AccountsNext ==
    \/ BillingNext \/ PaymentNext
    \/ (CreateNext \/ ReadNext \/ MemberNext \/ ConsumeNext) /\ UNCHANGED billVars
accountVars == <<orgVars, billVars>>

-----------------------------------------------------------------------------
(* Types.                                                                  *)
CreateJobs ==
    [op : {"create"}, step : {"insert", "quotas", "usage", "member"}, user : Users,
     tier : Tiers \cup {"none"}]
ConsumeJobs == [op : {"consume"}, step : {"quota", "usage", "serve", "count"}, limit : Nat, row : Periods]
BillOps == {"subscribe", "replan", "cancel"}
BillJobs == [op : BillOps, step : {"sub", "quotas", "end"}, tier : Tiers \cup {"none"}, atEnd : BOOLEAN]
JobFits(w) ==
    /\ w.op \in {"idle", "create", "consume"} \cup BillOps
    /\ w.op = "create" => w \in CreateJobs
    /\ w.op = "consume" => w \in ConsumeJobs /\ w.limit <= peak
    /\ w.op \in BillOps => w \in BillJobs
    /\ w.op = "subscribe" => w.tier \in Tiers
    /\ w.op = "cancel" => w.tier = "small"
RowsType ==
    /\ quota \in Nat \cup {NoRow} /\ peak \in Nat
    /\ quota # NoRow => quota <= peak
    /\ quota = NoRow => peak = 0
    /\ usage \in [Periods -> Nat \cup {NoRow}]
    /\ local \in Periods /\ utc \in Nat
JobsType == job = [p \in Procs |-> job[p]] /\ \A p \in Procs : JobFits(job[p])

-----------------------------------------------------------------------------
(* CreateOrganization.                                                     *)
CreateAt(p, steps) == job[p].op = "create" /\ job[p].step \in steps
CreateInv ==
    /\ \A p \in Procs :
         /\ CreateAt(p, {"quotas", "usage", "member"}) => org # NoRow
         /\ CreateAt(p, {"quotas"}) => quota = NoRow
         /\ CreateAt(p, {"usage", "member"}) => quota # NoRow
         /\ CreateAt(p, {"member"}) => \E k \in Periods : usage[k] # NoRow
    /\ \A p, q \in Procs : CreateAt(p, {"quotas", "usage", "member"})
                           /\ CreateAt(q, {"quotas", "usage", "member"}) => p = q
    /\ org = NoRow => quota = NoRow
    /\ AckedIsComplete

-----------------------------------------------------------------------------
(* Quotas.                                                                 *)

\* versions and api are counted by rows of their own.
Own == subject \in {"versions", "api"}
Consuming(w) == w.op = "consume" /\ w.step \in {"serve", "count"}
InStep(step, k) == {p \in Procs : job[p].op = "consume" /\ job[p].step = step /\ job[p].row = k}
\* What is made and what will be made stays below the quota and the other
\* goroutines: a row that may be checked again counts all but what is yet to
\* be counted or was lost, and a row that is not there stands for nothing.
OverrunInv ==
    /\ made \in [Periods -> Nat] /\ lost \in Nat /\ subject \in Resources
    /\ \A k \in Periods :
         made[k] + Cardinality(InStep("serve", k)) <= peak + (Cardinality(Procs) - 1) + lost
    /\ ~Own => \A k \in Periods :
         /\ usage[k] # NoRow /\ k >= utc =>
              made[k] <= usage[k] + Cardinality(InStep("count", k)) + lost
         /\ usage[k] = NoRow => made[k] = 0 /\ InStep("serve", k) = {} /\ InStep("count", k) = {}

-----------------------------------------------------------------------------
(* Plans.                                                                  *)
Planned == GetDefaultQuotas(IF sub.status = "canceled" THEN "small" ELSE sub.plan)
\* Without a reason to differ, one request at a time changes the plan, and the
\* quotas are those of the plan but for its second half.
PlanInv ==
    /\ sub \in Subscriptions \cup {NoRow}
    /\ drift = {} =>
         /\ \A p, q \in Procs : Billed(p) /\ Billed(q) => p = q
         /\ \A p \in Procs : Billed(p) /\ job[p].step = "quotas" /\ Subscribed =>
                                GetDefaultQuotas(job[p].tier) = Planned
         /\ Subscribed /\ (\A p \in Procs : Billed(p) => job[p].step # "quotas") => quota = Planned

-----------------------------------------------------------------------------
(* Invitations.                                                            *)
\* A row that is not accepted has let nobody in; ids and tokens are not reused.
InviteInv ==
    /\ tokens \in Nat /\ tokens <= MaxTokens /\ invites \in [Emails -> InviteRows \cup {NoRow}]
    /\ admitted \in [1 .. MaxTokens -> SUBSET Users]
    /\ \A e \in Emails : invites[e] # NoRow =>
         /\ invites[e].id \in 1 .. tokens /\ invites[e].token \in 1 .. tokens
         /\ ~invites[e].accepted => admitted[invites[e].id] = {}
    /\ \A e, f \in Emails : invites[e] # NoRow /\ invites[f] # NoRow /\ e # f =>
         invites[e].id # invites[f].id /\ invites[e].token # invites[f].token
    /\ \A i \in 1 .. MaxTokens : i > tokens => admitted[i] = {}
    /\ OneMemberPerInvitation

AccountsInv ==
    /\ RowsType /\ JobsType /\ CreateInv /\ OverrunInv /\ PlanInv /\ InviteInv

-----------------------------------------------------------------------------
(* What a step owes each part.                                             *)
LEMMA ProcsCounted ==
    /\ IsFiniteSet(Procs) /\ Cardinality(Procs) \in Nat /\ Cardinality(Procs) >= 1
<1>1. IsFiniteSet(Procs) /\ Procs # {} /\ Cardinality(Procs) \in Nat
  BY OrganizationsAssumption, FS_CardinalityType
<1>2. Cardinality(Procs) # 0
  BY <1>1, FS_EmptySet
<1> QED
  BY <1>1, <1>2

LEMMA InStepCounted ==
    ASSUME NEW step, NEW k
    PROVE  /\ IsFiniteSet(InStep(step, k)) /\ Cardinality(InStep(step, k)) \in Nat
           /\ Cardinality(InStep(step, k)) <= Cardinality(Procs)
BY ProcsCounted, FS_Subset, FS_CardinalityType DEF InStep

LEMMA DefaultQuota == ASSUME NEW tier PROVE GetDefaultQuotas(tier) \in Nat
BY OrganizationsAssumption DEF GetDefaultQuotas

\* One goroutine's record is replaced.
LEMMA JobTurn ==
    ASSUME JobsType, RowsType, peak' \in Nat, peak' >= peak, NEW p \in Procs, NEW w,
           job' = [job EXCEPT ![p] = w], JobFits(w)'
    PROVE  /\ JobsType' /\ job'[p] = w
           /\ \A q \in Procs \ {p} : job'[q] = job[q]
<1>1. /\ job' = [q \in Procs |-> job'[q]] /\ job'[p] = w /\ \A q \in Procs \ {p} : job'[q] = job[q]
  BY DEF JobsType
<1>2. ASSUME NEW q \in Procs PROVE JobFits(job[q])'
  <2>1. CASE q = p
    BY <1>1, <2>1 DEF JobFits
  <2>2. CASE q # p
    <3>1. JobFits(job[q]) /\ job'[q] = job[q]
      BY <1>1, <2>2 DEF JobsType
    <3>2. job[q].op = "consume" => job[q].limit \in Nat
      BY <3>1 DEF JobFits, ConsumeJobs
    <3> QED
      BY <3>1, <3>2 DEF JobFits, RowsType
  <2> QED
    BY <2>1, <2>2
<1> QED
  BY <1>1, <1>2 DEF JobsType

LEMMA JobStands ==
    ASSUME JobsType, RowsType, peak' \in Nat, peak' >= peak, UNCHANGED job
    PROVE  JobsType'
<1> SUFFICES ASSUME NEW q \in Procs PROVE JobFits(job[q])'
  BY DEF JobsType
<1>1. JobFits(job[q]) /\ job'[q] = job[q]
  BY DEF JobsType
<1>2. job[q].op = "consume" => job[q].limit \in Nat
  BY <1>1 DEF JobFits, ConsumeJobs
<1> QED
  BY <1>1, <1>2 DEF JobFits, RowsType

LEMMA RowsKeep ==
    ASSUME RowsType, UNCHANGED <<quota, peak, local>>, utc' \in Nat,
           usage' \in [Periods -> Nat \cup {NoRow}]
    PROVE  RowsType' /\ peak' \in Nat /\ peak' >= peak
BY DEF RowsType

LEMMA UsageRow ==
    ASSUME RowsType, initializeUsagePeriod
    PROVE  /\ usage' \in [Periods -> Nat \cup {NoRow}] /\ usage'[local] # NoRow
           /\ \A k \in Periods : usage'[k] = usage[k] \/ (usage[k] = NoRow /\ usage'[k] = 0)
BY OrganizationsAssumption DEF RowsType, initializeUsagePeriod

\* A goroutine that is not creating the organization, before or after.
LEMMA CreateTurn ==
    ASSUME CreateInv, JobsType, NEW p \in Procs, NEW w, job' = [job EXCEPT ![p] = w],
           w.op = "create" => w.step = "insert", org' = NoRow <=> org = NoRow,
           quota' = NoRow <=> quota = NoRow, UNCHANGED acked,
           \A k \in Periods : usage[k] # NoRow => usage'[k] # NoRow
    PROVE  CreateInv'
<1>1. job'[p] = w /\ \A q \in Procs \ {p} : job'[q] = job[q]
  BY DEF JobsType
<1>2. \A q \in Procs : ~CreateAt(q, {"quotas", "usage", "member"})' \/ (q # p /\ job'[q] = job[q])
  BY <1>1 DEF CreateAt
<1> QED
  BY <1>2 DEF CreateInv, CreateAt, AckedIsComplete

LEMMA CreateStands ==
    ASSUME CreateInv, UNCHANGED job, org' = NoRow <=> org = NoRow,
           quota' = NoRow <=> quota = NoRow, UNCHANGED acked,
           \A k \in Periods : usage[k] # NoRow => usage'[k] # NoRow
    PROVE  CreateInv'
BY DEF CreateInv, CreateAt, AckedIsComplete

\* A goroutine that has nothing to do with the plan.
LEMMA PlanTurn ==
    ASSUME PlanInv, JobsType, NEW p \in Procs, NEW w, job' = [job EXCEPT ![p] = w],
           w.op \notin BillOps, ~Billed(p), UNCHANGED <<sub, drift, quota>>
    PROVE  PlanInv'
<1>1. job'[p] = w /\ \A q \in Procs \ {p} : job'[q] = job[q]
  BY DEF JobsType
<1>2. \A q \in Procs : /\ Billed(q)' <=> Billed(q)
                       /\ Billed(q) => job'[q] = job[q]
  BY <1>1 DEF Billed, BillOps
<1>3. (Subscribed' <=> Subscribed) /\ Planned' = Planned
  BY DEF Subscribed, Planned, GetDefaultQuotas
<1> QED
  BY <1>2, <1>3 DEF PlanInv

LEMMA PlanStands ==
    ASSUME PlanInv, UNCHANGED <<sub, drift, quota, job>>
    PROVE  PlanInv'
BY DEF PlanInv, Billed, Subscribed, Planned, GetDefaultQuotas

LEMMA InviteStands ==
    ASSUME InviteInv, UNCHANGED <<invites, tokens, admitted>>
    PROVE  InviteInv'
BY DEF InviteInv, OneMemberPerInvitation

\* The goroutines that serve and count are the same; the quota may rise, a
\* month pass and a row of the month be made.
LEMMA OverrunKeeps ==
    ASSUME OverrunInv, RowsType, RowsType', UNCHANGED <<made, subject>>, lost' \in Nat, lost' >= lost,
           peak' >= peak, utc' >= utc,
           \A k \in Periods : usage'[k] = usage[k] \/ (usage[k] = NoRow /\ usage'[k] = 0),
           \A step \in {"serve", "count"}, k \in Periods : InStep(step, k)' = InStep(step, k)
    PROVE  OverrunInv'
<1>1. made' \in [Periods -> Nat] /\ subject' \in Resources /\ (Own' <=> Own)
  BY DEF OverrunInv, Own
<1>2. ASSUME NEW k \in Periods
      PROVE  made'[k] + Cardinality(InStep("serve", k)') <= peak' + (Cardinality(Procs) - 1) + lost'
  <2>1. /\ made[k] + Cardinality(InStep("serve", k)) <= peak + (Cardinality(Procs) - 1) + lost
        /\ made[k] \in Nat /\ peak \in Nat /\ peak' \in Nat /\ lost \in Nat
    BY DEF OverrunInv, RowsType
  <2>2. InStep("serve", k)' = InStep("serve", k) /\ made'[k] = made[k]
    OBVIOUS
  <2> QED
    BY <2>1, <2>2, InStepCounted, ProcsCounted
<1>3. ASSUME ~Own, NEW k \in Periods, usage'[k] # NoRow, k >= utc'
      PROVE  made'[k] <= usage'[k] + Cardinality(InStep("count", k)') + lost'
  <2>1. /\ usage[k] # NoRow /\ k >= utc =>
             made[k] <= usage[k] + Cardinality(InStep("count", k)) + lost
        /\ usage[k] = NoRow => made[k] = 0
    BY <1>3 DEF OverrunInv
  <2>2. /\ made[k] \in Nat /\ lost \in Nat /\ utc \in Nat /\ utc' \in Nat /\ k \in Nat
        /\ usage[k] \in Nat \cup {NoRow} /\ usage'[k] \in Nat
    BY <1>3 DEF OverrunInv, RowsType, Periods
  <2>3. InStep("count", k)' = InStep("count", k) /\ made'[k] = made[k] /\ k >= utc
    BY <1>3, <2>2
  <2> QED
    BY <1>3, <2>1, <2>2, <2>3, InStepCounted
<1>4. ASSUME ~Own, NEW k \in Periods, usage'[k] = NoRow
      PROVE  made'[k] = 0 /\ InStep("serve", k)' = {} /\ InStep("count", k)' = {}
  BY <1>4, OrganizationsAssumption DEF OverrunInv
<1> QED
  BY <1>1, <1>2, <1>3, <1>4 DEF OverrunInv

LEMMA InStepTurn ==
    ASSUME JobsType, NEW p \in Procs, NEW w, job' = [job EXCEPT ![p] = w],
           ~Consuming(w), ~Consuming(job[p])
    PROVE  \A step \in {"serve", "count"}, k \in Periods : InStep(step, k)' = InStep(step, k)
<1>1. job'[p] = w /\ \A q \in Procs \ {p} : job'[q] = job[q]
  BY DEF JobsType
<1> QED
  BY <1>1 DEF InStep, Consuming

LEMMA InStepStands ==
    ASSUME UNCHANGED job
    PROVE  \A step \in {"serve", "count"}, k \in Periods : InStep(step, k)' = InStep(step, k)
BY DEF InStep

-----------------------------------------------------------------------------
(* The steps, by what they write.                                          *)
People == UNCHANGED <<invites, tokens, admitted>>
Counters == UNCHANGED <<made, subject, lost>>
Plan == UNCHANGED <<sub, drift>>

LEMMA Frames ==
    /\ UNCHANGED tenancy => UNCHANGED <<org, quota, usage, peak, acked>>
    /\ UNCHANGED people => People
    /\ UNCHANGED clock => UNCHANGED <<utc, local>>
    /\ UNCHANGED consumption => Counters
    /\ UNCHANGED billVars => Plan
BY DEF tenancy, people, clock, consumption, billVars, People, Counters, Plan

\* No goroutine moves: the organization may be deleted, a row of the month made.
LEMMA AccountsStill ==
    ASSUME AccountsInv, UNCHANGED <<quota, peak, acked, local, job>>, org' = NoRow <=> org = NoRow,
           utc' \in Nat, utc' >= utc, UNCHANGED usage \/ initializeUsagePeriod, Counters, Plan, InviteInv'
    PROVE  AccountsInv'
<1>1. /\ usage' \in [Periods -> Nat \cup {NoRow}]
      /\ \A k \in Periods : usage'[k] = usage[k] \/ (usage[k] = NoRow /\ usage'[k] = 0)
  BY UsageRow DEF AccountsInv, RowsType
<1>2. \A k \in Periods : usage[k] # NoRow => usage'[k] # NoRow
  BY <1>1
<1>3. RowsType' /\ peak' \in Nat /\ peak' >= peak
  BY <1>1, RowsKeep DEF AccountsInv
<1>4. JobsType' /\ CreateInv' /\ PlanInv'
  BY <1>2, <1>3, JobStands, CreateStands, PlanStands DEF AccountsInv, Plan
<1>5. lost' \in Nat /\ lost' >= lost /\ UNCHANGED <<made, subject>>
  BY DEF AccountsInv, OverrunInv, Counters
<1>6. OverrunInv'
  BY <1>1, <1>3, <1>5, InStepStands, OverrunKeeps DEF AccountsInv
<1> QED
  BY <1>3, <1>4, <1>6 DEF AccountsInv

LEMMA AccountsRest ==
    ASSUME AccountsInv, UNCHANGED <<org, quota, usage, peak, acked>>, UNCHANGED <<utc, local>>,
           UNCHANGED job, Counters, Plan, People
    PROVE  AccountsInv'
<1>1. InviteInv' /\ utc' \in Nat /\ utc' >= utc
  BY InviteStands DEF AccountsInv, RowsType, People
<1> QED
  BY <1>1, AccountsStill

\* Requests that only read, and members who come and go.
LEMMA AccountsReads ==
    ASSUME AccountsInv, ReadNext, UNCHANGED billVars
    PROVE  AccountsInv'
<1>1. CASE UNCHANGED <<tenancy, people>> /\ UNCHANGED <<clock, consumption, job>>
  <2>1. UNCHANGED tenancy /\ UNCHANGED people /\ UNCHANGED clock /\ UNCHANGED consumption /\ UNCHANGED job
    BY <1>1
  <2> QED
    BY <2>1, Frames, AccountsRest
<1>2. CASE HandleDeleteOrganization
  <2>1. /\ UNCHANGED <<quota, usage, peak, acked, people>> /\ UNCHANGED <<clock, consumption, job>>
        /\ DeleteOrganization
    BY <1>2 DEF HandleDeleteOrganization, Unchanged
  <2>2. UNCHANGED people /\ UNCHANGED clock /\ UNCHANGED consumption /\ UNCHANGED job
    BY <2>1
  <2>3. People /\ Counters /\ Plan /\ UNCHANGED <<utc, local>>
    BY <2>2, Frames
  <2>4. org' = NoRow <=> org = NoRow
    BY <2>1, OrganizationsAssumption DEF DeleteOrganization
  <2>5. InviteInv' /\ utc' \in Nat /\ utc' >= utc
    BY <2>3, InviteStands DEF AccountsInv, RowsType, People
  <2> QED
    BY <2>1, <2>3, <2>4, <2>5, AccountsStill
<1>3. CASE HandleGetUsage
  <2>1. /\ UNCHANGED <<org, quota, peak, acked, people>> /\ UNCHANGED <<clock, consumption, job>>
        /\ UNCHANGED usage \/ initializeUsagePeriod
    BY <1>3 DEF HandleGetUsage, Unchanged
  <2>2. UNCHANGED people /\ UNCHANGED clock /\ UNCHANGED consumption /\ UNCHANGED job
    BY <2>1
  <2>3. People /\ Counters /\ Plan /\ UNCHANGED <<utc, local>>
    BY <2>2, Frames
  <2>4. InviteInv' /\ utc' \in Nat /\ utc' >= utc
    BY <2>3, InviteStands DEF AccountsInv, RowsType, People
  <2> QED
    BY <2>1, <2>3, <2>4, AccountsStill
<1> QED
  BY <1>1, <1>2, <1>3
  DEF ReadNext, HandleGetOrganization, HandleUpdateOrganization, HandleGetQuotas, HandleListMembers,
      HandleListInvitations, HandleListOrganizations, HandleGetUsageHistory, Unchanged

-----------------------------------------------------------------------------
(* Members and invitations.                                                *)
LEMMA InviteCreate ==
    ASSUME InviteInv, NEW e \in Emails, NEW role \in Roles, tokens < MaxTokens,
           CreateInvitation(e, role), UNCHANGED admitted
    PROVE  InviteInv'
<1>1. PICK t \in Nat : t = tokens + 1
  BY DEF InviteInv
<1>2. PICK row : row = IF invites[e] = NoRow
         THEN [id |-> t, token |-> t, role |-> role, expired |-> FALSE, accepted |-> FALSE]
         ELSE [invites[e] EXCEPT !.token = t, !.expired = FALSE]
  OBVIOUS
<1>3. tokens' = t /\ invites' = [invites EXCEPT ![e] = row]
  BY <1>1, <1>2 DEF CreateInvitation
<1>4. tokens \in Nat /\ t \in 1 .. MaxTokens /\ t = tokens + 1 /\ MaxTokens \in Nat
  BY <1>1, OrganizationsAssumption DEF InviteInv
<1>5. /\ row \in InviteRows /\ row.token = t /\ row.id \in 1 .. t
      /\ invites[e] = NoRow => row.id = t /\ ~row.accepted
      /\ invites[e] # NoRow => row.id = invites[e].id /\ row.accepted = invites[e].accepted
  <2>1. CASE invites[e] = NoRow
    <3>1. row = [id |-> t, token |-> t, role |-> role, expired |-> FALSE, accepted |-> FALSE]
      BY <1>2, <2>1
    <3> QED
      BY <1>4, <2>1, <3>1 DEF InviteRows
  <2>2. CASE invites[e] # NoRow
    <3>1. row = [invites[e] EXCEPT !.token = t, !.expired = FALSE]
      BY <1>2, <2>2
    <3>2. invites[e] \in InviteRows /\ invites[e].id \in 1 .. tokens
      BY <2>2 DEF InviteInv
    <3>3. row \in InviteRows /\ row.token = t /\ row.id = invites[e].id /\ row.accepted = invites[e].accepted
      BY <3>1, <3>2 DEF InviteRows
    <3> QED
      BY <1>4, <2>2, <3>2, <3>3
  <2> QED
    BY <2>1, <2>2
<1>6. /\ invites'[e] = row /\ \A f \in Emails \ {e} : invites'[f] = invites[f]
      /\ invites' \in [Emails -> InviteRows \cup {NoRow}]
  BY <1>3, <1>5 DEF InviteInv
<1>7. ASSUME NEW f \in Emails, invites'[f] # NoRow
      PROVE  /\ invites'[f].id \in 1 .. tokens' /\ invites'[f].token \in 1 .. tokens'
             /\ ~invites'[f].accepted => admitted'[invites'[f].id] = {}
  <2>1. CASE f = e
    <3>1. ~row.accepted => admitted[row.id] = {}
      BY <1>4, <1>5 DEF InviteInv
    <3> QED
      BY <1>3, <1>4, <1>5, <1>6, <2>1, <3>1
  <2>2. CASE f # e
    BY <1>3, <1>4, <1>6, <1>7, <2>2 DEF InviteInv
  <2> QED
    BY <2>1, <2>2
<1>8. ASSUME NEW f \in Emails, f # e, invites[f] # NoRow
      PROVE  invites[f].id # row.id /\ invites[f].token # row.token
  <2>1. invites[f].id \in 1 .. tokens /\ invites[f].token \in 1 .. tokens
    BY <1>8 DEF InviteInv
  <2>2. invites[e] # NoRow => invites[f].id # invites[e].id
    BY <1>8 DEF InviteInv
  <2> QED
    BY <1>4, <1>5, <2>1, <2>2
<1>9. ASSUME NEW f \in Emails, NEW g \in Emails, invites'[f] # NoRow, invites'[g] # NoRow, f # g
      PROVE  invites'[f].id # invites'[g].id /\ invites'[f].token # invites'[g].token
  BY <1>6, <1>8, <1>9 DEF InviteInv
<1>10. \A i \in 1 .. MaxTokens : i > tokens' => admitted'[i] = {}
  BY <1>3, <1>4 DEF InviteInv
<1>11. OneMemberPerInvitation'
  BY DEF InviteInv, OneMemberPerInvitation
<1> QED
  BY <1>3, <1>4, <1>6, <1>7, <1>9, <1>10, <1>11 DEF InviteInv

\* Rows that go, or expire.
LEMMA InviteShrinks ==
    ASSUME InviteInv, invites' \in [Emails -> InviteRows \cup {NoRow}], UNCHANGED <<tokens, admitted>>,
           \A e \in Emails : invites'[e] # NoRow =>
              /\ invites[e] # NoRow /\ invites'[e].id = invites[e].id
              /\ invites'[e].token = invites[e].token /\ invites'[e].accepted = invites[e].accepted
    PROVE  InviteInv'
BY DEF InviteInv, OneMemberPerInvitation

LEMMA InviteAccept ==
    ASSUME InviteInv, NEW t \in 1 .. MaxTokens, NEW u \in Users, AcceptInvitation(t, u), UNCHANGED tokens
    PROVE  InviteInv'
<1>1. PICK found : found = {e \in Emails : invites[e] # NoRow /\ invites[e].token = t}
  OBVIOUS
<1>2. CASE UNCHANGED <<invites, admitted>>
  BY <1>2, InviteStands
<1>3. CASE ~UNCHANGED <<invites, admitted>>
  <2>1. PICK a \in found : Acceptable(a)
    BY <1>1, <1>3 DEF AcceptInvitation
  <2>2. PICK e \in found :
         /\ invites' = [invites EXCEPT ![e].accepted = TRUE]
         /\ admitted' = [admitted EXCEPT ![invites[e].id] =
                            IF members[u] = NoRow THEN @ \cup {u} ELSE @]
    BY <1>1, <1>3 DEF AcceptInvitation
  <2>3. e = a /\ e \in Emails /\ invites[e] # NoRow /\ ~invites[e].accepted
    BY <1>1, <2>1 DEF InviteInv, Acceptable
  <2>4. PICK i : i = invites[e].id
    OBVIOUS
  <2>5. /\ i \in 1 .. MaxTokens /\ admitted[i] = {} /\ invites[e] \in InviteRows
        /\ tokens \in Nat /\ MaxTokens \in Nat /\ tokens <= MaxTokens /\ i <= tokens
    BY <2>3, <2>4, OrganizationsAssumption DEF InviteInv
  <2>6. PICK row : row = [invites[e] EXCEPT !.accepted = TRUE]
    OBVIOUS
  <2>7. /\ row \in InviteRows /\ row.id = i /\ row.token = invites[e].token /\ row.accepted = TRUE
    BY <2>4, <2>5, <2>6 DEF InviteRows
  <2>8. /\ invites' = [invites EXCEPT ![e] = row] /\ invites'[e] = row
        /\ \A f \in Emails \ {e} : invites'[f] = invites[f]
    BY <2>2, <2>3, <2>6 DEF InviteInv
  <2>9. invites' \in [Emails -> InviteRows \cup {NoRow}]
    BY <2>7, <2>8 DEF InviteInv
  <2>10. /\ admitted'[i] \in SUBSET {u} /\ DOMAIN admitted' = 1 .. MaxTokens
         /\ \A j \in 1 .. MaxTokens : j # i => admitted'[j] = admitted[j]
    BY <2>2, <2>4, <2>5 DEF InviteInv
  <2>11. admitted' \in [1 .. MaxTokens -> SUBSET Users]
    <3>1. admitted' = [j \in 1 .. MaxTokens |-> admitted'[j]]
      BY <2>2, <2>10 DEF InviteInv
    <3> QED
      BY <2>10, <3>1 DEF InviteInv
  <2>12. ASSUME NEW j \in 1 .. MaxTokens PROVE Cardinality(admitted'[j]) <= 1
    <3>1. CASE j = i
      <4>1. admitted'[i] = {} \/ admitted'[i] = {u}
        BY <2>10
      <4>2. Cardinality({}) = 0 /\ Cardinality({u}) = 1
        BY FS_EmptySet, FS_Singleton
      <4> QED
        BY <3>1, <4>1, <4>2
    <3>2. CASE j # i
      BY <2>10, <3>2 DEF InviteInv, OneMemberPerInvitation
    <3> QED
      BY <3>1, <3>2
  <2>13. ASSUME NEW f \in Emails, invites'[f] # NoRow
         PROVE  /\ invites'[f].id \in 1 .. tokens' /\ invites'[f].token \in 1 .. tokens'
                /\ ~invites'[f].accepted => admitted'[invites'[f].id] = {}
    <3>1. CASE f = e
      BY <2>3, <2>4, <2>7, <2>8, <3>1 DEF InviteInv
    <3>2. CASE f # e
      <4>1. invites'[f] = invites[f] /\ invites[f].id # i /\ invites[f].id \in 1 .. MaxTokens
        BY <2>3, <2>4, <2>5, <2>8, <2>13, <3>2 DEF InviteInv
      <4> QED
        BY <2>10, <2>13, <4>1 DEF InviteInv
    <3> QED
      BY <3>1, <3>2
  <2>14. ASSUME NEW f \in Emails, NEW g \in Emails, invites'[f] # NoRow, invites'[g] # NoRow, f # g
         PROVE  invites'[f].id # invites'[g].id /\ invites'[f].token # invites'[g].token
    <3>1. \A h \in Emails : invites'[h] # NoRow =>
            /\ invites[h] # NoRow /\ invites'[h].id = invites[h].id
            /\ invites'[h].token = invites[h].token
      BY <2>3, <2>4, <2>7, <2>8
    <3> QED
      BY <2>14, <3>1 DEF InviteInv
  <2>15. \A j \in 1 .. MaxTokens : j > tokens' => admitted'[j] = {}
    BY <2>5, <2>10 DEF InviteInv
  <2> QED
    BY <2>5, <2>9, <2>11, <2>12, <2>13, <2>14, <2>15 DEF InviteInv, OneMemberPerInvitation
<1> QED
  BY <1>2, <1>3

LEMMA AccountsMembers ==
    ASSUME AccountsInv, MemberNext, UNCHANGED billVars
    PROVE  AccountsInv'
<1> SUFFICES /\ UNCHANGED tenancy /\ UNCHANGED clock /\ UNCHANGED consumption /\ UNCHANGED job
             /\ InviteInv'
  <2>1. /\ UNCHANGED <<org, quota, usage, peak, acked>> /\ UNCHANGED <<utc, local>> /\ Counters /\ Plan
    BY Frames
  <2>2. utc' \in Nat /\ utc' >= utc
    BY <2>1 DEF AccountsInv, RowsType
  <2> QED
    BY <2>1, <2>2, AccountsStill
<1>1. UNCHANGED tenancy /\ UNCHANGED clock /\ UNCHANGED consumption /\ UNCHANGED job
  BY DEF MemberNext, HandleAddMember, HandleUpdateMember, HandleRemoveMember, HandleCreateInvitation,
         HandleRevokeInvitation, ExpireInvitation, CleanupExpiredInvitations, HandleAcceptInvitation,
         Unchanged
<1>2. ASSUME People PROVE InviteInv'
  BY <1>2, InviteStands DEF AccountsInv, People
<1>3. ASSUME NEW e \in Emails, NEW role \in Roles, HandleCreateInvitation(e, role) PROVE InviteInv'
  BY <1>3, InviteCreate DEF HandleCreateInvitation, Unchanged, AccountsInv
<1>4. ASSUME NEW e \in Emails, HandleRevokeInvitation(e) PROVE InviteInv'
  <2>1. UNCHANGED <<tokens, admitted>> /\ (UNCHANGED invites \/ invites' = [invites EXCEPT ![e] = NoRow])
    BY <1>4 DEF HandleRevokeInvitation, RevokeInvitation, Unchanged
  <2>2. /\ invites' \in [Emails -> InviteRows \cup {NoRow}]
        /\ \A f \in Emails : invites'[f] # NoRow => invites[f] # NoRow /\ invites'[f] = invites[f]
    BY <2>1 DEF AccountsInv, InviteInv
  <2> QED
    BY <2>1, <2>2, InviteShrinks DEF AccountsInv
<1>5. ASSUME NEW e \in Emails, ExpireInvitation(e) PROVE InviteInv'
  <2>1. /\ UNCHANGED <<tokens, admitted>> /\ invites[e] # NoRow
        /\ invites' = [invites EXCEPT ![e].expired = TRUE]
    BY <1>5 DEF ExpireInvitation, Unchanged
  <2>2. PICK row : row = [invites[e] EXCEPT !.expired = TRUE]
    OBVIOUS
  <2>3. invites[e] \in InviteRows /\ invites \in [Emails -> InviteRows \cup {NoRow}]
    BY <2>1 DEF AccountsInv, InviteInv
  <2>4. /\ row \in InviteRows /\ row.id = invites[e].id /\ row.token = invites[e].token
        /\ row.accepted = invites[e].accepted
    BY <2>2, <2>3 DEF InviteRows
  <2>5. /\ invites' = [invites EXCEPT ![e] = row] /\ invites'[e] = row
        /\ \A f \in Emails \ {e} : invites'[f] = invites[f]
    BY <2>1, <2>2, <2>3
  <2>6. invites' \in [Emails -> InviteRows \cup {NoRow}]
    BY <2>3, <2>4, <2>5
  <2> QED
    BY <2>1, <2>4, <2>5, <2>6, InviteShrinks DEF AccountsInv
<1>6. ASSUME CleanupExpiredInvitations PROVE InviteInv'
  <2>1. /\ UNCHANGED <<tokens, admitted>>
        /\ \A f \in Emails : invites'[f] = NoRow \/ invites'[f] = invites[f]
        /\ invites' = [f \in Emails |-> invites'[f]]
    BY <1>6 DEF CleanupExpiredInvitations, Unchanged
  <2>2. invites' \in [Emails -> InviteRows \cup {NoRow}]
    BY <2>1 DEF AccountsInv, InviteInv
  <2>3. \A f \in Emails : invites'[f] # NoRow => invites[f] # NoRow /\ invites'[f] = invites[f]
    BY <2>1
  <2> QED
    BY <2>1, <2>2, <2>3, InviteShrinks DEF AccountsInv
<1>7. ASSUME NEW t \in 1 .. MaxTokens, NEW u \in Users, HandleAcceptInvitation(t, u) PROVE InviteInv'
  BY <1>7, InviteAccept DEF HandleAcceptInvitation, Unchanged, AccountsInv
<1>8. ASSUME \/ \E u \in Users, role \in Roles : HandleAddMember(u, role) \/ HandleUpdateMember(u, role)
             \/ \E u \in Users : HandleRemoveMember(u)
      PROVE  InviteInv'
  BY <1>2, <1>8 DEF HandleAddMember, HandleUpdateMember, HandleRemoveMember, Unchanged, People
<1> QED
  BY <1>1, <1>3, <1>4, <1>5, <1>6, <1>7, <1>8 DEF MemberNext

-----------------------------------------------------------------------------
(* CreateOrganization, step by step.                                       *)
LEMMA IdleFits == Idle.op = "idle" /\ JobFits(Idle)' /\ ~Consuming(Idle)
BY DEF Idle, JobFits, Consuming, BillOps

LEMMA CreateFits ==
    ASSUME JobsType, NEW p \in Procs, job[p].op = "create",
           NEW s \in {"quotas", "usage", "member"}, Goto(p, s)
    PROVE  \E w : /\ job' = [job EXCEPT ![p] = w] /\ JobFits(w)'
                  /\ w.op = "create" /\ w.step = s
<1>1. PICK w : w = [job[p] EXCEPT !.step = s]
  OBVIOUS
<1>2. job[p] \in CreateJobs
  BY DEF JobsType, JobFits
<1>3. w \in CreateJobs /\ w.op = "create" /\ w.step = s
  BY <1>1, <1>2 DEF CreateJobs
<1>4. JobFits(w)'
  BY <1>3 DEF JobFits, BillOps
<1>5. job' = [job EXCEPT ![p] = w]
  BY <1>1 DEF Goto, JobsType
<1> QED
  BY <1>3, <1>4, <1>5

\* A step of a goroutine that creates the organization.
LEMMA CreatingTurn ==
    ASSUME AccountsInv, RowsType', peak' >= peak, NEW p \in Procs, NEW w,
           job' = [job EXCEPT ![p] = w], job[p].op \in {"idle", "create"}, w.op \in {"idle", "create"},
           JobFits(w)', UNCHANGED quota \/ PlanInv',
           \A k \in Periods : usage'[k] = usage[k] \/ (usage[k] = NoRow /\ usage'[k] = 0),
           UNCHANGED utc, Counters, Plan, People, CreateInv'
    PROVE  AccountsInv'
<1>1. JobsType'
  BY JobTurn DEF AccountsInv, RowsType
<1>2. PlanInv'
  <2>1. w.op \notin BillOps /\ ~Billed(p)
    BY DEF BillOps, Billed
  <2> QED
    BY <2>1, PlanTurn DEF AccountsInv, Plan
<1>3. \A step \in {"serve", "count"}, k \in Periods : InStep(step, k)' = InStep(step, k)
  <2>1. ~Consuming(w) /\ ~Consuming(job[p])
    BY DEF Consuming
  <2> QED
    BY <2>1, InStepTurn DEF AccountsInv
<1>4. lost' \in Nat /\ lost' >= lost /\ UNCHANGED <<made, subject>> /\ utc' >= utc
  BY DEF AccountsInv, OverrunInv, Counters, RowsType
<1>5. OverrunInv'
  BY <1>3, <1>4, OverrunKeeps DEF AccountsInv
<1>6. InviteInv'
  BY InviteStands DEF AccountsInv, People
<1> QED
  BY <1>1, <1>2, <1>5, <1>6 DEF AccountsInv

\* The same when no row is written.
LEMMA CreatingWaits ==
    ASSUME AccountsInv, NEW p \in Procs, NEW w, job' = [job EXCEPT ![p] = w],
           job[p].op \in {"idle", "create"}, w.op = "idle" \/ (w.op = "create" /\ w.step = "insert"),
           JobFits(w)', UNCHANGED <<org, quota, usage, peak, acked>>, UNCHANGED <<utc, local>>,
           Counters, Plan, People
    PROVE  AccountsInv'
<1>1. RowsType' /\ peak' >= peak
  BY RowsKeep DEF AccountsInv, RowsType
<1>2. CreateInv'
  BY CreateTurn DEF AccountsInv
<1> QED
  BY <1>1, <1>2, CreatingTurn

LEMMA CreateInsert ==
    ASSUME AccountsInv, NEW p \in Procs, CreateOrganization(p), UNCHANGED billVars
    PROVE  AccountsInv'
<1>1. /\ UNCHANGED <<quota, usage, peak, acked>> /\ UNCHANGED people /\ UNCHANGED clock
      /\ UNCHANGED consumption /\ job[p].op = "create"
  BY DEF CreateOrganization, At
<1>2. People /\ Counters /\ Plan /\ UNCHANGED <<utc, local>>
  BY <1>1, Frames
<1>3. CASE org # NoRow
  <2>1. org' = org /\ job' = [job EXCEPT ![p] = Idle]
    BY <1>3 DEF CreateOrganization, Done
  <2> QED
    BY <1>1, <1>2, <2>1, IdleFits, CreatingWaits
<1>4. CASE org = NoRow
  <2>1. org' = "active" /\ Goto(p, "quotas")
    BY <1>4 DEF CreateOrganization
  <2>2. PICK w : /\ job' = [job EXCEPT ![p] = w] /\ JobFits(w)'
                 /\ w.op = "create" /\ w.step = "quotas"
    BY <1>1, <2>1, CreateFits DEF AccountsInv
  <2>3. job'[p] = w /\ \A q \in Procs \ {p} : job'[q] = job[q]
    BY <2>2 DEF AccountsInv, JobsType
  <2>4. \A q \in Procs : CreateAt(q, {"quotas", "usage", "member"})' => q = p
    BY <1>4, <2>3 DEF AccountsInv, CreateInv, CreateAt
  <2>5. org' # NoRow /\ quota' = NoRow /\ ~acked'
    BY <1>1, <1>4, <2>1, OrganizationsAssumption DEF AccountsInv, CreateInv, AckedIsComplete
  <2>6. CreateAt(p, {"quotas"})' /\ ~CreateAt(p, {"usage", "member"})' /\ ~CreateAt(p, {"member"})'
    BY <2>2, <2>3 DEF CreateAt
  <2>7. CreateInv'
    <3>1. ASSUME NEW q \in Procs, q # p PROVE ~CreateAt(q, {"quotas"})' /\ ~CreateAt(q, {"usage", "member"})'
                                              /\ ~CreateAt(q, {"member"})'
      BY <2>4, <3>1 DEF CreateAt
    <3> QED
      BY <2>4, <2>5, <2>6, <3>1 DEF CreateInv, AckedIsComplete
  <2>8. RowsType' /\ peak' >= peak
    BY <1>1, <1>2, RowsKeep DEF AccountsInv, RowsType
  <2> QED
    BY <1>1, <1>2, <2>2, <2>7, <2>8, CreatingTurn
<1> QED
  BY <1>3, <1>4

LEMMA CreateQuotas ==
    ASSUME AccountsInv, NEW p \in Procs, CreateQuotasStep(p), UNCHANGED billVars
    PROVE  AccountsInv'
<1>1. /\ UNCHANGED <<org, usage, acked>> /\ UNCHANGED people /\ UNCHANGED clock
      /\ UNCHANGED consumption /\ job[p].op = "create" /\ job[p].step = "quotas"
      /\ Goto(p, "usage") /\ createQuotas(job[p].tier)
  BY DEF CreateQuotasStep, At
<1>2. People /\ Counters /\ Plan /\ UNCHANGED <<utc, local>>
  BY <1>1, Frames
<1>3. PICK n \in Nat : quota' = n /\ peak' = n
  BY <1>1, DefaultQuota DEF createQuotas
<1>4. PICK w : /\ job' = [job EXCEPT ![p] = w] /\ JobFits(w)'
               /\ w.op = "create" /\ w.step = "usage"
  BY <1>1, CreateFits DEF AccountsInv
<1>5. job'[p] = w /\ \A q \in Procs \ {p} : job'[q] = job[q]
  BY <1>4 DEF AccountsInv, JobsType
<1>6. quota = NoRow /\ peak = 0 /\ org # NoRow /\ ~acked /\ quota' # NoRow
  BY <1>1, <1>3, OrganizationsAssumption
  DEF AccountsInv, CreateInv, CreateAt, RowsType, AckedIsComplete
<1>7. RowsType' /\ peak' >= peak
  BY <1>1, <1>2, <1>3, <1>6 DEF AccountsInv, RowsType
<1>8. CreateInv'
  <2>1. ASSUME NEW q \in Procs, q # p PROVE ~CreateAt(q, {"quotas", "usage", "member"})'
    BY <1>1, <1>5, <2>1 DEF AccountsInv, CreateInv, CreateAt
  <2>2. \A q \in Procs : ~CreateAt(q, {"quotas"})' /\ ~CreateAt(q, {"member"})'
    BY <1>4, <1>5, <2>1 DEF CreateAt
  <2>3. org' # NoRow /\ ~acked'
    BY <1>1, <1>6
  <2> QED
    BY <1>6, <2>1, <2>2, <2>3 DEF CreateInv, AckedIsComplete
<1>9. PlanInv'
  <2>1. /\ \A q \in Procs : /\ Billed(q)' <=> Billed(q)
                            /\ Billed(q) => job'[q] = job[q]
    BY <1>1, <1>4, <1>5 DEF Billed
  <2>2. (Subscribed' <=> Subscribed) /\ Planned' = Planned /\ sub' = sub /\ drift' = drift
    BY <1>2 DEF Subscribed, Planned, GetDefaultQuotas, Plan
  <2>3. quota # Planned
    BY <1>6, DefaultQuota, OrganizationsAssumption DEF Planned
  <2> QED
    BY <2>1, <2>2, <2>3 DEF AccountsInv, PlanInv
<1> QED
  BY <1>1, <1>2, <1>4, <1>7, <1>8, <1>9, CreatingTurn

LEMMA CreateUsage ==
    ASSUME AccountsInv, NEW p \in Procs, CreateUsageStep(p), UNCHANGED billVars
    PROVE  AccountsInv'
<1>1. /\ UNCHANGED <<org, quota, peak, acked>> /\ UNCHANGED people /\ UNCHANGED clock
      /\ UNCHANGED consumption /\ job[p].op = "create" /\ job[p].step = "usage"
      /\ Goto(p, "member") /\ initializeUsagePeriod
  BY DEF CreateUsageStep, At
<1>2. People /\ Counters /\ Plan /\ UNCHANGED <<utc, local>>
  BY <1>1, Frames
<1>3. PICK w : /\ job' = [job EXCEPT ![p] = w] /\ JobFits(w)'
               /\ w.op = "create" /\ w.step = "member"
  BY <1>1, CreateFits DEF AccountsInv
<1>4. job'[p] = w /\ \A q \in Procs \ {p} : job'[q] = job[q]
  BY <1>3 DEF AccountsInv, JobsType
<1>5. /\ usage' \in [Periods -> Nat \cup {NoRow}] /\ \E k \in Periods : usage'[k] # NoRow
      /\ \A k \in Periods : usage'[k] = usage[k] \/ (usage[k] = NoRow /\ usage'[k] = 0)
  BY <1>1, UsageRow DEF AccountsInv, RowsType
<1>6. RowsType' /\ peak' >= peak
  BY <1>1, <1>2, <1>5, RowsKeep DEF AccountsInv, RowsType
<1>7. quota # NoRow /\ org # NoRow
  BY <1>1 DEF AccountsInv, CreateInv, CreateAt
<1>8. CreateInv'
  <2>1. ASSUME NEW q \in Procs, q # p PROVE ~CreateAt(q, {"quotas", "usage", "member"})'
    BY <1>1, <1>4, <2>1 DEF AccountsInv, CreateInv, CreateAt
  <2>2. \A q \in Procs : ~CreateAt(q, {"quotas"})'
    BY <1>3, <1>4, <2>1 DEF CreateAt
  <2> QED
    BY <1>1, <1>5, <1>7, <2>1, <2>2 DEF CreateInv, AckedIsComplete
<1> QED
  BY <1>1, <1>2, <1>3, <1>5, <1>6, <1>8, CreatingTurn

LEMMA CreateMember ==
    ASSUME AccountsInv, NEW p \in Procs, CreateMemberStep(p), UNCHANGED billVars
    PROVE  AccountsInv'
<1>1. /\ UNCHANGED <<org, quota, usage, peak>> /\ People /\ UNCHANGED clock
      /\ UNCHANGED consumption /\ job[p].op = "create" /\ job[p].step = "member"
      /\ job' = [job EXCEPT ![p] = Idle] /\ (acked' = TRUE \/ UNCHANGED acked)
  BY DEF CreateMemberStep, At, Done, People
<1>2. Counters /\ Plan /\ UNCHANGED <<utc, local>>
  BY <1>1, Frames
<1>3. job'[p] = Idle /\ \A q \in Procs \ {p} : job'[q] = job[q]
  BY <1>1 DEF AccountsInv, JobsType
<1>4. quota # NoRow /\ org # NoRow /\ \E k \in Periods : usage[k] # NoRow
  BY <1>1 DEF AccountsInv, CreateInv, CreateAt
<1>5. RowsType' /\ peak' >= peak
  BY <1>1, <1>2, RowsKeep DEF AccountsInv, RowsType
<1>6. CreateInv'
  <2>1. ASSUME NEW q \in Procs PROVE ~CreateAt(q, {"quotas", "usage", "member"})'
    BY <1>1, <1>3, IdleFits DEF AccountsInv, CreateInv, CreateAt
  <2>2. ASSUME NEW q \in Procs PROVE ~CreateAt(q, {"quotas"})' /\ ~CreateAt(q, {"member"})'
                                     /\ ~CreateAt(q, {"usage", "member"})'
    BY <2>1 DEF CreateAt
  <2> QED
    BY <1>1, <1>4, <2>1, <2>2 DEF CreateInv, AckedIsComplete
<1> QED
  BY <1>1, <1>2, <1>5, <1>6, IdleFits, CreatingTurn

LEMMA AccountsCreates ==
    ASSUME AccountsInv, CreateNext, UNCHANGED billVars
    PROVE  AccountsInv'
<1>1. ASSUME NEW p \in Procs, HandleCreateOrganization(p) PROVE AccountsInv'
  <2>1. PICK u \in Users, tier \in Tiers \cup {"none"} :
          Begin(p, [op |-> "create", step |-> "insert", user |-> u, tier |-> tier])
    BY <1>1 DEF HandleCreateOrganization
  <2>2. PICK w : w = [op |-> "create", step |-> "insert", user |-> u, tier |-> tier]
    OBVIOUS
  <2>3. /\ job[p].op = "idle" /\ job' = [job EXCEPT ![p] = w]
    BY <2>1, <2>2 DEF Begin, Idle
  <2>4. w \in CreateJobs /\ w.op = "create" /\ w.step = "insert"
    BY <2>2 DEF CreateJobs
  <2>5. JobFits(w)'
    BY <2>4 DEF JobFits, BillOps
  <2>6. UNCHANGED tenancy /\ UNCHANGED people /\ UNCHANGED clock /\ UNCHANGED consumption
    BY <1>1 DEF HandleCreateOrganization
  <2> QED
    BY <2>3, <2>4, <2>5, <2>6, Frames, CreatingWaits
<1>2. ASSUME NEW p \in Procs, CreateFails(p) PROVE AccountsInv'
  <2>1. /\ UNCHANGED tenancy /\ UNCHANGED people /\ UNCHANGED clock /\ UNCHANGED consumption
        /\ job[p].op = "create" /\ job' = [job EXCEPT ![p] = Idle]
    BY <1>2 DEF CreateFails, Fails
  <2> QED
    BY <2>1, IdleFits, Frames, CreatingWaits
<1> QED
  BY <1>1, <1>2, CreateInsert, CreateQuotas, CreateUsage, CreateMember DEF CreateNext

-----------------------------------------------------------------------------
(* Requests that consume quota.                                            *)

\* There is a latest row among those of the current months.
LEMMA UsageFound ==
    ASSUME Current # {}
    PROVE  GetUsage \in Periods /\ usage[GetUsage] # NoRow /\ GetUsage >= utc
<1>1. PICK S : S = {MaxPeriod - k : k \in Current}
  OBVIOUS
<1>2. MaxPeriod \in Nat /\ \A k \in Current : k \in Nat /\ MaxPeriod - k \in Nat
  BY OrganizationsAssumption DEF Current, Periods
<1>3. S \in SUBSET Nat /\ S # {}
  BY <1>1, <1>2
<1>4. PICK m \in S : \A n \in S : ~(<<n, m>> \in OpToRel(<, Nat))
  BY <1>3, NatLessThanWellFounded, WFMin
<1>5. \A n \in S : ~(n < m)
  BY <1>3, <1>4 DEF OpToRel
<1>6. PICK k \in Current : m = MaxPeriod - k
  BY <1>1
<1>7. \A j \in Current : j <= k
  <2>1. ASSUME NEW j \in Current PROVE j <= k
    <3>1. ~(MaxPeriod - j < m) /\ j \in Nat /\ k \in Nat
      BY <1>1, <1>2, <1>5
    <3> QED
      BY <1>2, <1>6, <3>1
  <2> QED
    BY <2>1
<1>8. GetUsage \in Current
  BY <1>7 DEF GetUsage, Latest
<1> QED
  BY <1>8 DEF Current

LEMMA InStepEnters ==
    ASSUME NEW step, NEW k, NEW p, p \notin InStep(step, k)
    PROVE  Cardinality(InStep(step, k) \cup {p}) = Cardinality(InStep(step, k)) + 1
BY InStepCounted, FS_AddElement

LEMMA InStepLeaves ==
    ASSUME NEW step, NEW k, NEW p, p \in InStep(step, k)
    PROVE  Cardinality(InStep(step, k) \ {p}) = Cardinality(InStep(step, k)) - 1
BY InStepCounted, FS_RemoveElement

\* A step of a goroutine that consumes quota.
LEMMA ConsumingTurn ==
    ASSUME AccountsInv, UNCHANGED <<org, quota, peak, acked>>, UNCHANGED <<utc, local>>,
           usage' \in [Periods -> Nat \cup {NoRow}],
           \A k \in Periods : usage[k] # NoRow => usage'[k] # NoRow,
           NEW p \in Procs, NEW w, job' = [job EXCEPT ![p] = w],
           job[p].op \in {"idle", "consume"}, w.op \in {"idle", "consume"}, JobFits(w)',
           Plan, People, OverrunInv'
    PROVE  AccountsInv'
<1>1. RowsType' /\ peak' \in Nat /\ peak' >= peak
  BY RowsKeep DEF AccountsInv, RowsType
<1>2. JobsType'
  BY <1>1, JobTurn DEF AccountsInv
<1>3. PlanInv'
  <2>1. w.op \notin BillOps /\ ~Billed(p)
    BY DEF BillOps, Billed
  <2> QED
    BY <2>1, PlanTurn DEF AccountsInv, Plan
<1>4. CreateInv'
  BY CreateTurn DEF AccountsInv
<1>5. InviteInv'
  BY InviteStands DEF AccountsInv, People
<1> QED
  BY <1>1, <1>2, <1>3, <1>4, <1>5 DEF AccountsInv

\* The same before anything is served or counted.
LEMMA ConsumingWaits ==
    ASSUME AccountsInv, UNCHANGED <<org, quota, usage, peak, acked>>, UNCHANGED <<utc, local>>,
           NEW p \in Procs, NEW w, job' = [job EXCEPT ![p] = w],
           job[p].op \in {"idle", "consume"}, w.op \in {"idle", "consume"}, JobFits(w)',
           ~Consuming(job[p]), ~Consuming(w), Plan, People,
           UNCHANGED <<made, subject>>, lost' \in Nat, lost' >= lost
    PROVE  AccountsInv'
<1>1. RowsType' /\ peak' >= peak /\ utc' >= utc /\ usage' \in [Periods -> Nat \cup {NoRow}]
  BY RowsKeep DEF AccountsInv, RowsType
<1>2. \A step \in {"serve", "count"}, k \in Periods : InStep(step, k)' = InStep(step, k)
  BY InStepTurn DEF AccountsInv
<1>3. OverrunInv'
  BY <1>1, <1>2, OverrunKeeps DEF AccountsInv
<1> QED
  BY <1>1, <1>3, ConsumingTurn

LEMMA ConsumeFits ==
    ASSUME NEW w \in ConsumeJobs, w.limit <= peak'
    PROVE  JobFits(w)'
<1>1. w.op = "consume"
  BY DEF ConsumeJobs
<1> QED
  BY <1>1 DEF JobFits, BillOps

LEMMA ConsumeGoes ==
    ASSUME JobsType, NEW p \in Procs, job[p].op = "consume",
           NEW s \in {"quota", "usage", "serve", "count"}, Goto(p, s), UNCHANGED peak
    PROVE  \E w : /\ job' = [job EXCEPT ![p] = w] /\ JobFits(w)'
                  /\ w.op = "consume" /\ w.step = s /\ w.row = job[p].row /\ w.row \in Periods
<1>1. PICK w : w = [job[p] EXCEPT !.step = s]
  OBVIOUS
<1>2. job[p] \in ConsumeJobs /\ job[p].limit <= peak
  BY DEF JobsType, JobFits
<1>3. /\ w \in ConsumeJobs /\ w.op = "consume" /\ w.step = s /\ w.limit = job[p].limit
      /\ w.row = job[p].row /\ w.row \in Periods
  BY <1>1, <1>2 DEF ConsumeJobs
<1>4. JobFits(w)'
  BY <1>2, <1>3, ConsumeFits
<1>5. job' = [job EXCEPT ![p] = w]
  BY <1>1 DEF Goto, JobsType
<1> QED
  BY <1>3, <1>4, <1>5

\* Who may serve on the row k once p may: the claim of a check.
LEMMA ServeEnters ==
    ASSUME AccountsInv, NEW p \in Procs, NEW w, job' = [job EXCEPT ![p] = w], JobFits(w)',
           job[p].op = "consume", job[p].step \in {"quota", "usage"},
           w.op = "consume", w.step = "serve", w.row \in Periods,
           UNCHANGED <<org, quota, usage, peak, acked>>, UNCHANGED <<utc, local>>, Plan, People,
           UNCHANGED <<made, subject>>, lost' \in Nat, lost' >= lost,
           ~Own => usage[w.row] # NoRow,
           made[w.row] + Cardinality(InStep("serve", w.row) \cup {p})
                <= peak + (Cardinality(Procs) - 1) + lost'
    PROVE  AccountsInv'
<1>1. \A k \in Periods : p \notin InStep("serve", k) /\ p \notin InStep("count", k)
  BY DEF InStep
<1>2. PICK r \in Periods : r = w.row
  OBVIOUS
<1>3. /\ InStep("serve", r)' = InStep("serve", r) \cup {p}
      /\ \A k \in Periods : k # r => InStep("serve", k)' = InStep("serve", k)
      /\ \A k \in Periods : InStep("count", k)' = InStep("count", k)
  <2>1. ASSUME NEW step, NEW k
        PROVE  /\ w.step = step /\ w.row = k => InStep(step, k)' = InStep(step, k) \cup {p}
               /\ ~(w.step = step /\ w.row = k) => InStep(step, k)' = InStep(step, k) \ {p}
    <3>1. job'[p] = w /\ \A q \in Procs \ {p} : job'[q] = job[q]
      BY DEF AccountsInv, JobsType
    <3> QED
      BY <3>1 DEF InStep
  <2>2. InStep("serve", r)' = InStep("serve", r) \cup {p}
    BY <1>2, <2>1
  <2>3. ASSUME NEW k \in Periods, k # r PROVE InStep("serve", k)' = InStep("serve", k)
    <3>1. InStep("serve", k)' = InStep("serve", k) \ {p}
      BY <1>2, <2>1, <2>3
    <3> QED
      BY <1>1, <3>1
  <2>4. ASSUME NEW k \in Periods PROVE InStep("count", k)' = InStep("count", k)
    <3>1. InStep("count", k)' = InStep("count", k) \ {p}
      BY <2>1
    <3> QED
      BY <1>1, <3>1
  <2> QED
    BY <2>2, <2>3, <2>4
<1>4. made' \in [Periods -> Nat] /\ subject' \in Resources /\ (Own' <=> Own) /\ lost \in Nat /\ peak \in Nat
  BY DEF AccountsInv, OverrunInv, Own, RowsType
<1>5. ASSUME NEW k \in Periods
      PROVE  made'[k] + Cardinality(InStep("serve", k)') <= peak' + (Cardinality(Procs) - 1) + lost'
  <2>1. CASE k = r
    BY <1>2, <1>3, <2>1
  <2>2. CASE k # r
    <3>1. InStep("serve", k)' = InStep("serve", k) /\ made[k] \in Nat
          /\ made[k] + Cardinality(InStep("serve", k)) <= peak + (Cardinality(Procs) - 1) + lost
      BY <1>3, <2>2 DEF AccountsInv, OverrunInv
    <3> QED
      BY <1>4, <3>1, InStepCounted, ProcsCounted
  <2> QED
    BY <2>1, <2>2
<1>6. ASSUME ~Own, NEW k \in Periods, usage'[k] # NoRow, k >= utc'
      PROVE  made'[k] <= usage'[k] + Cardinality(InStep("count", k)') + lost'
  <2>1. made[k] <= usage[k] + Cardinality(InStep("count", k)) + lost
    BY <1>6 DEF AccountsInv, OverrunInv
  <2>2. made[k] \in Nat /\ usage[k] \in Nat /\ InStep("count", k)' = InStep("count", k)
    BY <1>3, <1>6 DEF AccountsInv, OverrunInv, RowsType
  <2> QED
    BY <1>4, <2>1, <2>2, InStepCounted
<1>7. ASSUME ~Own, NEW k \in Periods, usage'[k] = NoRow
      PROVE  made'[k] = 0 /\ InStep("serve", k)' = {} /\ InStep("count", k)' = {}
  <2>1. k # r /\ made[k] = 0 /\ InStep("serve", k) = {} /\ InStep("count", k) = {}
    BY <1>2, <1>7 DEF AccountsInv, OverrunInv
  <2> QED
    BY <1>3, <2>1
<1>8. OverrunInv'
  BY <1>4, <1>5, <1>6, <1>7 DEF OverrunInv
<1>9. usage' \in [Periods -> Nat \cup {NoRow}]
  BY DEF AccountsInv, RowsType
<1> QED
  BY <1>8, <1>9, ConsumingTurn

LEMMA ConsumeBegins ==
    ASSUME AccountsInv, NEW p \in Procs, OrgContextMiddleware(p), UNCHANGED billVars
    PROVE  AccountsInv'
<1>1. PICK w : w = [op |-> "consume", step |-> "quota", limit |-> 0, row |-> 0]
  OBVIOUS
<1>2. /\ job[p] = Idle /\ job' = [job EXCEPT ![p] = w] /\ UNCHANGED tenancy /\ UNCHANGED people
      /\ UNCHANGED clock /\ UNCHANGED <<subject, made, lost>>
  BY <1>1 DEF OrgContextMiddleware, Begin
<1>3. w \in ConsumeJobs /\ w.op = "consume" /\ w.step = "quota" /\ w.limit = 0
  BY <1>1, OrganizationsAssumption DEF ConsumeJobs, Periods
<1>4. ~Consuming(w) /\ ~Consuming(job[p]) /\ job[p].op = "idle"
  BY <1>2, <1>3, IdleFits DEF Consuming
<1>5. UNCHANGED <<org, quota, usage, peak, acked>> /\ UNCHANGED <<utc, local>> /\ People /\ Plan
  BY <1>2, Frames
<1>6. JobFits(w)'
  BY <1>3, <1>5, ConsumeFits DEF AccountsInv, RowsType
<1>7. UNCHANGED <<made, subject>> /\ lost' \in Nat /\ lost' >= lost
  BY <1>2 DEF AccountsInv, OverrunInv
<1> QED
  BY <1>2, <1>3, <1>4, <1>5, <1>6, <1>7, ConsumingWaits

LEMMA ConsumeReadsQuota ==
    ASSUME AccountsInv, NEW p \in Procs, ReadQuota(p), UNCHANGED billVars
    PROVE  AccountsInv'
<1>1. /\ UNCHANGED tenancy /\ UNCHANGED people /\ UNCHANGED clock /\ UNCHANGED <<subject, made>>
      /\ job[p].op = "consume" /\ job[p].step = "quota"
      /\ lost' = IF quota = NoRow THEN lost + 1 ELSE lost
  BY DEF ReadQuota, At
<1>2. UNCHANGED <<org, quota, usage, peak, acked>> /\ UNCHANGED <<utc, local>> /\ People /\ Plan
  BY <1>1, Frames
<1>3. job[p] \in ConsumeJobs /\ ~Consuming(job[p]) /\ peak \in Nat
  BY <1>1 DEF AccountsInv, JobsType, JobFits, Consuming, RowsType
<1>4. lost \in Nat /\ lost' \in Nat /\ lost' >= lost /\ (quota = NoRow => lost' = lost + 1)
  BY <1>1 DEF AccountsInv, OverrunInv
<1>5. CASE quota # NoRow
  <2>1. job' = [job EXCEPT ![p].step = "usage", ![p].limit = quota]
    BY <1>5 DEF ReadQuota
  <2>2. PICK w : w = [job[p] EXCEPT !.step = "usage", !.limit = quota]
    OBVIOUS
  <2>3. quota \in Nat /\ quota <= peak
    BY <1>5 DEF AccountsInv, RowsType
  <2>4. w \in ConsumeJobs /\ w.op = "consume" /\ w.step = "usage" /\ w.limit <= peak'
    BY <1>2, <1>3, <2>2, <2>3 DEF ConsumeJobs
  <2>5. job' = [job EXCEPT ![p] = w]
    BY <2>1, <2>2 DEF AccountsInv, JobsType
  <2>6. ~Consuming(w) /\ JobFits(w)'
    BY <2>4, ConsumeFits DEF Consuming
  <2> QED
    BY <1>1, <1>2, <1>3, <1>4, <2>4, <2>5, <2>6, ConsumingWaits
<1>6. CASE quota = NoRow /\ subject = "api"
  <2>1. Goto(p, "serve")
    BY <1>6 DEF ReadQuota
  <2>2. PICK w : /\ job' = [job EXCEPT ![p] = w] /\ JobFits(w)'
                 /\ w.op = "consume" /\ w.step = "serve" /\ w.row \in Periods
    BY <1>1, <1>2, <2>1, ConsumeGoes DEF AccountsInv
  <2>3. PICK r \in Periods : r = w.row
    BY <2>2
  <2>4. p \notin InStep("serve", r)
    BY <1>1 DEF InStep
  <2>5. made[r] + Cardinality(InStep("serve", r)) <= peak + (Cardinality(Procs) - 1) + lost /\ made[r] \in Nat
    BY DEF AccountsInv, OverrunInv
  <2>6. made[r] + Cardinality(InStep("serve", r) \cup {p}) <= peak + (Cardinality(Procs) - 1) + lost'
    BY <1>3, <1>4, <1>6, <2>4, <2>5, InStepEnters, InStepCounted, ProcsCounted
  <2>7. Own
    BY <1>6 DEF Own
  <2> QED
    BY <1>1, <1>2, <1>4, <2>2, <2>3, <2>6, <2>7, ServeEnters
<1>7. CASE quota = NoRow /\ subject # "api"
  <2>1. job' = [job EXCEPT ![p] = Idle]
    BY <1>7 DEF ReadQuota, Done
  <2> QED
    BY <1>1, <1>2, <1>3, <1>4, <2>1, IdleFits, ConsumingWaits
<1> QED
  BY <1>5, <1>6, <1>7

\* A request that is not refused saw less than its limit.
LEMMA NotRefused ==
    ASSUME subject \in Resources, NEW limit \in Nat, Consumed \in Nat, Refusal(limit) = 0
    PROVE  Consumed < limit
<1>1. CASE subject = "modules"
  BY <1>1 DEF Refusal, EnforceModuleQuota, CheckModuleQuota
<1>2. CASE subject = "jobs"
  BY <1>2 DEF Refusal, EnforceCompileJobQuota, CheckCompileJobQuota
<1>3. CASE subject = "versions"
  BY <1>3 DEF Refusal, QuotaCheckMiddleware, CheckVersionQuota
<1>4. CASE subject = "storage"
  BY <1>4 DEF Refusal, QuotaCheckMiddleware, CheckStorageQuota
<1>5. CASE subject = "api"
  BY <1>5 DEF Refusal, QuotaCheckMiddleware, CheckAPIRateLimit
<1> QED
  BY <1>1, <1>2, <1>3, <1>4, <1>5 DEF Resources

\* Those who count on a row, those who serve on it and the one that joins them
\* are different goroutines.
LEMMA ServeAndCount ==
    ASSUME NEW p \in Procs, NEW k, p \notin InStep("serve", k), p \notin InStep("count", k)
    PROVE  Cardinality(InStep("serve", k) \cup {p}) + Cardinality(InStep("count", k)) <= Cardinality(Procs)
<1>1. /\ IsFiniteSet(InStep("serve", k) \cup {p}) /\ IsFiniteSet(InStep("count", k))
  BY InStepCounted, FS_AddElement
<1>2. (InStep("serve", k) \cup {p}) \cap InStep("count", k) = {}
  BY DEF InStep
<1>3. PICK S : S = (InStep("serve", k) \cup {p}) \cup InStep("count", k)
  OBVIOUS
<1>4. Cardinality(S) = Cardinality(InStep("serve", k) \cup {p}) + Cardinality(InStep("count", k)) - 0
  BY <1>1, <1>2, <1>3, FS_Union, FS_EmptySet
<1>5. S \subseteq Procs
  BY <1>3 DEF InStep
<1>6. Cardinality(S) <= Cardinality(Procs)
  BY <1>5, ProcsCounted, FS_Subset
<1> QED
  BY <1>1, <1>4, <1>6, FS_CardinalityType

LEMMA ConsumeChecks ==
    ASSUME AccountsInv, NEW p \in Procs, Enforce(p), UNCHANGED billVars
    PROVE  AccountsInv'
<1>1. /\ UNCHANGED tenancy /\ UNCHANGED people /\ UNCHANGED clock /\ UNCHANGED consumption
      /\ job[p].op = "consume" /\ job[p].step = "usage"
      /\ Own \/ Current # {}
  BY DEF Enforce, At, Own
<1>2. /\ UNCHANGED <<org, quota, usage, peak, acked>> /\ UNCHANGED <<utc, local>>
      /\ People /\ Plan /\ Counters
  BY <1>1, Frames
<1>3. job[p] \in ConsumeJobs /\ job[p].limit <= peak /\ ~Consuming(job[p]) /\ peak \in Nat
  BY <1>1 DEF AccountsInv, JobsType, JobFits, Consuming, RowsType
<1>4. UNCHANGED <<made, subject>> /\ lost \in Nat /\ lost' \in Nat /\ lost' >= lost /\ UNCHANGED lost
  BY <1>2 DEF AccountsInv, OverrunInv, Counters
<1>5. PICK limit \in Nat : limit = job[p].limit
  BY <1>3 DEF ConsumeJobs
<1>6. CASE Refusal(limit) # 0
  <2>1. job' = [job EXCEPT ![p] = Idle]
    BY <1>5, <1>6 DEF Enforce, Done
  <2> QED
    BY <1>1, <1>2, <1>3, <1>4, <2>1, IdleFits, ConsumingWaits
<1>7. CASE Refusal(limit) = 0
  <2>1. PICK r : r = IF subject \in {"versions", "api"} THEN 0 ELSE GetUsage
    OBVIOUS
  <2>2. job' = [job EXCEPT ![p].step = "serve", ![p].row = r]
    BY <1>5, <1>7, <2>1 DEF Enforce
  <2>3. r \in Periods /\ (~Own => r = GetUsage /\ usage[r] # NoRow /\ r >= utc)
    BY <1>1, <2>1, UsageFound, OrganizationsAssumption DEF Own, Periods
  <2>4. PICK w : w = [job[p] EXCEPT !.step = "serve", !.row = r]
    OBVIOUS
  <2>5. w \in ConsumeJobs /\ w.op = "consume" /\ w.step = "serve" /\ w.row = r /\ w.limit = job[p].limit
    BY <1>3, <2>3, <2>4 DEF ConsumeJobs
  <2>6. JobFits(w)'
    BY <1>2, <1>3, <2>5, ConsumeFits
  <2>7. job' = [job EXCEPT ![p] = w]
    BY <2>2, <2>4 DEF AccountsInv, JobsType
  <2>8. p \notin InStep("serve", r) /\ p \notin InStep("count", r)
    BY <1>1 DEF InStep
  <2>9. Cardinality(InStep("serve", r) \cup {p}) = Cardinality(InStep("serve", r)) + 1
    BY <2>8, InStepEnters
  <2>10. Cardinality(InStep("serve", r) \cup {p}) + Cardinality(InStep("count", r)) <= Cardinality(Procs)
    BY <2>8, ServeAndCount
  <2>11. made[r] \in Nat /\ subject \in Resources
    BY <2>3 DEF AccountsInv, OverrunInv
  <2>12. PICK n : n = Consumed
    OBVIOUS
  <2>13. made[r] + Cardinality(InStep("serve", r) \cup {p}) <= peak + (Cardinality(Procs) - 1) + lost'
    <3>1. CASE Own
      <4>1. n = made[r]
        BY <2>1, <2>12, <3>1 DEF Own, Consumed
      <4>2. n < limit
        BY <1>7, <2>11, <2>12, <4>1, NotRefused
      <4> QED
        BY <1>3, <1>4, <1>5, <2>9, <2>10, <2>11, <4>1, <4>2, InStepCounted, ProcsCounted
    <3>2. CASE ~Own
      <4>1. n = usage[r] /\ n \in Nat
        BY <2>3, <2>12, <3>2 DEF Own, Consumed, AccountsInv, RowsType
      <4>2. n < limit
        BY <1>7, <2>11, <2>12, <4>1, NotRefused
      <4>3. made[r] <= usage[r] + Cardinality(InStep("count", r)) + lost
        BY <2>3, <3>2 DEF AccountsInv, OverrunInv
      <4> QED
        BY <1>3, <1>4, <1>5, <2>9, <2>10, <2>11, <4>1, <4>2, <4>3, InStepCounted, ProcsCounted
    <3> QED
      BY <3>1, <3>2
  <2>14. (~Own => usage[w.row] # NoRow) /\ w.row \in Periods
    BY <2>3, <2>5
  <2> QED
    BY <1>1, <1>2, <1>4, <2>5, <2>6, <2>7, <2>13, <2>14, ServeEnters
<1> QED
  BY <1>6, <1>7

LEMMA ConsumeServes ==
    ASSUME AccountsInv, NEW p \in Procs, Serve(p), UNCHANGED billVars
    PROVE  AccountsInv'
<1>1. /\ UNCHANGED tenancy /\ UNCHANGED people /\ UNCHANGED clock /\ UNCHANGED <<subject, lost>>
      /\ job[p].op = "consume" /\ job[p].step = "serve" /\ Goto(p, "count")
      /\ made' = [made EXCEPT ![job[p].row] = @ + 1]
  BY DEF Serve, At
<1>2. UNCHANGED <<org, quota, usage, peak, acked>> /\ UNCHANGED <<utc, local>> /\ People /\ Plan
  BY <1>1, Frames
<1>3. PICK w : /\ job' = [job EXCEPT ![p] = w] /\ JobFits(w)'
               /\ w.op = "consume" /\ w.step = "count" /\ w.row = job[p].row /\ w.row \in Periods
  BY <1>1, <1>2, ConsumeGoes DEF AccountsInv
<1>4. PICK r \in Periods : r = job[p].row
  BY <1>3
<1>5. /\ made \in [Periods -> Nat] /\ lost \in Nat /\ peak \in Nat /\ subject \in Resources
      /\ usage \in [Periods -> Nat \cup {NoRow}]
  BY DEF AccountsInv, OverrunInv, RowsType
<1>6. made' \in [Periods -> Nat] /\ made'[r] = made[r] + 1 /\ \A k \in Periods : k # r => made'[k] = made[k]
  BY <1>1, <1>4, <1>5
<1>7. job'[p] = w /\ \A q \in Procs \ {p} : job'[q] = job[q]
  BY <1>3 DEF AccountsInv, JobsType
<1>8. /\ p \in InStep("serve", r) /\ p \notin InStep("count", r)
      /\ InStep("serve", r)' = InStep("serve", r) \ {p}
      /\ InStep("count", r)' = InStep("count", r) \cup {p}
  BY <1>1, <1>3, <1>4, <1>7 DEF InStep
<1>9. \A k \in Periods : k # r =>
        InStep("serve", k)' = InStep("serve", k) /\ InStep("count", k)' = InStep("count", k)
  BY <1>1, <1>3, <1>4, <1>7 DEF InStep
<1>10. /\ Cardinality(InStep("serve", r)') = Cardinality(InStep("serve", r)) - 1
       /\ Cardinality(InStep("count", r)') = Cardinality(InStep("count", r)) + 1
  BY <1>8, InStepEnters, InStepLeaves
<1>11. ASSUME NEW k \in Periods
       PROVE  made'[k] + Cardinality(InStep("serve", k)') <= peak' + (Cardinality(Procs) - 1) + lost'
  <2>1. made[k] + Cardinality(InStep("serve", k)) <= peak + (Cardinality(Procs) - 1) + lost
    BY DEF AccountsInv, OverrunInv
  <2>2. CASE k = r
    BY <1>1, <1>2, <1>5, <1>6, <1>10, <2>1, <2>2, InStepCounted, ProcsCounted
  <2>3. CASE k # r
    BY <1>1, <1>2, <1>6, <1>9, <2>1, <2>3
  <2> QED
    BY <2>2, <2>3
<1>12. ASSUME ~Own, NEW k \in Periods, usage'[k] # NoRow, k >= utc'
       PROVE  made'[k] <= usage'[k] + Cardinality(InStep("count", k)') + lost'
  <2>1. made[k] <= usage[k] + Cardinality(InStep("count", k)) + lost /\ usage[k] \in Nat
    BY <1>2, <1>5, <1>12 DEF AccountsInv, OverrunInv
  <2>2. CASE k = r
    BY <1>1, <1>2, <1>5, <1>6, <1>10, <2>1, <2>2, InStepCounted
  <2>3. CASE k # r
    BY <1>1, <1>2, <1>6, <1>9, <2>1, <2>3
  <2> QED
    BY <2>2, <2>3
<1>13. ASSUME ~Own, NEW k \in Periods, usage'[k] = NoRow
       PROVE  made'[k] = 0 /\ InStep("serve", k)' = {} /\ InStep("count", k)' = {}
  <2>1. made[k] = 0 /\ InStep("serve", k) = {} /\ InStep("count", k) = {}
    BY <1>2, <1>13 DEF AccountsInv, OverrunInv
  <2> QED
    BY <1>6, <1>8, <1>9, <2>1
<1>14. OverrunInv'
  <2>1. (Own' <=> Own) /\ lost' \in Nat /\ subject' \in Resources
    BY <1>1, <1>5 DEF Own
  <2> QED
    BY <1>6, <1>11, <1>12, <1>13, <2>1 DEF OverrunInv
<1> QED
  BY <1>1, <1>2, <1>3, <1>5, <1>14, ConsumingTurn

\* A request is counted in every row that can still be checked, or is lost.
LEMMA ConsumeCounted ==
    ASSUME AccountsInv, NEW p \in Procs, job[p].op = "consume", job[p].step = "count",
           job' = [job EXCEPT ![p] = Idle], UNCHANGED <<org, quota, peak, acked>>,
           UNCHANGED <<utc, local>>, People, Plan, UNCHANGED <<made, subject>>,
           usage' \in [Periods -> Nat \cup {NoRow}], lost' \in Nat, lost' >= lost,
           \A k \in Periods : usage'[k] = NoRow <=> usage[k] = NoRow,
           \A k \in Periods : usage[k] # NoRow /\ k >= utc => usage'[k] + lost' = usage[k] + lost + 1
    PROVE  AccountsInv'
<1>1. /\ made \in [Periods -> Nat] /\ lost \in Nat /\ peak \in Nat /\ subject \in Resources
      /\ usage \in [Periods -> Nat \cup {NoRow}]
  BY DEF AccountsInv, OverrunInv, RowsType
<1>2. job'[p] = Idle /\ \A q \in Procs \ {p} : job'[q] = job[q]
  BY DEF AccountsInv, JobsType
<1>3. \A k : /\ InStep("serve", k)' = InStep("serve", k)
             /\ InStep("count", k)' = InStep("count", k) \ {p}
  BY <1>2, IdleFits DEF InStep
<1>4. ASSUME NEW k PROVE Cardinality(InStep("count", k)') >= Cardinality(InStep("count", k)) - 1
  <2>1. PICK n \in Nat : n = Cardinality(InStep("count", k)) /\ IsFiniteSet(InStep("count", k))
    BY InStepCounted
  <2>2. Cardinality(InStep("count", k) \ {p}) = n \/ Cardinality(InStep("count", k) \ {p}) = n - 1
    BY <2>1, FS_RemoveElement
  <2>3. Cardinality(InStep("count", k)') = Cardinality(InStep("count", k) \ {p})
    BY <1>3
  <2> QED
    BY <2>1, <2>2, <2>3
<1>5. ASSUME NEW k \in Periods
      PROVE  made'[k] + Cardinality(InStep("serve", k)') <= peak' + (Cardinality(Procs) - 1) + lost'
  <2>1. made[k] + Cardinality(InStep("serve", k)) <= peak + (Cardinality(Procs) - 1) + lost
    BY DEF AccountsInv, OverrunInv
  <2>2. made'[k] = made[k] /\ made[k] \in Nat /\ InStep("serve", k)' = InStep("serve", k)
    BY <1>1, <1>3
  <2> QED
    BY <1>1, <2>1, <2>2, InStepCounted, ProcsCounted
<1>6. ASSUME ~Own, NEW k \in Periods, usage'[k] # NoRow, k >= utc'
      PROVE  made'[k] <= usage'[k] + Cardinality(InStep("count", k)') + lost'
  <2>1. /\ made[k] <= usage[k] + Cardinality(InStep("count", k)) + lost /\ usage[k] \in Nat
        /\ usage'[k] + lost' = usage[k] + lost + 1 /\ usage'[k] \in Nat
    BY <1>1, <1>6 DEF AccountsInv, OverrunInv
  <2>2. /\ Cardinality(InStep("count", k)') \in Nat
        /\ Cardinality(InStep("count", k)') >= Cardinality(InStep("count", k)) - 1
        /\ Cardinality(InStep("count", k)) \in Nat
    BY <1>3, <1>4, InStepCounted, FS_RemoveElement, FS_CardinalityType
  <2>3. made'[k] = made[k] /\ made[k] \in Nat
    BY <1>1
  <2> QED
    BY <1>1, <2>1, <2>2, <2>3
<1>7. ASSUME ~Own, NEW k \in Periods, usage'[k] = NoRow
      PROVE  made'[k] = 0 /\ InStep("serve", k)' = {} /\ InStep("count", k)' = {}
  <2>1. made[k] = 0 /\ InStep("serve", k) = {} /\ InStep("count", k) = {}
    BY <1>7 DEF AccountsInv, OverrunInv
  <2> QED
    BY <1>3, <2>1
<1>8. OverrunInv'
  <2>1. (Own' <=> Own) /\ subject' \in Resources /\ made' \in [Periods -> Nat]
    BY <1>1 DEF Own
  <2> QED
    BY <1>5, <1>6, <1>7, <2>1 DEF OverrunInv
<1> QED
  BY <1>8, IdleFits, ConsumingTurn

LEMMA ConsumeCounts ==
    ASSUME AccountsInv, NEW p \in Procs, NEW r, Counts(p, r) \/ IncrementLost(p), UNCHANGED billVars
    PROVE  AccountsInv'
<1>1. /\ UNCHANGED <<org, quota, peak, acked>> /\ UNCHANGED people /\ UNCHANGED clock
      /\ UNCHANGED <<subject, made>> /\ job[p].op = "consume" /\ job[p].step = "count"
      /\ job' = [job EXCEPT ![p] = Idle]
  BY DEF Counts, IncrementLost, At, Done, tenancy, consumption
<1>2. UNCHANGED <<utc, local>> /\ People /\ Plan
  BY <1>1, Frames
<1>3. usage \in [Periods -> Nat \cup {NoRow}] /\ lost \in Nat /\ NoRow \notin Nat
  BY OrganizationsAssumption DEF AccountsInv, RowsType, OverrunInv
<1>4. CASE Counts(p, r)
  <2>1. usage' = Incremented /\ UNCHANGED lost
    BY <1>4 DEF Counts, consumption
  <2>2. ASSUME NEW k \in Periods PROVE usage'[k] = IF usage[k] # NoRow /\ k >= utc THEN usage[k] + 1 ELSE usage[k]
    BY <2>1 DEF Incremented, Current
  <2>3. usage' \in [Periods -> Nat \cup {NoRow}] /\ \A k \in Periods : usage'[k] = NoRow <=> usage[k] = NoRow
    <3>1. \A k \in Periods : usage'[k] \in Nat \cup {NoRow} /\ (usage'[k] = NoRow <=> usage[k] = NoRow)
      BY <1>3, <2>2
    <3>2. usage' = [k \in Periods |-> usage'[k]]
      BY <2>1 DEF Incremented
    <3> QED
      BY <3>1, <3>2
  <2>4. \A k \in Periods : usage[k] # NoRow /\ k >= utc => usage'[k] + lost' = usage[k] + lost + 1
    BY <1>3, <2>1, <2>2
  <2>5. lost' \in Nat /\ lost' >= lost
    BY <1>3, <2>1
  <2> QED
    BY <1>1, <1>2, <2>3, <2>4, <2>5, ConsumeCounted
<1>5. CASE IncrementLost(p)
  <2>1. lost' = lost + 1 /\ UNCHANGED usage
    BY <1>5 DEF IncrementLost, tenancy
  <2>2. lost' \in Nat /\ lost' >= lost /\ usage' \in [Periods -> Nat \cup {NoRow}]
    BY <1>3, <2>1
  <2>3. \A k \in Periods : usage[k] # NoRow /\ k >= utc => usage'[k] + lost' = usage[k] + lost + 1
    BY <1>3, <2>1
  <2> QED
    BY <1>1, <1>2, <2>1, <2>2, <2>3, ConsumeCounted
<1> QED
  BY <1>4, <1>5

\* A month ends for the database, or for the server; the hour of the api limit ends.
LEMMA TimePasses ==
    ASSUME AccountsInv, UtcMonth \/ LocalMonth \/ HourPasses, UNCHANGED billVars
    PROVE  AccountsInv'
<1>1. UNCHANGED tenancy /\ UNCHANGED people /\ UNCHANGED job
  BY DEF UtcMonth, LocalMonth, HourPasses
<1>2. UNCHANGED <<org, quota, usage, peak, acked>> /\ People /\ Plan
  BY <1>1, Frames
<1>3. InviteInv' /\ utc \in Nat
  BY <1>2, InviteStands DEF AccountsInv, RowsType, People
<1>4. CASE UtcMonth
  <2>1. utc' = utc + 1 /\ UNCHANGED local /\ UNCHANGED consumption
    BY <1>4 DEF UtcMonth
  <2>2. Counters /\ utc' \in Nat /\ utc' >= utc
    BY <1>3, <2>1, Frames
  <2> QED
    BY <1>1, <1>2, <1>3, <2>1, <2>2, AccountsStill
<1>5. CASE LocalMonth
  <2>1. local' = local + 1 /\ local < MaxPeriod /\ UNCHANGED utc /\ UNCHANGED consumption
    BY <1>5 DEF LocalMonth
  <2>2. RowsType' /\ peak' \in Nat /\ peak' >= peak /\ utc' >= utc
    BY <1>2, <2>1, OrganizationsAssumption DEF AccountsInv, RowsType, Periods
  <2>3. JobsType' /\ CreateInv' /\ PlanInv'
    BY <1>1, <1>2, <2>2, JobStands, CreateStands, PlanStands DEF AccountsInv, Plan
  <2>4. Counters
    BY <2>1, Frames
  <2>5. lost' \in Nat /\ lost' >= lost /\ UNCHANGED <<made, subject>>
    BY <2>4 DEF AccountsInv, OverrunInv, Counters
  <2>6. OverrunInv'
    BY <1>1, <1>2, <2>2, <2>5, InStepStands, OverrunKeeps DEF AccountsInv
  <2> QED
    BY <1>3, <2>2, <2>3, <2>6 DEF AccountsInv
<1>6. CASE HourPasses
  <2>1. subject = "api" /\ made' = [made EXCEPT ![0] = 0] /\ UNCHANGED clock /\ UNCHANGED <<subject, lost>>
    BY <1>6 DEF HourPasses
  <2>2. UNCHANGED <<utc, local>>
    BY <2>1, Frames
  <2>3. RowsType' /\ peak' \in Nat /\ peak' >= peak
    BY <1>2, <2>2, RowsKeep DEF AccountsInv, RowsType
  <2>4. JobsType' /\ CreateInv' /\ PlanInv'
    BY <1>1, <1>2, <2>3, JobStands, CreateStands, PlanStands DEF AccountsInv, Plan
  <2>5. /\ made \in [Periods -> Nat] /\ lost \in Nat /\ peak \in Nat
        /\ made' \in [Periods -> Nat] /\ \A k \in Periods : made'[k] <= made[k]
    <3>1. made \in [Periods -> Nat] /\ lost \in Nat /\ peak \in Nat
      BY DEF AccountsInv, OverrunInv, RowsType
    <3>2. made' \in [Periods -> Nat]
      BY <2>1, <3>1
    <3>3. ASSUME NEW k \in Periods PROVE made'[k] <= made[k]
      <4>1. made[k] \in Nat /\ (made'[k] = made[k] \/ made'[k] = 0)
        BY <2>1, <3>1
      <4> QED
        BY <4>1
    <3> QED
      BY <3>1, <3>2, <3>3
  <2>6. ASSUME NEW k \in Periods
        PROVE  made'[k] + Cardinality(InStep("serve", k)') <= peak' + (Cardinality(Procs) - 1) + lost'
    <3>1. made[k] + Cardinality(InStep("serve", k)) <= peak + (Cardinality(Procs) - 1) + lost
      BY DEF AccountsInv, OverrunInv
    <3>2. InStep("serve", k)' = InStep("serve", k) /\ made[k] \in Nat /\ made'[k] \in Nat /\ made'[k] <= made[k]
      BY <1>1, <2>5, InStepStands
    <3> QED
      BY <1>2, <2>1, <2>5, <3>1, <3>2, InStepCounted, ProcsCounted
  <2>7. OverrunInv'
    <3>1. Own' /\ subject' \in Resources /\ lost' \in Nat
      BY <2>1, <2>5 DEF Own, Resources
    <3> QED
      BY <2>5, <2>6, <3>1 DEF OverrunInv
  <2> QED
    BY <1>3, <2>3, <2>4, <2>7 DEF AccountsInv
<1> QED
  BY <1>4, <1>5, <1>6

LEMMA AccountsConsume ==
    ASSUME AccountsInv, ConsumeNext, UNCHANGED billVars
    PROVE  AccountsInv'
<1>1. ASSUME NEW p \in Procs, ReadUsage(p) \/ CountFirst(p) PROVE AccountsInv'
  <2>1. /\ UNCHANGED <<org, quota, peak, acked>> /\ UNCHANGED people /\ UNCHANGED clock
        /\ UNCHANGED consumption /\ UNCHANGED job /\ initializeUsagePeriod
    BY <1>1 DEF ReadUsage, CountFirst
  <2>2. People /\ Counters /\ Plan /\ UNCHANGED <<utc, local>>
    BY <2>1, Frames
  <2>3. InviteInv' /\ utc' \in Nat /\ utc' >= utc
    BY <2>2, InviteStands DEF AccountsInv, RowsType, People
  <2> QED
    BY <2>1, <2>2, <2>3, AccountsStill
<1>2. ASSUME NEW p \in Procs, ConsumeStep(p) PROVE AccountsInv'
  BY <1>1, <1>2, ConsumeReadsQuota, ConsumeChecks, ConsumeServes, ConsumeCounts
  DEF ConsumeStep, IncrementModules, IncrementVersions, IncrementStorage, IncrementCompileJobs,
      IncrementAPIRequests
<1> QED
  BY <1>2, ConsumeBegins, ConsumeCounts, TimePasses DEF ConsumeNext

-----------------------------------------------------------------------------
(* Subscriptions.                                                          *)
LEMMA QuotasWritten ==
    ASSUME RowsType, NEW limit \in Nat, UpdateQuotasRow(limit), UNCHANGED usage, UNCHANGED <<utc, local>>
    PROVE  /\ RowsType' /\ peak' \in Nat /\ peak' >= peak /\ (quota' = NoRow <=> quota = NoRow)
           /\ quota # NoRow => quota' = limit
<1>1. CASE quota = NoRow
  <2>1. UNCHANGED <<quota, peak>>
    BY <1>1 DEF UpdateQuotasRow
  <2> QED
    BY <1>1, <2>1 DEF RowsType
<1>2. CASE quota # NoRow
  <2>1. quota' = limit /\ peak' = IF limit > peak THEN limit ELSE peak
    BY <1>2 DEF UpdateQuotasRow
  <2>2. peak \in Nat /\ limit # NoRow
    BY OrganizationsAssumption DEF RowsType
  <2>3. peak' \in Nat /\ peak' >= peak /\ limit <= peak'
    BY <2>1, <2>2
  <2> QED
    BY <1>2, <2>1, <2>2, <2>3 DEF RowsType
<1> QED
  BY <1>1, <1>2

\* What a goroutine that changes the plan leaves to be shown: the plan.
LEMMA PlanningTurn ==
    ASSUME AccountsInv, RowsType', peak' \in Nat, peak' >= peak, quota' = NoRow <=> quota = NoRow,
           UNCHANGED <<org, usage, acked>>, UNCHANGED <<utc, local>>,
           NEW p \in Procs, NEW w, job' = [job EXCEPT ![p] = w], JobFits(w)',
           job[p].op \in {"idle"} \cup BillOps, w.op \in {"idle"} \cup BillOps,
           Counters, People, PlanInv'
    PROVE  AccountsInv'
<1>1. ~Consuming(w) /\ ~Consuming(job[p]) /\ w.op # "create"
  BY DEF BillOps, Consuming
<1>2. JobsType'
  BY JobTurn DEF AccountsInv
<1>3. CreateInv'
  BY <1>1, CreateTurn DEF AccountsInv
<1>4. \A step \in {"serve", "count"}, k \in Periods : InStep(step, k)' = InStep(step, k)
  BY <1>1, InStepTurn DEF AccountsInv
<1>5. lost' \in Nat /\ lost' >= lost /\ UNCHANGED <<made, subject>> /\ utc' >= utc
  BY DEF AccountsInv, OverrunInv, Counters, RowsType
<1>6. OverrunInv'
  BY <1>4, <1>5, OverrunKeeps DEF AccountsInv
<1>7. InviteInv'
  BY InviteStands DEF AccountsInv, People
<1> QED
  BY <1>2, <1>3, <1>6, <1>7 DEF AccountsInv

\* The same when quotas and usage are not written.
LEMMA PlanningKeeps ==
    ASSUME AccountsInv, Keep, NEW p \in Procs, NEW w, job' = [job EXCEPT ![p] = w], JobFits(w)',
           job[p].op \in {"idle"} \cup BillOps, w.op \in {"idle"} \cup BillOps, PlanInv'
    PROVE  AccountsInv'
<1>1. UNCHANGED tenancy /\ UNCHANGED people /\ UNCHANGED clock /\ UNCHANGED consumption
  BY DEF Keep
<1>2. UNCHANGED <<org, quota, usage, peak, acked>> /\ UNCHANGED <<utc, local>> /\ People /\ Counters
  BY <1>1, Frames
<1>3. RowsType' /\ peak' \in Nat /\ peak' >= peak
  BY <1>2, RowsKeep DEF AccountsInv, RowsType
<1> QED
  BY <1>2, <1>3, PlanningTurn

LEMMA PlanDrifts ==
    ASSUME sub' \in Subscriptions \cup {NoRow}, drift' # {}
    PROVE  PlanInv'
BY DEF PlanInv

\* Without a reason to differ the goroutine is alone with the plan.
LEMMA PlanAlone ==
    ASSUME PlanInv, drift = {}, NEW p \in Procs, Billed(p)
    PROVE  /\ \A q \in Procs \ {p} : ~Billed(q)
           /\ Subscribed /\ job[p].step # "quotas" => quota = Planned
           /\ Subscribed /\ job[p].step = "quotas" => GetDefaultQuotas(job[p].tier) = Planned
<1>1. \A q \in Procs \ {p} : ~Billed(q)
  BY DEF PlanInv
<1> QED
  BY <1>1 DEF PlanInv

LEMMA PlanMoves ==
    ASSUME JobsType, NEW p \in Procs, NEW w, job' = [job EXCEPT ![p] = w],
           sub' \in Subscriptions \cup {NoRow},
           drift' = {} =>
             /\ \A q \in Procs \ {p} : ~Billed(q)
             /\ w.op \in BillOps /\ w.step = "quotas" /\ Subscribed' => GetDefaultQuotas(w.tier) = Planned'
             /\ ~(w.op \in BillOps /\ w.step = "quotas") /\ Subscribed' => quota' = Planned'
    PROVE  PlanInv'
<1>1. job'[p] = w /\ \A q \in Procs \ {p} : job'[q] = job[q]
  BY DEF JobsType
<1>2. Billed(p)' <=> w.op \in BillOps
  BY <1>1 DEF Billed, BillOps
<1>3. \A q \in Procs \ {p} : Billed(q)' <=> Billed(q)
  BY <1>1 DEF Billed
<1>4. CASE drift' = {}
  <2>1. \A q \in Procs : Billed(q)' => q = p
    BY <1>3, <1>4
  <2>2. \A q \in Procs : Billed(q)' /\ job'[q].step = "quotas" /\ Subscribed' =>
          GetDefaultQuotas(job'[q].tier) = Planned'
    BY <1>1, <1>2, <1>4, <2>1
  <2>3. Subscribed' /\ (\A q \in Procs : Billed(q)' => job'[q].step # "quotas") => quota' = Planned'
    BY <1>1, <1>2, <1>4
  <2>4. \A q \in Procs : GetDefaultQuotas(job'[q].tier) = GetDefaultQuotas(job[q].tier)'
    BY DEF GetDefaultQuotas
  <2> QED
    BY <2>1, <2>2, <2>3, <2>4 DEF PlanInv
<1> QED
  BY <1>4, PlanDrifts

\* The record of a goroutine at its next step.
LEMMA PlanGoes ==
    ASSUME JobsType, NEW p \in Procs, Billed(p), NEW s \in {"quotas", "end"}, Goto(p, s)
    PROVE  \E w : /\ job' = [job EXCEPT ![p] = w] /\ JobFits(w)' /\ w.op \in BillOps
                  /\ w.op = job[p].op /\ w.step = s /\ w.tier = job[p].tier
<1>1. PICK w : w = [job[p] EXCEPT !.step = s]
  OBVIOUS
<1>2. job[p].op \in BillOps /\ JobFits(job[p])
  BY DEF JobsType, Billed, BillOps
<1>3. job[p] \in BillJobs
  BY <1>2 DEF JobFits
<1>4. w \in BillJobs /\ w.op = job[p].op /\ w.step = s /\ w.tier = job[p].tier
  BY <1>1, <1>3 DEF BillJobs
<1>5. JobFits(w)'
  BY <1>2, <1>4 DEF JobFits, BillOps
<1>6. job' = [job EXCEPT ![p] = w]
  BY <1>1 DEF Goto, JobsType
<1> QED
  BY <1>2, <1>4, <1>5, <1>6

LEMMA PlanBegins ==
    ASSUME AccountsInv, NEW p \in Procs, NEW op \in BillOps, NEW tier \in Tiers \cup {"none"},
           NEW atEnd \in BOOLEAN, op = "subscribe" => tier \in Tiers, op = "cancel" => tier = "small",
           Change(p, op, tier, atEnd)
    PROVE  AccountsInv'
<1>1. PICK w : w = [op |-> op, step |-> "sub", tier |-> tier, atEnd |-> atEnd]
  OBVIOUS
<1>2. /\ job[p] = Idle /\ job' = [job EXCEPT ![p] = w] /\ Keep /\ UNCHANGED sub
      /\ drift' = drift \cup Overlap(p)
  BY <1>1 DEF Change, Begin
<1>3. w \in BillJobs /\ w.op = op /\ w.step = "sub" /\ w.tier = tier
  BY <1>1 DEF BillJobs
<1>4. JobFits(w)'
  BY <1>3 DEF JobFits, BillOps
<1>5. job[p].op = "idle" /\ ~Billed(p)
  BY <1>2, IdleFits DEF Billed
<1>6. UNCHANGED quota /\ (Subscribed' <=> Subscribed) /\ Planned' = Planned
  BY <1>2 DEF Keep, tenancy, Subscribed, Planned, GetDefaultQuotas
<1>7. ASSUME drift' = {}
      PROVE  /\ \A q \in Procs \ {p} : ~Billed(q)
             /\ Subscribed' => quota' = Planned'
  <2>1. drift = {} /\ Overlap(p) = {}
    BY <1>2, <1>7
  <2>2. \A q \in Procs \ {p} : ~Billed(q)
    BY <2>1 DEF Overlap
  <2> QED
    BY <1>5, <1>6, <2>1, <2>2 DEF AccountsInv, PlanInv
<1>8. PlanInv'
  BY <1>2, <1>3, <1>7, PlanMoves DEF AccountsInv, PlanInv
<1> QED
  BY <1>2, <1>3, <1>4, <1>5, <1>8, PlanningKeeps

LEMMA PlanCreates ==
    ASSUME AccountsInv, NEW p \in Procs, CreateSubscription(p)
    PROVE  AccountsInv'
<1>1. /\ job[p].op = "subscribe" /\ job[p].step = "sub" /\ Keep
  BY DEF CreateSubscription, At
<1>2. Billed(p) /\ job[p].op \in BillOps /\ job[p].tier \in Tiers /\ sub \in Subscriptions \cup {NoRow}
  BY <1>1 DEF Billed, BillOps, AccountsInv, JobsType, JobFits, PlanInv
<1>3. sub' \in Subscriptions /\ sub'.plan = job[p].tier /\ sub'.status = "active"
  <2>1. CASE Subscribed
    <3>1. PICK row : row = [sub EXCEPT !.customer = "mock"]
      OBVIOUS
    <3>2. row \in Subscriptions
      BY <1>2, <2>1, <3>1 DEF Subscribed, Subscriptions
    <3>3. sub' = [row EXCEPT !.plan = job[p].tier, !.status = "active"]
      BY <2>1, <3>1 DEF CreateSubscription, CreateStripeCustomer
    <3> QED
      BY <1>2, <3>2, <3>3 DEF Subscriptions
  <2>2. CASE ~Subscribed
    <3>1. sub' = [plan |-> job[p].tier, status |-> "active", customer |-> "mock",
                  cancelAt |-> FALSE, canceledAt |-> FALSE]
      BY <2>2 DEF CreateSubscription
    <3> QED
      BY <1>2, <3>1 DEF Subscriptions
  <2> QED
    BY <2>1, <2>2
<1>4. CASE org = NoRow
  <2>1. drift' # {} /\ job' = [job EXCEPT ![p] = Idle]
    BY <1>4 DEF CreateSubscription, GetOrganization, Done
  <2> QED
    BY <1>1, <1>2, <1>3, <2>1, IdleFits, PlanDrifts, PlanningKeeps
<1>5. CASE org # NoRow
  <2>1. UNCHANGED drift /\ Goto(p, "quotas")
    BY <1>5 DEF CreateSubscription, GetOrganization
  <2>2. PICK w : /\ job' = [job EXCEPT ![p] = w] /\ JobFits(w)' /\ w.op \in BillOps
                 /\ w.step = "quotas" /\ w.tier = job[p].tier
    BY <1>2, <2>1, PlanGoes DEF AccountsInv
  <2>3. GetDefaultQuotas(w.tier) = Planned'
    BY <1>3, <2>2 DEF Planned, GetDefaultQuotas
  <2>4. drift' = {} => \A q \in Procs \ {p} : ~Billed(q)
    BY <1>2, <2>1, PlanAlone DEF AccountsInv
  <2>5. PlanInv'
    BY <1>3, <2>2, <2>3, <2>4, PlanMoves DEF AccountsInv
  <2> QED
    BY <1>1, <1>2, <2>2, <2>5, PlanningKeeps
<1> QED
  BY <1>4, <1>5

LEMMA PlanUpdates ==
    ASSUME AccountsInv, NEW p \in Procs, UpdateSubscription(p)
    PROVE  AccountsInv'
<1>1. /\ job[p].op = "replan" /\ job[p].step = "sub" /\ Keep
  BY DEF UpdateSubscription, At
<1>2. /\ Billed(p) /\ job[p].op \in BillOps /\ job[p].tier \in Tiers \cup {"none"}
      /\ sub \in Subscriptions \cup {NoRow}
  BY <1>1 DEF Billed, BillOps, BillJobs, AccountsInv, JobsType, JobFits, PlanInv
<1>3. CASE job[p].tier = "none"
  <2>1. Goto(p, "end") /\ UNCHANGED <<sub, drift>>
    BY <1>3 DEF UpdateSubscription
  <2>2. PICK w : /\ job' = [job EXCEPT ![p] = w] /\ JobFits(w)' /\ w.op \in BillOps /\ w.step = "end"
    BY <1>2, <2>1, PlanGoes DEF AccountsInv
  <2>3. UNCHANGED quota /\ (Subscribed' <=> Subscribed) /\ Planned' = Planned
    BY <1>1, <2>1 DEF Keep, tenancy, Subscribed, Planned, GetDefaultQuotas
  <2>4. drift' = {} => (\A q \in Procs \ {p} : ~Billed(q)) /\ (Subscribed' => quota' = Planned')
    BY <1>1, <1>2, <2>1, <2>3, PlanAlone DEF AccountsInv
  <2>5. PlanInv'
    BY <1>2, <2>1, <2>2, <2>4, PlanMoves DEF AccountsInv
  <2> QED
    BY <1>1, <1>2, <2>2, <2>5, PlanningKeeps
<1>4. CASE job[p].tier # "none"
  <2>1. /\ Goto(p, "quotas")
        /\ sub' = IF Subscribed THEN [sub EXCEPT !.plan = job[p].tier] ELSE sub
        /\ drift' = IF Subscribed /\ sub.status = "active" THEN drift ELSE drift \cup {"replanned"}
    BY <1>4 DEF UpdateSubscription
  <2>2. PICK w : /\ job' = [job EXCEPT ![p] = w] /\ JobFits(w)' /\ w.op \in BillOps
                 /\ w.step = "quotas" /\ w.tier = job[p].tier
    BY <1>2, <2>1, PlanGoes DEF AccountsInv
  <2>3. Subscribed => /\ sub' \in Subscriptions /\ sub'.plan = job[p].tier /\ sub'.status = sub.status
    BY <1>2, <1>4, <2>1 DEF Subscribed, Subscriptions
  <2>4. sub' \in Subscriptions \cup {NoRow}
    BY <1>2, <2>1, <2>3
  <2>5. ASSUME drift' = {} PROVE drift = {} /\ Subscribed /\ sub.status = "active"
    BY <2>1, <2>5
  <2>6. ASSUME drift' = {} PROVE (\A q \in Procs \ {p} : ~Billed(q)) /\ GetDefaultQuotas(w.tier) = Planned'
    <3>1. \A q \in Procs \ {p} : ~Billed(q)
      BY <1>2, <2>5, <2>6, PlanAlone DEF AccountsInv
    <3>2. sub'.plan = job[p].tier /\ sub'.status = "active"
      BY <2>3, <2>5, <2>6
    <3> QED
      BY <2>2, <3>1, <3>2 DEF Planned, GetDefaultQuotas
  <2>7. PlanInv'
    BY <2>2, <2>4, <2>6, PlanMoves DEF AccountsInv
  <2> QED
    BY <1>1, <1>2, <2>2, <2>7, PlanningKeeps
<1> QED
  BY <1>3, <1>4

\* The date at which a subscription ends is no part of the plan.
LEMMA PlanEnds ==
    ASSUME AccountsInv, NEW p \in Procs, Billed(p), job[p].step # "quotas", Keep, UNCHANGED drift,
           job' = [job EXCEPT ![p] = Idle],
           UNCHANGED sub \/ (Subscribed /\ sub' = [sub EXCEPT !.cancelAt = TRUE])
    PROVE  AccountsInv'
<1>1. sub \in Subscriptions \cup {NoRow} /\ job[p].op \in BillOps
  BY DEF AccountsInv, PlanInv, Billed, BillOps
<1>2. /\ sub' \in Subscriptions \cup {NoRow} /\ (Subscribed' <=> Subscribed)
      /\ Subscribed => sub'.status = sub.status /\ sub'.plan = sub.plan
  BY <1>1, BillingAssumption DEF Subscribed, Subscriptions
<1>3. UNCHANGED quota /\ (Subscribed => Planned' = Planned)
  BY <1>2 DEF Keep, tenancy, Planned, GetDefaultQuotas
<1>4. drift' = {} => (\A q \in Procs \ {p} : ~Billed(q)) /\ (Subscribed' => quota' = Planned')
  BY <1>2, <1>3, PlanAlone DEF AccountsInv
<1>5. Idle.op \notin BillOps
  BY IdleFits DEF BillOps
<1>6. PlanInv'
  BY <1>2, <1>4, <1>5, PlanMoves DEF AccountsInv
<1> QED
  BY <1>1, <1>6, IdleFits, PlanningKeeps

LEMMA PlanCancels ==
    ASSUME AccountsInv, NEW p \in Procs, CancelSubscription(p)
    PROVE  AccountsInv'
<1>1. /\ job[p].op = "cancel" /\ job[p].step = "sub" /\ Keep /\ UNCHANGED drift
  BY DEF CancelSubscription, At
<1>2. Billed(p) /\ job[p].op \in BillOps /\ job[p].tier = "small" /\ sub \in Subscriptions \cup {NoRow}
  BY <1>1 DEF Billed, BillOps, AccountsInv, JobsType, JobFits, PlanInv
<1>3. CASE job[p].atEnd
  <2>1. /\ job' = [job EXCEPT ![p] = Idle]
        /\ UNCHANGED sub \/ (Subscribed /\ sub' = [sub EXCEPT !.cancelAt = TRUE])
    BY <1>3 DEF CancelSubscription, Done
  <2> QED
    BY <1>1, <1>2, <2>1, PlanEnds
<1>4. CASE ~job[p].atEnd
  <2>1. /\ Goto(p, "quotas")
        /\ sub' = IF Subscribed THEN [sub EXCEPT !.status = "canceled", !.canceledAt = TRUE] ELSE sub
    BY <1>4 DEF CancelSubscription
  <2>2. PICK w : /\ job' = [job EXCEPT ![p] = w] /\ JobFits(w)' /\ w.op \in BillOps
                 /\ w.step = "quotas" /\ w.tier = job[p].tier
    BY <1>2, <2>1, PlanGoes DEF AccountsInv
  <2>3. Subscribed => sub' \in Subscriptions /\ sub'.status = "canceled"
    BY <1>2, <2>1 DEF Subscribed, Subscriptions
  <2>4. sub' \in Subscriptions \cup {NoRow} /\ (Subscribed' => Subscribed)
    BY <1>2, <2>1, <2>3 DEF Subscribed
  <2>5. Subscribed' => GetDefaultQuotas(w.tier) = Planned'
    BY <1>2, <2>2, <2>3, <2>4 DEF Planned, GetDefaultQuotas
  <2>6. drift' = {} => \A q \in Procs \ {p} : ~Billed(q)
    BY <1>1, <1>2, PlanAlone DEF AccountsInv
  <2>7. PlanInv'
    BY <2>2, <2>4, <2>5, <2>6, PlanMoves DEF AccountsInv
  <2> QED
    BY <1>1, <1>2, <2>2, <2>7, PlanningKeeps
<1> QED
  BY <1>3, <1>4

\* The quotas are set: the plan and the quotas agree again.
LEMMA PlanFollows ==
    ASSUME AccountsInv, NEW p \in Procs, FollowPlan(p)
    PROVE  AccountsInv'
<1>1. /\ Billed(p) /\ job[p].step = "quotas" /\ UNCHANGED <<org, usage, acked>> /\ UNCHANGED people
      /\ UNCHANGED clock /\ UNCHANGED consumption /\ UNCHANGED sub
      /\ drift' = IF quota = NoRow THEN drift \cup {"failed"} ELSE drift
  BY DEF FollowPlan
<1>2. UNCHANGED <<utc, local>> /\ People /\ Counters
  BY <1>1, Frames
<1>3. PICK limit \in Nat : limit = GetDefaultQuotas(job[p].tier)
  BY DefaultQuota
<1>4. UpdateQuotasRow(limit)
  BY <1>3 DEF FollowPlan
<1>5. /\ RowsType' /\ peak' \in Nat /\ peak' >= peak /\ (quota' = NoRow <=> quota = NoRow)
      /\ quota # NoRow => quota' = limit
  BY <1>1, <1>2, <1>4, QuotasWritten DEF AccountsInv
<1>6. job[p].op \in BillOps /\ sub \in Subscriptions \cup {NoRow}
  BY <1>1 DEF Billed, BillOps, AccountsInv, PlanInv
<1>7. PICK w : /\ job' = [job EXCEPT ![p] = w] /\ JobFits(w)' /\ w.op \in {"idle"} \cup BillOps
               /\ ~(w.op \in BillOps /\ w.step = "quotas")
  <2>1. CASE job' = [job EXCEPT ![p] = Idle]
    BY <2>1, IdleFits DEF BillOps
  <2>2. CASE Goto(p, "end")
    <3>1. PICK w : /\ job' = [job EXCEPT ![p] = w] /\ JobFits(w)' /\ w.op \in BillOps /\ w.step = "end"
      BY <1>1, <2>2, PlanGoes DEF AccountsInv
    <3> QED
      BY <3>1
  <2>3. job' = [job EXCEPT ![p] = Idle] \/ Goto(p, "end")
    BY <1>6 DEF FollowPlan, Done, BillOps
  <2> QED
    BY <2>1, <2>2, <2>3
<1>8. (Subscribed' <=> Subscribed) /\ Planned' = Planned
  BY <1>1 DEF Subscribed, Planned, GetDefaultQuotas
<1>9. ASSUME drift' = {}
      PROVE  (\A q \in Procs \ {p} : ~Billed(q)) /\ (Subscribed' => quota' = Planned')
  <2>1. drift = {} /\ quota # NoRow
    BY <1>1, <1>9
  <2> QED
    BY <1>1, <1>3, <1>5, <1>8, <2>1, PlanAlone DEF AccountsInv
<1>10. PlanInv'
  BY <1>1, <1>6, <1>7, <1>9, PlanMoves DEF AccountsInv
<1> QED
  BY <1>1, <1>2, <1>5, <1>6, <1>7, <1>10, PlanningTurn

LEMMA PlanFails ==
    ASSUME AccountsInv, NEW p \in Procs, BillingFails(p)
    PROVE  AccountsInv'
<1>1. /\ Billed(p) /\ job' = [job EXCEPT ![p] = Idle] /\ UNCHANGED tenancy /\ UNCHANGED people
      /\ UNCHANGED clock /\ UNCHANGED consumption /\ UNCHANGED sub /\ drift' # {}
      /\ UNCHANGED faults \/ faults' = faults + 1
  BY DEF BillingFails, Fails
<1>2. UNCHANGED <<org, quota, usage, peak, acked>> /\ UNCHANGED <<utc, local>> /\ People /\ Counters
  BY <1>1, Frames
<1>3. RowsType' /\ peak' \in Nat /\ peak' >= peak
  BY <1>2, RowsKeep DEF AccountsInv, RowsType
<1>4. PlanInv' /\ job[p].op \in BillOps
  BY <1>1, PlanDrifts DEF AccountsInv, PlanInv, Billed, BillOps
<1> QED
  BY <1>1, <1>2, <1>3, <1>4, IdleFits, PlanningTurn

LEMMA PlanReactivates ==
    ASSUME AccountsInv, HandleReactivateSubscription
    PROVE  AccountsInv'
<1>1. /\ UNCHANGED tenancy /\ UNCHANGED people /\ UNCHANGED clock /\ UNCHANGED consumption
      /\ UNCHANGED job /\ drift' # {} /\ ReactivateSubscription
  BY DEF HandleReactivateSubscription, Keep
<1>2. UNCHANGED <<org, quota, usage, peak, acked>> /\ UNCHANGED <<utc, local>> /\ People /\ Counters
  BY <1>1, Frames
<1>3. sub' \in Subscriptions \cup {NoRow}
  BY <1>1 DEF ReactivateSubscription, Subscribed, Subscriptions, AccountsInv, PlanInv
<1>4. RowsType' /\ peak' \in Nat /\ peak' >= peak
  BY <1>2, RowsKeep DEF AccountsInv, RowsType
<1>5. JobsType' /\ CreateInv' /\ PlanInv'
  BY <1>1, <1>2, <1>3, <1>4, JobStands, CreateStands, PlanDrifts DEF AccountsInv
<1>6. lost' \in Nat /\ lost' >= lost /\ UNCHANGED <<made, subject>> /\ utc' >= utc
  BY <1>2 DEF AccountsInv, OverrunInv, Counters, RowsType
<1>7. OverrunInv' /\ InviteInv'
  BY <1>1, <1>2, <1>4, <1>6, InStepStands, OverrunKeeps, InviteStands DEF AccountsInv, People
<1> QED
  BY <1>4, <1>5, <1>7 DEF AccountsInv

\* An administrator sets the quotas: a reason to differ.
LEMMA PlanOverruled ==
    ASSUME AccountsInv, NEW limit \in Custom, AdminQuotas(limit)
    PROVE  AccountsInv'
<1>1. /\ UNCHANGED <<org, usage, acked>> /\ UNCHANGED people /\ UNCHANGED clock /\ UNCHANGED consumption
      /\ UNCHANGED job /\ UNCHANGED sub /\ drift' # {} /\ UpdateQuotasRow(limit)
  BY DEF AdminQuotas, HandleUpdateQuotas, Unchanged
<1>2. UNCHANGED <<utc, local>> /\ People /\ Counters
  BY <1>1, Frames
<1>3. limit \in Nat
  BY OrganizationsAssumption
<1>4. RowsType' /\ peak' \in Nat /\ peak' >= peak /\ (quota' = NoRow <=> quota = NoRow)
  BY <1>1, <1>2, <1>3, QuotasWritten DEF AccountsInv
<1>5. PlanInv'
  BY <1>1, PlanDrifts DEF AccountsInv, PlanInv
<1>6. JobsType' /\ CreateInv'
  BY <1>1, <1>4, JobStands, CreateStands DEF AccountsInv
<1>7. lost' \in Nat /\ lost' >= lost /\ UNCHANGED <<made, subject>> /\ utc' >= utc
  BY <1>2 DEF AccountsInv, OverrunInv, Counters, RowsType
<1>8. OverrunInv' /\ InviteInv'
  BY <1>1, <1>2, <1>4, <1>7, InStepStands, OverrunKeeps, InviteStands DEF AccountsInv, People
<1> QED
  BY <1>4, <1>5, <1>6, <1>8 DEF AccountsInv

LEMMA AccountsBills ==
    ASSUME AccountsInv, BillingNext
    PROVE  AccountsInv'
<1>1. ASSUME NEW p \in Procs, NEW tier \in Tiers, HandleCreateSubscription(p, tier) PROVE AccountsInv'
  BY <1>1, PlanBegins DEF HandleCreateSubscription, BillOps
<1>2. ASSUME NEW p \in Procs, NEW tier \in Tiers \cup {"none"}, NEW atEnd \in BOOLEAN,
             HandleUpdateSubscription(p, tier, atEnd)
      PROVE  AccountsInv'
  BY <1>2, PlanBegins DEF HandleUpdateSubscription, BillOps
<1>3. ASSUME NEW p \in Procs, NEW immediately \in BOOLEAN, HandleCancelSubscription(p, immediately)
      PROVE  AccountsInv'
  <2>1. Change(p, "cancel", "small", ~immediately) /\ "small" \in Tiers
    BY <1>3, OrganizationsAssumption DEF HandleCancelSubscription
  <2> QED
    BY <2>1, PlanBegins DEF BillOps
<1>4. ASSUME NEW p \in Procs, UpdateSubscriptionEnd(p) PROVE AccountsInv'
  <2>1. /\ Billed(p) /\ job[p].step # "quotas" /\ Keep /\ UNCHANGED drift
        /\ job' = [job EXCEPT ![p] = Idle]
        /\ UNCHANGED sub \/ (Subscribed /\ sub' = [sub EXCEPT !.cancelAt = TRUE])
    BY <1>4 DEF UpdateSubscriptionEnd, At, Billed, Done
  <2> QED
    BY <2>1, PlanEnds
<1>5. CASE HandleGetSubscription
  <2>1. /\ UNCHANGED tenancy /\ UNCHANGED people /\ UNCHANGED clock /\ UNCHANGED consumption
        /\ UNCHANGED job /\ UNCHANGED billVars
    BY <1>5 DEF HandleGetSubscription, Keep
  <2> QED
    BY <2>1, Frames, AccountsRest
<1> QED
  BY <1>1, <1>2, <1>3, <1>4, <1>5, PlanCreates, PlanUpdates, PlanCancels, PlanFollows, PlanFails,
     PlanReactivates, PlanOverruled DEF BillingNext

\* Invoices and payment methods do not touch the plan.
LEMMA AccountsPays ==
    ASSUME AccountsInv, PaymentNext
    PROVE  AccountsInv'
<1>1. ASSUME NEW p \in Procs, NEW tier \in Tiers, HandleCreateSubscription(p, tier) PROVE AccountsInv'
  BY <1>1, PlanBegins DEF HandleCreateSubscription, BillOps
<1>2. CASE HandleGenerateInvoice
  <2>1. /\ UNCHANGED <<org, quota, peak, acked>> /\ UNCHANGED people /\ UNCHANGED clock
        /\ UNCHANGED consumption /\ UNCHANGED job /\ Plan /\ GenerateInvoice
    BY <1>2 DEF HandleGenerateInvoice, Plan
  <2>2. People /\ Counters /\ UNCHANGED <<utc, local>>
    BY <2>1, Frames
  <2>3. UNCHANGED usage \/ initializeUsagePeriod
    BY <2>1 DEF GenerateInvoice
  <2>4. InviteInv' /\ utc' \in Nat /\ utc' >= utc
    BY <2>2, InviteStands DEF AccountsInv, RowsType, People
  <2> QED
    BY <2>1, <2>2, <2>3, <2>4, AccountsStill
<1>3. ASSUME Keep, UNCHANGED job, Plan PROVE AccountsInv'
  <2>1. UNCHANGED tenancy /\ UNCHANGED people /\ UNCHANGED clock /\ UNCHANGED consumption
    BY <1>3 DEF Keep
  <2> QED
    BY <1>3, <2>1, Frames, AccountsRest
<1>4. ASSUME NEW i, HandleGetInvoice(i) \/ HandleListInvoices(i) PROVE AccountsInv'
  BY <1>3, <1>4 DEF HandleGetInvoice, HandleListInvoices, billVars, Plan
<1>5. ASSUME NEW m, \/ \E isDefault \in BOOLEAN : HandleAddPaymentMethod(m, isDefault)
                    \/ HandleSetDefaultPaymentMethod(m) \/ HandleRemovePaymentMethod(m)
      PROVE  AccountsInv'
  BY <1>3, <1>5 DEF HandleAddPaymentMethod, HandleSetDefaultPaymentMethod, HandleRemovePaymentMethod, Plan
<1>6. ASSUME HandleListPaymentMethods \/ \E event : HandleStripeWebhook(event) PROVE AccountsInv'
  BY <1>3, <1>6 DEF HandleListPaymentMethods, HandleStripeWebhook, billVars, Plan
<1> QED
  BY <1>1, <1>2, <1>4, <1>5, <1>6, PlanCreates, PlanFollows DEF PaymentNext

LEMMA AccountsStep == AccountsInv /\ [AccountsNext]_accountVars => AccountsInv'
<1> SUFFICES ASSUME AccountsInv, [AccountsNext]_accountVars PROVE AccountsInv'
  OBVIOUS
<1>1. CASE UNCHANGED accountVars
  <2>1. UNCHANGED orgVars /\ UNCHANGED billVars
    BY <1>1 DEF accountVars
  <2>2. /\ UNCHANGED tenancy /\ UNCHANGED people /\ UNCHANGED clock /\ UNCHANGED consumption
        /\ UNCHANGED job
    BY <2>1 DEF orgVars
  <2> QED
    BY <2>1, <2>2, Frames, AccountsRest
<1> QED
  BY <1>1, AccountsReads, AccountsMembers, AccountsCreates, AccountsConsume, AccountsBills, AccountsPays
  DEF AccountsNext

LEMMA AccountsStart == AccountsInit => AccountsInv
<1> SUFFICES ASSUME AccountsInit PROVE AccountsInv
  OBVIOUS
<1>1. /\ job = [p \in Procs |-> Idle] /\ made = [k \in Periods |-> 0] /\ lost = 0 /\ utc = 0 /\ local = 0
      /\ subject \in Resources /\ tokens = 0 /\ invites = [e \in Emails |-> NoRow]
      /\ admitted = [t \in 1 .. MaxTokens |-> {}] /\ sub = NoRow /\ drift = {}
  BY DEF AccountsInit, Unused, BillingInit
<1>2. 0 \in Periods /\ Default["small"] \in Nat /\ NoRow \notin Nat
  BY OrganizationsAssumption DEF Periods
<1>3. /\ quota \in Nat \cup {NoRow} /\ peak = (IF quota = NoRow THEN 0 ELSE quota)
      /\ usage \in [Periods -> Nat \cup {NoRow}] /\ (org = NoRow => quota = NoRow) /\ AckedIsComplete
  <2>1. CASE Unfounded
    BY <2>1 DEF Unfounded, AckedIsComplete
  <2>2. ASSUME NEW used \in Nat, Founded(used)
        PROVE  /\ quota \in Nat \cup {NoRow} /\ peak = (IF quota = NoRow THEN 0 ELSE quota)
               /\ usage \in [Periods -> Nat \cup {NoRow}] /\ (org = NoRow => quota = NoRow) /\ AckedIsComplete
    <3>1. /\ org = "active" /\ quota \in {NoRow, Default["small"]}
          /\ acked = (quota # NoRow) /\ peak = IF acked THEN quota ELSE 0
          /\ usage = [k \in Periods |-> IF acked /\ k = 0 THEN used ELSE NoRow]
      BY <2>2 DEF Founded
    <3>2. org # NoRow /\ used # NoRow
      BY <1>2, <3>1, OrganizationsAssumption
    <3>3. acked => usage[0] = used
      BY <1>2, <3>1
    <3> QED
      BY <1>2, <3>1, <3>2, <3>3 DEF AckedIsComplete
  <2> QED
    BY <2>1, <2>2 DEF AccountsInit
<1>4. RowsType
  BY <1>1, <1>2, <1>3 DEF RowsType
<1>5. \A p \in Procs : job[p] = Idle /\ job[p].op = "idle"
  BY <1>1, IdleFits
<1>6. JobsType
  BY <1>1, <1>5 DEF JobsType, JobFits, BillOps
<1>7. CreateInv
  BY <1>3, <1>5 DEF CreateInv, CreateAt
<1>8. \A step, k : InStep(step, k) = {}
  BY <1>5 DEF InStep
<1>9. OverrunInv
  <2>1. \A step, k : Cardinality(InStep(step, k)) = 0
    BY <1>8, FS_EmptySet
  <2>2. peak \in Nat /\ made \in [Periods -> Nat] /\ \A k \in Periods : made[k] = 0
    BY <1>1, <1>4 DEF RowsType
  <2>3. \A k \in Periods : usage[k] # NoRow => usage[k] \in Nat
    BY <1>3
  <2> QED
    BY <1>1, <1>8, <2>1, <2>2, <2>3, ProcsCounted DEF OverrunInv
<1>10. PlanInv
  BY <1>1, <1>5 DEF PlanInv, Billed, Subscribed
<1>11. InviteInv
  <2>1. MaxTokens \in Nat
    BY OrganizationsAssumption
  <2> QED
    BY <1>1, <2>1, FS_EmptySet DEF InviteInv, OneMemberPerInvitation
<1> QED
  BY <1>4, <1>6, <1>7, <1>9, <1>10, <1>11 DEF AccountsInv

-----------------------------------------------------------------------------
(* Theorems.                                                               *)

\* The invariant from which the four properties follow.
THEOREM AccountsInvariant == AccountsInit /\ [][AccountsNext]_accountVars => []AccountsInv
BY AccountsStart, AccountsStep, PTL

\* With any number of goroutines that check before they count, the requests
\* let through on a usage row exceed the highest quota by at most the other
\* goroutines, the increments lost and the requests no quota was found for,
\* whichever handlers run beside them.  pkg/middleware/quota.go:107
THEOREM OverrunIsBounded == AccountsInit /\ [][AccountsNext]_accountVars => []OverrunBounded
<1>1. AccountsInv => OverrunBounded
  <2> SUFFICES ASSUME AccountsInv, NEW k \in Periods
               PROVE  made[k] <= peak + (Cardinality(Procs) - 1) + lost
    BY DEF OverrunBounded
  <2>1. /\ made[k] + Cardinality(InStep("serve", k)) <= peak + (Cardinality(Procs) - 1) + lost
        /\ made[k] \in Nat /\ lost \in Nat /\ peak \in Nat
    BY DEF AccountsInv, OverrunInv, RowsType
  <2> QED
    BY <2>1, InStepCounted, ProcsCounted
<1> QED
  BY <1>1, AccountsInvariant, PTL

\* A 201 of CreateOrganization means that quotas and a usage row are there,
\* and they stay, although its four statements are no transaction and any of
\* them may fail.  pkg/orgs/service.go:56
THEOREM AckedMeansComplete == AccountsInit /\ [][AccountsNext]_accountVars => []AckedIsComplete
<1>1. AccountsInv => AckedIsComplete
  BY DEF AccountsInv, CreateInv
<1> QED
  BY <1>1, AccountsInvariant, PTL

\* A row of org_invitations lets at most one user in, however many links were
\* sent for it, revoked, expired, cleaned up or presented.
\* pkg/orgs/members.go:262
THEOREM OneMemberForInvitation ==
    AccountsInit /\ [][AccountsNext]_accountVars => []OneMemberPerInvitation
<1>1. AccountsInv => OneMemberPerInvitation
  BY DEF AccountsInv, InviteInv
<1> QED
  BY <1>1, AccountsInvariant, PTL

\* Unless one of the named reasons holds, quotas and plan agree whenever no
\* request is changing the plan.  pkg/billing/service.go:82
THEOREM PlanIsFollowed == AccountsInit /\ [][AccountsNext]_accountVars => []QuotasFollowPlan
<1>1. AccountsInv => QuotasFollowPlan
  BY DEF AccountsInv, PlanInv, QuotasFollowPlan, Planned
<1> QED
  BY <1>1, AccountsInvariant, PTL

-----------------------------------------------------------------------------
(* The rate limits.  The two limiters are alternatives, fixed by shared.   *)

\* The time after the last one: everything passed before it.
Horizon == MaxNow + 1

LimitType ==
    /\ now \in Times /\ client \in Clients /\ shared \in BOOLEAN
    /\ passed \in [0 .. Horizon -> Nat] /\ passed[0] = 0
    /\ redis \in [count : Nat, expires : Nat]
    /\ heap \in Seq([tokens : Nat, last : Times]) /\ slot \in 0 .. Len(heap)
    /\ at \in [Requests -> {"idle", "bucket", "headers"}] /\ holds \in [Requests -> Nat]

\* Nothing has passed in the future, and no bucket was filled there.
PastOnly ==
    /\ \A t \in 0 .. Horizon : t > now => passed[t] = passed[Horizon]
    /\ \A i \in 1 .. Len(heap) : heap[i].last <= now

\* Only the limiter in memory looks buckets up.
HoldsBucket ==
    \A r \in Requests : at[r] = "bucket" => ~shared /\ holds[r] \in 1 .. Len(heap)

\* A key that has expired counts nothing of the current window; a live one
\* counts everything that passed in it.
KeyCounts ==
    shared =>
        /\ redis.count = 0 => \A t \in 0 .. Horizon : passed[t] = 0
        /\ redis.count > 0 /\ redis.expires <= MaxNow =>
              \A t \in 0 .. Horizon : t + Window > redis.expires => passed[t] = passed[Horizon]
        /\ Live => \A t \in 0 .. now : t + Window > now => passed[Horizon] - passed[t] <= redis.count

\* The requests that hold a bucket Cleanup has dropped.
Stale == {r \in Requests : at[r] = "bucket" /\ holds[r] # slot}

\* Tokens taken, and tokens still to be taken from dropped buckets.
Spent == passed[Horizon] + Cardinality(Stale)
Extra == Cardinality(Requests) * Dropped

\* What was spent and what the bucket in the map holds never exceed a full
\* bucket, the refill up to lastUpdate and the holders of dropped buckets.
\* Without a bucket the full one is not needed: it was idle for two windows.
BucketPays ==
    ~shared =>
        IF slot = 0
        THEN Window * Spent <= Window * Extra + Rate[client] * now
        ELSE Window * (Spent + heap[slot].tokens)
               <= Window * (NewRateLimiter + Extra) + Rate[client] * heap[slot].last

LimitInv == LimitType /\ PastOnly /\ HoldsBucket /\ KeyCounts /\ SlidingWindow /\ BucketPays

\* The constants of the client whose requests are followed.
LEMMA LimitFacts ==
  ASSUME LimitType
  PROVE  /\ Rate[client] \in Nat \ {0} /\ Burst[client] \in Nat /\ Burst[client] <= Rate[client]
         /\ NewRateLimiter = Rate[client] + Burst[client] /\ NewRateLimiter \in Nat
         /\ Window \in Nat \ {0} /\ MaxNow \in Nat /\ Horizon \in Nat /\ Horizon = MaxNow + 1
         /\ now \in Nat /\ now <= MaxNow
<1>1. client \in Clients /\ now \in 0 .. MaxNow
  BY DEF LimitType, Times
<1>2. Rate[client] \in Nat \ {0} /\ Burst[client] \in Nat /\ Burst[client] <= Rate[client]
  BY <1>1, RateLimitAssumption
<1>3. Window \in Nat \ {0} /\ MaxNow \in Nat
  BY RateLimitAssumption
<1> QED
  BY <1>1, <1>2, <1>3 DEF NewRateLimiter, Horizon

\* Let a request through: the later counts grow by one.
LEMMA PassLemma ==
  ASSUME LimitType, PastOnly, Pass
  PROVE  /\ passed' \in [0 .. Horizon -> Nat] /\ passed'[0] = 0
         /\ \A t \in 0 .. Horizon : passed'[t] = IF t > now THEN passed[t] + 1 ELSE passed[t]
         /\ passed'[Horizon] = passed[Horizon] + 1
         /\ \A t \in 0 .. Horizon : t > now => passed'[t] = passed'[Horizon]
<1>f. now \in Nat /\ now <= MaxNow /\ MaxNow \in Nat /\ Horizon = MaxNow + 1
  BY LimitFacts
<1>t. passed \in [0 .. Horizon -> Nat] /\ passed[0] = 0
  BY DEF LimitType
<1>1. passed' = [t \in 0 .. Horizon |-> passed[t] + IF t > now THEN 1 ELSE 0]
  BY DEF Pass, Horizon
<1>2. \A t \in 0 .. Horizon : passed'[t] = IF t > now THEN passed[t] + 1 ELSE passed[t]
  BY <1>f, <1>t, <1>1
<1>3. Horizon \in 0 .. Horizon /\ Horizon > now /\ 0 \in 0 .. Horizon
  BY <1>f
<1>4. passed' \in [0 .. Horizon -> Nat]
  <2>1. \A t \in 0 .. Horizon : passed[t] + (IF t > now THEN 1 ELSE 0) \in Nat
    BY <1>t
  <2> QED
    BY <1>1, <2>1
<1>5. \A t \in 0 .. Horizon : t > now => passed[t] = passed[Horizon]
  BY DEF PastOnly
<1> QED
  BY <1>f, <1>t, <1>2, <1>3, <1>4, <1>5

\* Every bucket ever made has tokens and a time.
LEMMA BucketLemma ==
  ASSUME LimitType, NEW i \in 1 .. Len(heap)
  PROVE  heap[i] \in [tokens : Nat, last : Times]
<1>1. ASSUME NEW S, NEW s \in Seq(S), NEW j \in 1 .. Len(s) PROVE s[j] \in S
  OBVIOUS
<1>2. heap \in Seq([tokens : Nat, last : Times])
  BY DEF LimitType
<1> QED
  BY <1>1, <1>2

\* The refilled bucket.
LEMMA RefillType ==
  ASSUME LimitType, PastOnly, NEW i \in 1 .. Len(heap)
  PROVE  /\ Refill(heap[i]) \in [tokens : Nat, last : Times]
         /\ Refill(heap[i]).last <= now
<1>f. /\ Rate[client] \in Nat /\ NewRateLimiter \in Nat /\ Window \in Nat \ {0}
      /\ now \in Times /\ now \in Nat /\ MaxNow \in Nat
  BY LimitFacts DEF LimitType
<1>1. heap[i] \in [tokens : Nat, last : Times] /\ heap[i].last <= now
  BY BucketLemma DEF PastOnly
<1>2. heap[i].last \in Nat /\ heap[i].tokens \in Nat /\ now - heap[i].last \in Nat
  BY <1>f, <1>1 DEF Times
<1>3. PICK add \in Int : add = (Rate[client] * (now - heap[i].last)) \div Window
  <2>1. Rate[client] * (now - heap[i].last) \in Nat
    BY <1>f, <1>2
  <2>2. PICK a \in Nat : a = Rate[client] * (now - heap[i].last)
    BY <2>1
  <2>3. a \div Window \in Int
    BY <1>f
  <2> QED
    BY <2>2, <2>3
<1>4. Refill(heap[i]) =
        IF add > 0
        THEN [tokens |-> IF heap[i].tokens + add > NewRateLimiter THEN NewRateLimiter
                         ELSE heap[i].tokens + add, last |-> now]
        ELSE heap[i]
  BY <1>3 DEF Refill
<1>5. CASE add > 0
  BY <1>f, <1>2, <1>4, <1>5
<1>6. CASE ~(add > 0)
  BY <1>1, <1>4, <1>6
<1> QED
  BY <1>5, <1>6

\* Every step of either limiter keeps the types and stays in the past.
LEMMA LimitTypeNext ==
  ASSUME LimitType, PastOnly, HoldsBucket, [LimitNext]_limitVars
  PROVE  LimitType' /\ PastOnly' /\ HoldsBucket'
<1>f. /\ NewRateLimiter \in Nat /\ now \in Times /\ now \in Nat /\ now <= MaxNow /\ MaxNow \in Nat
      /\ Horizon = MaxNow + 1 /\ Window \in Nat
  BY LimitFacts DEF LimitType
<1>t. /\ passed \in [0 .. Horizon -> Nat] /\ passed[0] = 0
      /\ redis \in [count : Nat, expires : Nat] /\ redis.count \in Nat /\ redis.expires \in Nat
      /\ heap \in Seq([tokens : Nat, last : Times]) /\ slot \in 0 .. Len(heap)
      /\ at \in [Requests -> {"idle", "bucket", "headers"}] /\ holds \in [Requests -> Nat]
      /\ Len(heap) \in Nat
  BY DEF LimitType
<1>1. ASSUME NEW r \in Requests, Handler(r) PROVE LimitType' /\ PastOnly' /\ HoldsBucket'
  <2>0. /\ ~shared /\ at' = [at EXCEPT ![r] = "bucket"]
        /\ UNCHANGED <<now, client, shared, redis, passed>>
    BY <1>1 DEF Handler, setting
  <2>1. CASE slot # 0
    <3>1. holds' = [holds EXCEPT ![r] = slot] /\ UNCHANGED <<slot, heap>>
      BY <1>1, <2>1 DEF Handler
    <3>2. slot \in 1 .. Len(heap)
      BY <1>t, <2>1
    <3>3. LimitType'
      BY <1>t, <2>0, <3>1, <3>2 DEF LimitType
    <3>4. PastOnly'
      BY <2>0, <3>1 DEF PastOnly
    <3>5. HoldsBucket'
      BY <1>t, <2>0, <3>1, <3>2 DEF HoldsBucket
    <3> QED
      BY <3>3, <3>4, <3>5
  <2>2. CASE slot = 0
    <3>1. /\ heap' = Append(heap, [tokens |-> NewRateLimiter, last |-> now])
          /\ slot' = Len(heap) + 1 /\ holds' = [holds EXCEPT ![r] = Len(heap) + 1]
      BY <1>1, <2>2 DEF Handler
    <3>2. PICK b \in [tokens : Nat, last : Times] : b = [tokens |-> NewRateLimiter, last |-> now]
      BY <1>f
    <3>3. /\ heap' \in Seq([tokens : Nat, last : Times]) /\ Len(heap') = Len(heap) + 1
          /\ \A i \in 1 .. Len(heap) : heap'[i] = heap[i]
          /\ heap'[Len(heap) + 1] = b
      BY <1>t, <3>1, <3>2
    <3>4. LimitType'
      BY <1>t, <2>0, <3>1, <3>3 DEF LimitType
    <3>5. PastOnly'
      <4>1. ASSUME NEW i \in 1 .. Len(heap') PROVE heap'[i].last <= now
        <5>1. CASE i \in 1 .. Len(heap)
          BY <3>3, <5>1 DEF PastOnly
        <5>2. CASE i = Len(heap) + 1
          BY <1>f, <3>2, <3>3, <5>2
        <5> QED
          BY <1>t, <3>3, <4>1, <5>1, <5>2
      <4> QED
        BY <2>0, <4>1 DEF PastOnly
    <3>6. HoldsBucket'
      BY <1>t, <2>0, <3>1, <3>3 DEF HoldsBucket
    <3> QED
      BY <3>4, <3>5, <3>6
  <2> QED
    BY <2>1, <2>2
<1>2. ASSUME NEW r \in Requests, Allow(r) PROVE LimitType' /\ PastOnly' /\ HoldsBucket'
  <2>0. at[r] = "bucket" /\ UNCHANGED <<now, client, shared, slot, holds, redis>>
    BY <1>2 DEF Allow, setting
  <2>1. holds[r] \in 1 .. Len(heap)
    BY <1>2, <2>0 DEF HoldsBucket
  <2>2. PICK b \in [tokens : Nat, last : Times] : b = Refill(heap[holds[r]]) /\ b.last <= now
    BY <2>1, RefillType
  <2>3. PICK c \in [tokens : Nat, last : Times] :
          /\ c.last <= now /\ heap' = [heap EXCEPT ![holds[r]] = c]
          /\ \/ Pass /\ at' = [at EXCEPT ![r] = "headers"]
             \/ UNCHANGED passed /\ at' = [at EXCEPT ![r] = "idle"]
    <3>1. CASE b.tokens > 0
      <4>1. [b EXCEPT !.tokens = b.tokens - 1] \in [tokens : Nat, last : Times]
        BY <2>2, <3>1
      <4>2. heap' = [heap EXCEPT ![holds[r]] = [b EXCEPT !.tokens = b.tokens - 1]] /\ Pass
            /\ at' = [at EXCEPT ![r] = "headers"]
        BY <1>2, <2>2, <3>1 DEF Allow
      <4>3. [b EXCEPT !.tokens = b.tokens - 1].last = b.last
        BY <2>2
      <4> QED
        BY <2>2, <4>1, <4>2, <4>3
    <3>2. CASE ~(b.tokens > 0)
      BY <1>2, <2>2, <3>2 DEF Allow
    <3> QED
      BY <3>1, <3>2
  <2>4. /\ heap' \in Seq([tokens : Nat, last : Times]) /\ Len(heap') = Len(heap)
        /\ \A i \in 1 .. Len(heap) : heap'[i] = IF i = holds[r] THEN c ELSE heap[i]
    BY <1>t, <2>1, <2>3
  <2>5. /\ passed' \in [0 .. Horizon -> Nat] /\ passed'[0] = 0
        /\ \A t \in 0 .. Horizon : t > now => passed'[t] = passed'[Horizon]
    <3>1. CASE Pass
      BY <3>1, PassLemma
    <3>2. CASE UNCHANGED passed
      BY <1>t, <3>2 DEF PastOnly
    <3> QED
      BY <2>3, <3>1, <3>2
  <2>6. /\ at' \in [Requests -> {"idle", "bucket", "headers"}]
        /\ \A q \in Requests : at'[q] = "bucket" => at[q] = "bucket"
    BY <1>t, <2>3
  <2>7. LimitType'
    BY <1>t, <2>0, <2>4, <2>5, <2>6 DEF LimitType, Horizon
  <2>8. PastOnly'
    <3>1. \A i \in 1 .. Len(heap) : heap'[i].last <= now
      BY <2>3, <2>4 DEF PastOnly
    <3> QED
      BY <2>0, <2>4, <2>5, <3>1 DEF PastOnly, Horizon
  <2>9. HoldsBucket'
    BY <2>0, <2>4, <2>6 DEF HoldsBucket
  <2> QED
    BY <2>7, <2>8, <2>9
<1>3. ASSUME NEW r \in Requests, Remaining(r) \/ DistributedRemaining(r)
      PROVE  LimitType' /\ PastOnly' /\ HoldsBucket'
  <2>1. /\ at' = [at EXCEPT ![r] = "idle"]
        /\ UNCHANGED <<now, client, shared, slot, heap, holds, redis, passed>>
    BY <1>3 DEF Remaining, DistributedRemaining, setting
  <2>2. LimitType'
    BY <1>t, <2>1 DEF LimitType
  <2> QED
    BY <1>t, <2>1, <2>2 DEF PastOnly, HoldsBucket
<1>4. ASSUME NEW r \in Requests, DistributedAllow(r) PROVE LimitType' /\ PastOnly' /\ HoldsBucket'
  <2>0. /\ redis' = IncrExpire /\ UNCHANGED <<now, client, shared, slot, heap, holds>>
        /\ \/ Pass /\ at' = [at EXCEPT ![r] = "headers"]
           \/ UNCHANGED <<passed, at>>
    BY <1>4 DEF DistributedAllow, setting
  <2>1. redis' \in [count : Nat, expires : Nat]
    BY <1>f, <1>t, <2>0 DEF IncrExpire
  <2>2. /\ passed' \in [0 .. Horizon -> Nat] /\ passed'[0] = 0
        /\ \A t \in 0 .. Horizon : t > now => passed'[t] = passed'[Horizon]
    <3>1. CASE Pass
      BY <3>1, PassLemma
    <3>2. CASE UNCHANGED passed
      BY <1>t, <3>2 DEF PastOnly
    <3> QED
      BY <2>0, <3>1, <3>2
  <2>3. /\ at' \in [Requests -> {"idle", "bucket", "headers"}]
        /\ \A q \in Requests : at'[q] = "bucket" => at[q] = "bucket"
    BY <1>t, <2>0
  <2>4. LimitType'
    BY <1>t, <2>0, <2>1, <2>2, <2>3 DEF LimitType, Horizon
  <2>5. PastOnly' /\ HoldsBucket'
    BY <2>0, <2>2, <2>3 DEF PastOnly, HoldsBucket, Horizon
  <2> QED
    BY <2>4, <2>5
<1>5. ASSUME NEW r \in Requests, DistributedDown(r) PROVE LimitType' /\ PastOnly' /\ HoldsBucket'
  <2>0. /\ redis' \in {redis, [count |-> (IF Live THEN redis.count ELSE 0) + 1,
                               expires |-> IF Live THEN redis.expires ELSE MaxNow + 1]}
        /\ UNCHANGED <<now, client, shared, slot, heap, at, holds, passed>>
    BY <1>5 DEF DistributedDown, setting
  <2>1. redis' \in [count : Nat, expires : Nat]
    BY <1>f, <1>t, <2>0
  <2>2. LimitType'
    BY <2>0, <2>1 DEF LimitType
  <2> QED
    BY <2>0, <2>2 DEF PastOnly, HoldsBucket
<1>6. CASE Cleanup
  <2>1. slot' = 0 /\ UNCHANGED <<now, client, shared, heap, at, holds, redis, passed>>
    BY <1>6 DEF Cleanup, setting
  <2>2. LimitType'
    BY <1>t, <2>1 DEF LimitType
  <2> QED
    BY <2>1, <2>2 DEF PastOnly, HoldsBucket
<1>7. CASE Reset
  <2>1. /\ redis' = [count |-> 0, expires |-> 0] /\ passed' = [t \in 0 .. Horizon |-> 0]
        /\ UNCHANGED <<now, client, shared, slot, heap, at, holds>>
    BY <1>7 DEF Reset, setting, Horizon
  <2>2. 0 \in 0 .. Horizon /\ Horizon \in 0 .. Horizon
    BY <1>f
  <2>3. LimitType'
    BY <2>1, <2>2 DEF LimitType, Horizon
  <2> QED
    BY <2>1, <2>2, <2>3 DEF PastOnly, HoldsBucket, Horizon
<1>8. CASE Tick
  <2>1. now' = now + 1 /\ now < MaxNow
        /\ UNCHANGED <<client, shared, slot, heap, at, holds, redis, passed>>
    BY <1>8 DEF Tick, setting
  <2>2. LimitType'
    BY <1>f, <2>1 DEF LimitType, Times
  <2>3. PastOnly'
    <3>1. \A i \in 1 .. Len(heap) : heap[i].last \in Nat /\ heap[i].last <= now
      BY BucketLemma DEF PastOnly, Times
    <3>2. \A t \in 0 .. Horizon : t > now + 1 => t > now
      BY <1>f
    <3> QED
      BY <1>f, <2>1, <3>1, <3>2 DEF PastOnly
  <2> QED
    BY <2>1, <2>2, <2>3 DEF HoldsBucket
<1>9. CASE UNCHANGED limitVars
  BY <1>9 DEF limitVars, LimitType, PastOnly, HoldsBucket
<1> QED
  BY <1>1, <1>2, <1>3, <1>4, <1>5, <1>6, <1>7, <1>8, <1>9 DEF LimitNext

\* The key in Redis covers the current window: what passed in it is counted,
\* and nothing did when the key has expired.
LEMMA CoveredLemma ==
  ASSUME LimitType, KeyCounts, shared, NEW t \in 0 .. now, t + Window > now
  PROVE  /\ Live => passed[Horizon] - passed[t] <= redis.count
         /\ ~Live => passed[Horizon] - passed[t] = 0
<1>f. /\ now \in Nat /\ now <= MaxNow /\ MaxNow \in Nat /\ Horizon = MaxNow + 1
      /\ Window \in Nat /\ t \in Nat /\ t \in 0 .. Horizon /\ Horizon \in 0 .. Horizon
  BY LimitFacts
<1>t. /\ redis.count \in Nat /\ redis.expires \in Nat
      /\ passed[Horizon] \in Nat /\ passed[t] \in Nat
  BY <1>f DEF LimitType
<1>1. CASE Live
  BY <1>1 DEF KeyCounts
<1>2. CASE ~Live /\ redis.count = 0
  <2>1. passed[Horizon] = 0 /\ passed[t] = 0
    BY <1>2, <1>f DEF KeyCounts
  <2> QED
    BY <1>2, <2>1
<1>3. CASE ~Live /\ redis.count > 0
  <2>1. redis.expires <= now
    BY <1>3, <1>f, <1>t DEF Live
  <2>2. redis.expires <= MaxNow /\ t + Window > redis.expires
    BY <1>f, <1>t, <2>1
  <2>3. passed[t] = passed[Horizon]
    BY <1>3, <1>f, <2>2 DEF KeyCounts
  <2> QED
    BY <1>3, <1>t, <2>3
<1> QED
  BY <1>t, <1>1, <1>2, <1>3

\* Counting a request keeps the count of the window and its limit.
LEMMA AllowWindow ==
  ASSUME LimitType, PastOnly, KeyCounts, SlidingWindow, shared,
         NEW r \in Requests, DistributedAllow(r)
  PROVE  KeyCounts' /\ SlidingWindow'
<1>f. /\ now \in Nat /\ now <= MaxNow /\ MaxNow \in Nat /\ Horizon = MaxNow + 1
      /\ Window \in Nat \ {0} /\ Rate[client] \in Nat /\ Horizon \in 0 .. Horizon
  BY LimitFacts
<1>t. /\ redis.count \in Nat /\ redis.expires \in Nat /\ passed \in [0 .. Horizon -> Nat]
  BY DEF LimitType
<1>0. /\ redis' = IncrExpire /\ UNCHANGED <<now, client, shared>>
      /\ \/ Pass /\ redis'.count <= Rate[client]
         \/ passed' = passed
  BY DEF DistributedAllow, setting
<1>1. /\ redis'.count = (IF Live THEN redis.count ELSE 0) + 1 /\ redis'.expires = now + Window
      /\ redis'.count \in Nat /\ redis'.count > 0
  BY <1>0, <1>t DEF IncrExpire
<1>2. /\ \A t \in 0 .. Horizon : t > now => passed'[t] = passed'[Horizon]
      /\ \A t \in 0 .. now : passed'[t] = passed[t]
      /\ passed'[Horizon] \in {passed[Horizon], passed[Horizon] + 1}
  <2>1. CASE Pass
    <3>1. \A t \in 0 .. now : t \in 0 .. Horizon /\ ~(t > now)
      BY <1>f
    <3> QED
      BY <2>1, <3>1, PassLemma
  <2>2. CASE passed' = passed
    BY <2>2 DEF PastOnly
  <2> QED
    BY <1>0, <2>1, <2>2
<1>3. ASSUME NEW t \in 0 .. now, t + Window > now PROVE passed'[Horizon] - passed'[t] <= redis'.count
  <2>1. passed[Horizon] \in Nat /\ passed[t] \in Nat /\ passed'[t] = passed[t]
    BY <1>f, <1>t, <1>2, <1>3
  <2>2. /\ Live => passed[Horizon] - passed[t] <= redis.count
        /\ ~Live => passed[Horizon] - passed[t] = 0
    BY <1>3, CoveredLemma
  <2> QED
    BY <1>t, <1>1, <1>2, <2>1, <2>2
<1>4. KeyCounts'
  <2>1. \A t \in 0 .. Horizon : t + Window > redis'.expires => t > now
    BY <1>f, <1>1
  <2> QED
    BY <1>0, <1>1, <1>2, <1>3, <2>1 DEF KeyCounts, Horizon
<1>5. SlidingWindow'
  <2> SUFFICES ASSUME NEW t \in Times, t + Window - 1 \in Times
               PROVE  passed'[t + Window - 1 + 1] - passed'[t] <= Rate[client]
    BY <1>0 DEF SlidingWindow, Passes
  <2>1. /\ t + Window - 1 + 1 = t + Window /\ t + Window \in 0 .. Horizon /\ t \in 0 .. Horizon
        /\ t \in Nat /\ t + Window \in Nat
    BY <1>f DEF Times
  <2>2. passed[t + Window] - passed[t] <= Rate[client]
    BY <2>1 DEF SlidingWindow, Passes
  <2>3. passed[t + Window] \in Nat /\ passed[t] \in Nat
    BY <1>t, <2>1
  <2>4. CASE passed' = passed
    BY <2>1, <2>2, <2>4
  <2>5. CASE Pass /\ redis'.count <= Rate[client]
    <3>1. \A s \in 0 .. Horizon : passed'[s] = IF s > now THEN passed[s] + 1 ELSE passed[s]
      BY <2>5, PassLemma
    <3>2. CASE t > now \/ ~(t + Window > now)
      BY <1>f, <2>1, <2>2, <2>3, <3>1, <3>2
    <3>3. CASE t <= now /\ t + Window > now
      <4>1. passed'[t + Window] = passed'[Horizon]
        BY <1>2, <2>1, <3>3
      <4>2. passed'[Horizon] - passed'[t] <= redis'.count
        BY <1>f, <1>3, <2>1, <3>3
      <4>0. passed' \in [0 .. Horizon -> Nat]
        BY <2>5, PassLemma
      <4>3. passed'[Horizon] \in Nat /\ passed'[t] \in Nat
        BY <1>f, <2>1, <4>0
      <4> QED
        BY <1>f, <1>1, <2>1, <2>5, <4>1, <4>2, <4>3
    <3> QED
      BY <1>f, <2>1, <3>2, <3>3
  <2> QED
    BY <1>0, <2>4, <2>5
<1> QED
  BY <1>4, <1>5

\* Every step keeps the count of the window and its limit.
LEMMA WindowNext ==
  ASSUME LimitType, PastOnly, HoldsBucket, KeyCounts, SlidingWindow, [LimitNext]_limitVars
  PROVE  KeyCounts' /\ SlidingWindow'
<1>f. /\ now \in Nat /\ now <= MaxNow /\ MaxNow \in Nat /\ Horizon = MaxNow + 1
      /\ Window \in Nat \ {0} /\ Rate[client] \in Nat /\ Horizon \in 0 .. Horizon
  BY LimitFacts
<1>t. /\ redis.count \in Nat /\ redis.expires \in Nat /\ passed \in [0 .. Horizon -> Nat]
  BY DEF LimitType
<1>0. UNCHANGED <<client, shared>>
  BY DEF LimitNext, Handler, Allow, Remaining, DistributedAllow, DistributedDown,
         DistributedRemaining, Cleanup, Reset, Tick, limitVars, setting
<1>1. CASE ~shared
  BY <1>0, <1>1 DEF KeyCounts, SlidingWindow
<1>2. ASSUME shared, NEW r \in Requests, DistributedAllow(r) PROVE KeyCounts' /\ SlidingWindow'
  BY <1>2, AllowWindow
<1>3. ASSUME shared, NEW r \in Requests, DistributedDown(r) PROVE KeyCounts' /\ SlidingWindow'
  <2>0. /\ redis' \in {redis, [count |-> (IF Live THEN redis.count ELSE 0) + 1,
                               expires |-> IF Live THEN redis.expires ELSE MaxNow + 1]}
        /\ UNCHANGED <<now, client, passed>>
    BY <1>3 DEF DistributedDown, setting
  <2>1. SlidingWindow'
    BY <1>0, <2>0 DEF SlidingWindow, Passes
  <2>2. CASE redis' = redis
    BY <1>0, <2>0, <2>1, <2>2 DEF KeyCounts, Live
  <2>3. CASE redis' = [count |-> (IF Live THEN redis.count ELSE 0) + 1,
                       expires |-> IF Live THEN redis.expires ELSE MaxNow + 1]
    <3>1. /\ redis'.count = (IF Live THEN redis.count ELSE 0) + 1 /\ redis'.count > 0
          /\ redis'.expires = (IF Live THEN redis.expires ELSE MaxNow + 1)
      BY <1>t, <2>3
    <3>2. ASSUME NEW t \in 0 .. now, t + Window > now PROVE passed[Horizon] - passed[t] <= redis'.count
      <4>1. /\ Live => passed[Horizon] - passed[t] <= redis.count
            /\ ~Live => passed[Horizon] - passed[t] = 0
        BY <1>3, <3>2, CoveredLemma
      <4>2. passed[Horizon] \in Nat /\ passed[t] \in Nat
        BY <1>f, <1>t, <3>2
      <4> QED
        BY <1>t, <3>1, <4>1, <4>2
    <3>3. ASSUME redis'.expires <= MaxNow, NEW t \in 0 .. Horizon, t + Window > redis'.expires
          PROVE  passed[t] = passed[Horizon]
      <4>1. Live
        BY <1>f, <3>1, <3>3
      <4>2. redis.count > 0
        BY <4>1 DEF Live
      <4> QED
        BY <1>3, <3>1, <3>3, <4>1, <4>2 DEF KeyCounts
    <3>4. redis'.count # 0
      BY <1>t, <3>1
    <3> QED
      BY <2>0, <2>1, <3>2, <3>3, <3>4 DEF KeyCounts, Horizon
  <2> QED
    BY <2>0, <2>2, <2>3
<1>4. CASE shared /\ Reset
  <2>1. redis' = [count |-> 0, expires |-> 0] /\ passed' = [t \in 0 .. Horizon |-> 0]
    BY <1>4 DEF Reset, Horizon
  <2>2. KeyCounts'
    BY <2>1 DEF KeyCounts, Live, Horizon
  <2>3. ASSUME NEW t \in Times, t + Window - 1 \in Times
        PROVE  passed'[t + Window - 1 + 1] - passed'[t] <= Rate[client]
    <3>1. t \in 0 .. Horizon /\ t + Window - 1 + 1 \in 0 .. Horizon
      BY <1>f, <2>3 DEF Times
    <3> QED
      BY <1>f, <2>1, <3>1
  <2> QED
    BY <1>0, <2>2, <2>3 DEF SlidingWindow, Passes
<1>5. CASE shared /\ Tick
  <2>1. now' = now + 1 /\ now < MaxNow /\ UNCHANGED <<redis, passed>>
    BY <1>5 DEF Tick
  <2>2. SlidingWindow'
    BY <1>0, <2>1 DEF SlidingWindow, Passes
  <2>3. ASSUME Live', NEW t \in 0 .. now + 1, t + Window > now + 1
        PROVE  passed[Horizon] - passed[t] <= redis.count
    <3>1. passed[Horizon] \in Nat /\ passed[t] \in Nat
      BY <1>f, <1>t, <2>1, <2>3
    <3>2. CASE t = now + 1
      <4>1. passed[t] = passed[Horizon]
        BY <1>f, <2>1, <3>2 DEF PastOnly
      <4> QED
        BY <1>t, <3>1, <4>1
    <3>3. CASE t \in 0 .. now
      <4>1. Live
        BY <1>f, <1>t, <2>1, <2>3 DEF Live
      <4> QED
        BY <1>5, <1>f, <2>3, <3>3, <4>1 DEF KeyCounts
    <3> QED
      BY <1>f, <3>2, <3>3
  <2> QED
    BY <1>5, <2>1, <2>2, <2>3 DEF KeyCounts
<1>6. CASE shared /\ UNCHANGED <<now, redis, passed>>
  BY <1>0, <1>6 DEF KeyCounts, SlidingWindow, Passes, Live
<1>7. ASSUME shared, NEW r \in Requests PROVE ~Allow(r) /\ ~Handler(r) /\ ~Remaining(r)
  BY <1>7 DEF HoldsBucket, Allow, Handler, Remaining
<1>8. ASSUME NEW r \in Requests, DistributedRemaining(r) PROVE UNCHANGED <<now, redis, passed>>
  BY <1>8 DEF DistributedRemaining
<1>9. Cleanup \/ UNCHANGED limitVars => UNCHANGED <<now, redis, passed>>
  BY DEF Cleanup, limitVars
<1> QED
  BY <1>1, <1>2, <1>3, <1>4, <1>5, <1>6, <1>7, <1>8, <1>9 DEF LimitNext

\* Arithmetic of products.
LEMMA ProductMono ==
  ASSUME NEW a \in Nat, NEW b \in Nat, NEW c \in Nat, a <= b
  PROVE  c * a <= c * b
<1>1. PICK d \in Nat : b = a + d
  <2>1. b - a \in Nat /\ b = a + (b - a)
    OBVIOUS
  <2> QED
    BY <2>1
<1>2. c * b = c * a + c * d /\ c * d \in Nat /\ c * a \in Nat
  BY <1>1
<1> QED
  BY <1>2

\* Integer division takes no more than the whole.
LEMMA DivLemma ==
  ASSUME NEW a \in Nat, NEW w \in Nat \ {0}
  PROVE  /\ a \div w \in Nat
         /\ w * (a \div w) <= a /\ a < w * ((a \div w) + 1)
<1>1. a = w * (a \div w) + (a % w) /\ a % w \in 0 .. w - 1 /\ a \div w \in Int
  OBVIOUS
<1>2. a \div w \in Nat
  OBVIOUS
<1>3. PICK q \in Nat : q = a \div w
  BY <1>2
<1>4. w * (q + 1) = w * q + w /\ w * q \in Nat
  BY <1>3
<1> QED
  BY <1>1, <1>2, <1>3, <1>4

\* A refill adds at most what the rate earns since the last one.
LEMMA RefillEarned ==
  ASSUME NEW q \in Nat, NEW w \in Nat \ {0}, NEW l \in Nat, NEW n \in Nat, l <= n
  PROVE  /\ (q * (n - l)) \div w \in Nat
         /\ w * ((q * (n - l)) \div w) + q * l <= q * n
<1>1. PICK d \in Nat : d = n - l /\ n = l + d
  <2>1. n - l \in Nat /\ n = l + (n - l)
    OBVIOUS
  <2> QED
    BY <2>1
<1>2. PICK e \in Nat : e = q * d
  BY <1>1
<1>3. e \div w \in Nat /\ w * (e \div w) <= e
  BY DivLemma
<1>4. q * n = q * l + e /\ q * l \in Nat
  BY <1>1, <1>2
<1>5. PICK k \in Nat : k = e \div w
  BY <1>3
<1>6. w * k \in Nat
  OBVIOUS
<1> QED
  BY <1>1, <1>2, <1>3, <1>4, <1>5, <1>6

\* A bucket left alone for more than two windows has earned a full one.
LEMMA IdleEarned ==
  ASSUME NEW q \in Nat, NEW b \in Nat, b <= q, NEW w \in Nat, NEW l \in Nat, NEW n \in Nat,
         n - l > 2 * w
  PROVE  w * (q + b) + q * l <= q * n
<1>1. w * (q + b) <= w * (2 * q)
  BY ProductMono
<1>2. q * (l + 2 * w) <= q * n
  BY ProductMono
<1>3. w * (2 * q) = 2 * (q * w) /\ q * (l + 2 * w) = q * l + 2 * (q * w)
  OBVIOUS
<1>4. w * (q + b) \in Nat /\ q * l \in Nat /\ q * w \in Nat /\ q * n \in Nat
  OBVIOUS
<1> QED
  BY <1>1, <1>2, <1>3, <1>4

\* From products back to a bound.
LEMMA DivideBound ==
  ASSUME NEW p \in Nat, NEW m \in Nat, NEW a \in Nat, NEW w \in Nat \ {0}, w * p <= w * m + a
  PROVE  p <= m + (a \div w)
<1>1. PICK k \in Nat : k = a \div w /\ a < w * (k + 1)
  BY DivLemma
<1>2. SUFFICES ASSUME ~(p <= m + k) PROVE FALSE
  BY <1>1
<1>3. w * (m + k + 1) <= w * p
  BY <1>2, ProductMono
<1>4. w * (m + k + 1) = w * m + w * (k + 1)
  OBVIOUS
<1>5. w * m \in Nat /\ w * (k + 1) \in Nat /\ w * p \in Nat
  OBVIOUS
<1> QED
  BY <1>1, <1>3, <1>4, <1>5

\* What the balance of the bucket is made of.
LEMMA SpentType ==
  ASSUME LimitType
  PROVE  /\ IsFiniteSet(Stale) /\ Cardinality(Stale) \in Nat
         /\ Cardinality(Requests) \in Nat /\ Cardinality(Stale) <= Cardinality(Requests)
         /\ Spent \in Nat /\ Dropped \in Nat /\ Extra \in Nat /\ passed[Horizon] \in Nat
<1>1. IsFiniteSet(Requests) /\ Stale \subseteq Requests
  BY RateLimitAssumption DEF Stale
<1>2. IsFiniteSet(Stale) /\ Cardinality(Stale) <= Cardinality(Requests)
  BY <1>1, FS_Subset
<1>3. Cardinality(Stale) \in Nat /\ Cardinality(Requests) \in Nat
  BY <1>1, <1>2, FS_CardinalityType
<1>4. passed[Horizon] \in Nat
  BY LimitFacts DEF LimitType
<1>5. Dropped \in Nat
  BY DEF Dropped, LimitType
<1>6. Extra \in Nat
  BY <1>3, <1>5 DEF Extra
<1> QED
  BY <1>2, <1>3, <1>4, <1>5, <1>6 DEF Spent

\* The same after a step.
LEMMA SpentAfter == ASSUME LimitType' PROVE Spent' \in Nat
<1>1. IsFiniteSet(Requests) /\ Stale' \subseteq Requests
  BY RateLimitAssumption DEF Stale
<1>2. Cardinality(Stale') \in Nat
  BY <1>1, FS_Subset, FS_CardinalityType
<1>3. passed'[Horizon] \in Nat
  <2>1. Horizon \in 0 .. Horizon
    BY RateLimitAssumption DEF Horizon
  <2> QED
    BY <2>1 DEF LimitType, Horizon
<1> QED
  BY <1>2, <1>3 DEF Spent, Horizon

\* A refill keeps the balance of a bucket.
LEMMA RefillPays ==
  ASSUME LimitType, PastOnly, NEW i \in 1 .. Len(heap)
  PROVE  Window * Refill(heap[i]).tokens + Rate[client] * heap[i].last
           <= Window * heap[i].tokens + Rate[client] * Refill(heap[i]).last
<1>1. PICK w \in Nat \ {0} : w = Window
  BY LimitFacts
<1>2. PICK q \in Nat : q = Rate[client]
  BY LimitFacts
<1>3. PICK l \in Nat, k \in Nat : l = heap[i].last /\ k = heap[i].tokens /\ l <= now
  <2>1. heap[i] \in [tokens : Nat, last : Times] /\ heap[i].last <= now
    BY BucketLemma DEF PastOnly
  <2> QED
    BY <2>1 DEF Times
<1>4. PICK n \in Nat : n = now
  BY LimitFacts
<1>5. PICK add \in Nat : add = (q * (n - l)) \div w /\ w * add + q * l <= q * n
  BY <1>3, <1>4, RefillEarned
<1>6. CASE add > 0
  <2>1. PICK m \in Nat : m = NewRateLimiter
    BY LimitFacts
  <2>2. PICK j \in Nat : j = (IF k + add > m THEN m ELSE k + add)
    OBVIOUS
  <2>3. Refill(heap[i]) = [tokens |-> j, last |-> n]
    BY <1>1, <1>2, <1>3, <1>4, <1>5, <1>6, <2>1, <2>2 DEF Refill
  <2>4. w * j <= w * (k + add)
    BY <2>2, ProductMono
  <2>5. w * (k + add) = w * k + w * add /\ w * k \in Nat /\ w * add \in Nat /\ w * j \in Nat
        /\ q * l \in Nat /\ q * n \in Nat
    OBVIOUS
  <2>6. w * j + q * l <= w * k + q * n
    BY <1>5, <2>4, <2>5
  <2> QED
    BY <1>1, <1>2, <1>3, <2>3, <2>6
<1>7. CASE add = 0
  <2>1. Refill(heap[i]) = heap[i]
    BY <1>1, <1>2, <1>3, <1>4, <1>5, <1>7 DEF Refill
  <2>2. w * k + q * l \in Nat
    OBVIOUS
  <2> QED
    BY <1>1, <1>2, <1>3, <2>1, <2>2
<1> QED
  BY <1>6, <1>7

\* A step that spends nothing more and leaves the bucket alone.
LEMMA PaysFrame ==
  ASSUME LimitType, LimitType', BucketPays, UNCHANGED <<client, shared, slot, Dropped>>,
         Spent' <= Spent, slot # 0 => heap'[slot] = heap[slot], now <= now'
  PROVE  BucketPays'
<1> SUFFICES ASSUME ~shared PROVE BucketPays'
  BY DEF BucketPays
<1>1. PICK w \in Nat : w = Window
  BY LimitFacts
<1>2. PICK q \in Nat : q = Rate[client] /\ q = Rate[client']
  BY LimitFacts
<1>3. PICK s \in Nat, t \in Nat : s = Spent /\ t = Spent' /\ t <= s
  <2>1. Spent \in Nat /\ Spent' \in Nat
    BY SpentType, SpentAfter
  <2> QED
    BY <2>1
<1>4. PICK e \in Nat : e = Extra /\ e = Extra'
  BY SpentType DEF Extra
<1>5. CASE slot = 0
  <2>1. PICK n \in Nat, m \in Nat : n = now /\ m = now' /\ n <= m
    <3>1. now \in Nat /\ now' \in Nat
      BY LimitFacts DEF LimitType, Times
    <3> QED
      BY <3>1
  <2>2. w * t <= w * s /\ q * n <= q * m
    BY <1>3, <2>1, ProductMono
  <2>3. w * s <= w * e + q * n
    BY <1>1, <1>2, <1>3, <1>4, <1>5, <2>1 DEF BucketPays
  <2>4. w * t \in Nat /\ w * s \in Nat /\ w * e \in Nat /\ q * n \in Nat /\ q * m \in Nat
    OBVIOUS
  <2>5. w * t <= w * e + q * m
    BY <2>2, <2>3, <2>4
  <2> QED
    BY <1>1, <1>2, <1>3, <1>4, <1>5, <2>1, <2>5 DEF BucketPays
<1>6. CASE slot # 0
  <2>1. PICK k \in Nat, l \in Nat : k = heap[slot].tokens /\ l = heap[slot].last
    <3>1. slot \in 1 .. Len(heap)
      BY <1>6 DEF LimitType
    <3> QED
      BY <3>1, BucketLemma DEF Times
  <2>2. PICK c \in Nat : c = NewRateLimiter /\ c = NewRateLimiter'
    BY LimitFacts DEF NewRateLimiter
  <2>3. w * (t + k) <= w * (s + k)
    <3>0. t <= s
      BY <1>3
    <3>1. t + k \in Nat /\ s + k \in Nat /\ t + k <= s + k
      BY <3>0
    <3> QED
      BY <3>1, ProductMono
  <2>4. w * (s + k) <= w * (c + e) + q * l
    BY <1>1, <1>2, <1>3, <1>4, <1>6, <2>1, <2>2 DEF BucketPays
  <2>5. w * (t + k) \in Nat /\ w * (s + k) \in Nat /\ w * (c + e) \in Nat /\ q * l \in Nat
    OBVIOUS
  <2>6. w * (t + k) <= w * (c + e) + q * l
    BY <2>3, <2>4, <2>5
  <2> QED
    BY <1>1, <1>2, <1>3, <1>4, <1>6, <2>1, <2>2, <2>6 DEF BucketPays
<1> QED
  BY <1>5, <1>6

\* A request that finds no bucket makes a full one.
LEMMA HandlerPays ==
  ASSUME LimitType, LimitType', PastOnly, HoldsBucket, BucketPays, NEW r \in Requests, Handler(r)
  PROVE  BucketPays'
<1>0. /\ ~shared /\ at[r] = "idle" /\ at' = [at EXCEPT ![r] = "bucket"]
      /\ UNCHANGED <<now, client, shared, passed>>
  BY DEF Handler, setting
<1>t. /\ at \in [Requests -> {"idle", "bucket", "headers"}] /\ holds \in [Requests -> Nat]
      /\ heap \in Seq([tokens : Nat, last : Times]) /\ Len(heap) \in Nat /\ slot \in 0 .. Len(heap)
  BY DEF LimitType
<1>1. CASE slot # 0
  <2>1. holds' = [holds EXCEPT ![r] = slot] /\ UNCHANGED <<slot, heap>>
    BY <1>1 DEF Handler
  <2>2. Stale' = Stale
    BY <1>0, <1>t, <2>1 DEF Stale
  <2>3. Spent' = Spent /\ Dropped' = Dropped /\ Spent \in Nat
    BY <1>0, <2>1, <2>2, SpentType DEF Spent, Dropped, Horizon
  <2>4. now <= now' /\ Spent' <= Spent
    BY <1>0, <2>3, LimitFacts
  <2> QED
    BY <1>0, <2>1, <2>3, <2>4, PaysFrame
<1>2. CASE slot = 0
  <2>1. /\ heap' = Append(heap, [tokens |-> NewRateLimiter, last |-> now])
        /\ slot' = Len(heap) + 1 /\ holds' = [holds EXCEPT ![r] = Len(heap) + 1]
    BY <1>2 DEF Handler
  <2>2. /\ Len(heap') = Len(heap) + 1
        /\ heap'[slot'] = [tokens |-> NewRateLimiter, last |-> now]
    BY <1>t, <2>1
  <2>3. Stale' = Stale
    <3>1. ASSUME NEW p \in Requests, p # r, at[p] = "bucket"
          PROVE  holds[p] # slot /\ holds'[p] # slot'
      <4>1. holds[p] \in 1 .. Len(heap) /\ holds'[p] = holds[p]
        BY <1>t, <2>1, <3>1 DEF HoldsBucket
      <4> QED
        BY <1>2, <1>t, <2>1, <4>1
    <3>2. holds'[r] = slot' /\ at[r] # "bucket"
      BY <1>0, <1>t, <2>1
    <3>3. \A p \in Requests : p # r => at'[p] = at[p]
      BY <1>0, <1>t
    <3> QED
      BY <3>1, <3>2, <3>3 DEF Stale
  <2>4. Dropped' = Dropped /\ slot' # 0
    BY <1>2, <1>t, <2>1, <2>2 DEF Dropped
  <2>5. PICK s \in Nat : s = Spent /\ s = Spent'
    BY <1>0, <2>3, SpentType DEF Spent
  <2>6. PICK e \in Nat : e = Extra /\ e = Extra'
    BY <2>4, SpentType DEF Extra
  <2>7. PICK w \in Nat, q \in Nat, c \in Nat, n \in Nat :
           w = Window /\ q = Rate[client] /\ c = NewRateLimiter /\ n = now
    BY LimitFacts
  <2>8. w * s <= w * e + q * n
    BY <1>0, <1>2, <2>5, <2>6, <2>7 DEF BucketPays
  <2>9. w * (s + c) <= w * (c + e) + q * n
    <3>1. w * (s + c) = w * s + w * c /\ w * (c + e) = w * c + w * e
      OBVIOUS
    <3>2. w * s \in Nat /\ w * c \in Nat /\ w * e \in Nat /\ q * n \in Nat
      OBVIOUS
    <3> QED
      BY <2>8, <3>1, <3>2
  <2>10. NewRateLimiter' = NewRateLimiter
    BY <1>0 DEF NewRateLimiter
  <2> QED
    BY <1>0, <2>2, <2>4, <2>5, <2>6, <2>7, <2>9, <2>10 DEF BucketPays
<1> QED
  BY <1>1, <1>2

\* A request takes a token of the bucket in the map, or of a dropped one it
\* held when Cleanup dropped it.
LEMMA AllowPays ==
  ASSUME LimitType, LimitType', PastOnly, HoldsBucket, BucketPays, NEW r \in Requests, Allow(r)
  PROVE  BucketPays'
<1>0. at[r] = "bucket" /\ ~shared /\ UNCHANGED <<now, client, shared, slot, holds>>
  BY DEF Allow, setting, HoldsBucket
<1>t. /\ at \in [Requests -> {"idle", "bucket", "headers"}]
      /\ heap \in Seq([tokens : Nat, last : Times]) /\ Len(heap) \in Nat /\ slot \in 0 .. Len(heap)
  BY DEF LimitType
<1>1. holds[r] \in 1 .. Len(heap)
  BY <1>0 DEF HoldsBucket
<1>2. PICK b \in [tokens : Nat, last : Times] : b = Refill(heap[holds[r]])
  BY <1>1, RefillType
<1>3. PICK c \in [tokens : Nat, last : Times] :
        /\ heap' = [heap EXCEPT ![holds[r]] = c] /\ c.last = b.last
        /\ \/ passed'[Horizon] = passed[Horizon] + 1 /\ c.tokens + 1 = b.tokens
           \/ passed'[Horizon] = passed[Horizon] /\ c.tokens = b.tokens
        /\ \E to \in {"idle", "headers"} : at' = [at EXCEPT ![r] = to]
  <2>1. CASE b.tokens > 0
    <3>0. b.tokens \in Nat /\ b.tokens - 1 \in Nat
      BY <2>1
    <3>1. PICK d \in [tokens : Nat, last : Times] :
            d = [b EXCEPT !.tokens = b.tokens - 1] /\ d.last = b.last /\ d.tokens + 1 = b.tokens
      <4>1. [b EXCEPT !.tokens = b.tokens - 1] \in [tokens : Nat, last : Times]
        BY <3>0
      <4>2. /\ [b EXCEPT !.tokens = b.tokens - 1].last = b.last
            /\ [b EXCEPT !.tokens = b.tokens - 1].tokens = b.tokens - 1
        OBVIOUS
      <4> QED
        BY <3>0, <4>1, <4>2
    <3>2. heap' = [heap EXCEPT ![holds[r]] = d] /\ Pass /\ at' = [at EXCEPT ![r] = "headers"]
      BY <1>2, <2>1, <3>1 DEF Allow
    <3>3. passed'[Horizon] = passed[Horizon] + 1
      BY <3>2, PassLemma
    <3> QED
      BY <3>1, <3>2, <3>3
  <2>2. CASE ~(b.tokens > 0)
    BY <1>2, <2>2 DEF Allow
  <2> QED
    BY <2>1, <2>2
<1>4. Len(heap') = Len(heap) /\ \A i \in 1 .. Len(heap) : heap'[i] = IF i = holds[r] THEN c ELSE heap[i]
  BY <1>t, <1>1, <1>3
<1>5. Stale' = Stale \ {r}
  <2>1. at'[r] # "bucket" /\ \A p \in Requests : p # r => at'[p] = at[p]
    BY <1>t, <1>3
  <2> QED
    BY <1>0, <2>1 DEF Stale
<1>6. Dropped' = Dropped
  BY <1>0, <1>4 DEF Dropped
<1>7. passed[Horizon] \in Nat /\ IsFiniteSet(Stale) /\ Cardinality(Stale) \in Nat
  BY SpentType
<1>8. CASE holds[r] # slot
  <2>1. r \in Stale
    BY <1>0, <1>8 DEF Stale
  <2>2. Cardinality(Stale') = Cardinality(Stale) - 1
    BY <1>5, <1>7, <2>1, FS_RemoveElement
  <2>3. Spent' <= Spent
    <3>1. Spent' = passed'[Horizon] + Cardinality(Stale')
      BY DEF Spent, Horizon
    <3> QED
      BY <1>3, <1>7, <2>2, <3>1 DEF Spent
  <2>4. slot # 0 => heap'[slot] = heap[slot]
    BY <1>t, <1>4, <1>8
  <2>5. now <= now'
    BY <1>0, LimitFacts
  <2> QED
    BY <1>0, <1>6, <2>3, <2>4, <2>5, PaysFrame
<1>9. CASE holds[r] = slot
  <2>1. Stale' = Stale /\ slot # 0
    BY <1>1, <1>5, <1>9 DEF Stale
  <2>2. heap'[slot] = c
    BY <1>1, <1>4, <1>9
  <2>3. PICK s \in Nat, t \in Nat : s = Spent /\ t = Spent' /\ (t + c.tokens <= s + b.tokens)
    <3>1. Spent' = passed'[Horizon] + Cardinality(Stale)
      BY <2>1 DEF Spent, Horizon
    <3>2. Spent \in Nat /\ Spent' \in Nat
      BY SpentType, SpentAfter
    <3>3. Spent' + c.tokens <= Spent + b.tokens
      BY <1>3, <1>7, <3>1 DEF Spent
    <3> QED
      BY <3>2, <3>3
  <2>4. PICK e \in Nat : e = Extra /\ e = Extra'
    BY <1>6, SpentType DEF Extra
  <2>5. PICK w \in Nat, q \in Nat, m \in Nat : w = Window /\ q = Rate[client] /\ m = NewRateLimiter
    BY LimitFacts
  <2>6. PICK k \in Nat, l \in Nat : k = heap[slot].tokens /\ l = heap[slot].last
    BY <1>1, <1>9, BucketLemma DEF Times
  <2>7. PICK bt \in Nat, bl \in Nat, ct \in Nat : bt = b.tokens /\ bl = b.last /\ ct = c.tokens
    BY DEF Times
  <2>8. w * bt + q * l <= w * k + q * bl
    BY <1>1, <1>2, <1>9, <2>5, <2>6, <2>7, RefillPays
  <2>9. w * (s + k) <= w * (m + e) + q * l
    BY <1>0, <2>1, <2>3, <2>4, <2>5, <2>6 DEF BucketPays
  <2>10. w * (t + ct) <= w * (s + bt)
    BY <2>3, <2>7, ProductMono
  <2>11. w * (t + ct) <= w * (m + e) + q * bl
    <3>1. w * (s + bt) = w * s + w * bt /\ w * (s + k) = w * s + w * k
      OBVIOUS
    <3>2. /\ w * s \in Nat /\ w * bt \in Nat /\ w * k \in Nat /\ w * (m + e) \in Nat
          /\ q * l \in Nat /\ q * bl \in Nat /\ w * (t + ct) \in Nat
      OBVIOUS
    <3> QED
      BY <2>8, <2>9, <2>10, <3>1, <3>2
  <2>12. NewRateLimiter' = NewRateLimiter
    BY <1>0 DEF NewRateLimiter
  <2> QED
    BY <1>0, <1>3, <2>1, <2>2, <2>3, <2>4, <2>5, <2>7, <2>11, <2>12 DEF BucketPays
<1> QED
  BY <1>8, <1>9

\* Cleanup drops a bucket that would be full by now; its holders keep it.
LEMMA CleanupPays ==
  ASSUME LimitType, LimitType', PastOnly, BucketPays, Cleanup
  PROVE  BucketPays'
<1>0. /\ slot # 0 /\ now - heap[slot].last > 2 * Window /\ slot' = 0
      /\ UNCHANGED <<now, client, shared, heap, at, holds, passed>>
  BY DEF Cleanup, setting
<1> SUFFICES ASSUME ~shared PROVE BucketPays'
  BY <1>0 DEF BucketPays
<1>1. PICK w \in Nat, q \in Nat, b \in Nat, n \in Nat :
         /\ w = Window /\ q = Rate[client] /\ b = Burst[client] /\ n = now
         /\ b <= q /\ NewRateLimiter = q + b
  BY LimitFacts
<1>2. PICK k \in Nat, l \in Nat : k = heap[slot].tokens /\ l = heap[slot].last
  <2>1. slot \in 1 .. Len(heap)
    BY <1>0 DEF LimitType
  <2> QED
    BY <2>1, BucketLemma DEF Times
<1>3. PICK x \in Nat, y \in Nat, z \in Nat, d \in Nat, a \in Nat :
         /\ x = passed[Horizon] /\ y = Cardinality(Stale) /\ z = Cardinality(Stale')
         /\ d = Dropped /\ a = Cardinality(Requests) /\ z <= a
  <2>1. /\ passed[Horizon] \in Nat /\ Cardinality(Stale) \in Nat /\ Dropped \in Nat
        /\ Cardinality(Requests) \in Nat
    BY SpentType
  <2>2. Cardinality(Stale') \in Nat /\ Cardinality(Stale') <= Cardinality(Requests)
    <3>1. IsFiniteSet(Requests) /\ Stale' \subseteq Requests
      BY RateLimitAssumption DEF Stale
    <3> QED
      BY <3>1, FS_Subset, FS_CardinalityType
  <2> QED
    BY <2>1, <2>2
<1>4. Dropped' = d + 1
  BY <1>0, <1>3 DEF Dropped, LimitType
<1>5. Spent' = x + z /\ Extra' = a * (d + 1)
  BY <1>0, <1>3, <1>4 DEF Spent, Extra, Horizon
<1>6. w * (x + y + k) <= w * (q + b + a * d) + q * l
  BY <1>0, <1>1, <1>2, <1>3 DEF BucketPays, Spent, Extra
<1>7. w * (q + b) + q * l <= q * n
  BY <1>0, <1>1, <1>2, IdleEarned
<1>8. w * (x + z) <= w * (x + y + k) + w * a
  <2>1. w * (x + z) <= w * (x + y + k + a)
    BY <1>3, ProductMono
  <2>2. w * (x + y + k + a) = w * (x + y + k) + w * a
    OBVIOUS
  <2> QED
    BY <2>1, <2>2
<1>9. w * (x + z) <= w * (a * (d + 1)) + q * n
  <2>1. PICK f \in Nat : f = a * d
    OBVIOUS
  <2>2. a * (d + 1) = f + a
    BY <2>1
  <2>3. w * (q + b + f) = w * (q + b) + w * f /\ w * (f + a) = w * f + w * a
    OBVIOUS
  <2>4. /\ w * (x + z) \in Nat /\ w * (x + y + k) \in Nat /\ w * a \in Nat /\ w * f \in Nat
        /\ w * (q + b) \in Nat /\ q * l \in Nat /\ q * n \in Nat
    OBVIOUS
  <2>5. w * (x + y + k) <= w * (q + b) + w * f + q * l
    BY <1>6, <2>1, <2>3
  <2>6. w * (x + z) <= w * f + w * a + q * n
    BY <1>7, <1>8, <2>4, <2>5
  <2> QED
    BY <2>2, <2>3, <2>6
<1> QED
  BY <1>0, <1>1, <1>5, <1>9 DEF BucketPays

\* Every step keeps the balance.
LEMMA PaysNext ==
  ASSUME LimitType, PastOnly, HoldsBucket, BucketPays, [LimitNext]_limitVars
  PROVE  BucketPays'
<1>t. LimitType'
  BY LimitTypeNext
<1>0. UNCHANGED <<client, shared>>
  BY DEF LimitNext, Handler, Allow, Remaining, DistributedAllow, DistributedDown,
         DistributedRemaining, Cleanup, Reset, Tick, limitVars, setting
<1>1. CASE shared
  BY <1>0, <1>1 DEF BucketPays
<1>2. ASSUME NEW r \in Requests, Handler(r) PROVE BucketPays'
  BY <1>2, <1>t, HandlerPays
<1>3. ASSUME NEW r \in Requests, Allow(r) PROVE BucketPays'
  BY <1>3, <1>t, AllowPays
<1>4. CASE Cleanup
  BY <1>4, <1>t, CleanupPays
<1>5. ASSUME Stale' = Stale, UNCHANGED <<passed, slot, heap>>, now <= now' PROVE BucketPays'
  <2>1. Spent' = Spent /\ Dropped' = Dropped /\ Spent \in Nat
    BY <1>5, SpentType DEF Spent, Dropped, Horizon
  <2>2. Spent' <= Spent
    BY <2>1
  <2> QED
    BY <1>0, <1>t, <1>5, <2>1, <2>2, PaysFrame
<1>6. ASSUME NEW r \in Requests, Remaining(r) PROVE BucketPays'
  <2>1. /\ at[r] = "headers" /\ at' = [at EXCEPT ![r] = "idle"]
        /\ UNCHANGED <<now, slot, heap, holds, passed>>
    BY <1>6 DEF Remaining
  <2>2. Stale' = Stale
    BY <2>1 DEF Stale, LimitType
  <2>3. now <= now'
    BY <2>1, LimitFacts
  <2> QED
    BY <1>5, <2>1, <2>2, <2>3
<1>7. CASE Tick
  <2>1. now' = now + 1 /\ UNCHANGED <<slot, heap, at, holds, passed>>
    BY <1>7 DEF Tick
  <2>2. Stale' = Stale /\ now <= now'
    BY <2>1, LimitFacts DEF Stale
  <2> QED
    BY <1>5, <2>1, <2>2
<1>8. CASE UNCHANGED limitVars
  <2>1. Stale' = Stale /\ now <= now' /\ UNCHANGED <<passed, slot, heap>>
    BY <1>8, LimitFacts DEF Stale, limitVars
  <2> QED
    BY <1>5, <2>1
<1>9. CASE Reset \/ \E r \in Requests : DistributedAllow(r) \/ DistributedDown(r) \/ DistributedRemaining(r)
  BY <1>1, <1>9 DEF Reset, DistributedAllow, DistributedDown, DistributedRemaining
<1> QED
  BY <1>2, <1>3, <1>4, <1>6, <1>7, <1>8, <1>9 DEF LimitNext

\* Everything the two limits need.
LEMMA LimitInvariant == RateInit /\ [][LimitNext]_limitVars => []LimitInv
<1>1. RateInit => LimitInv
  <2> SUFFICES ASSUME RateInit PROVE LimitInv
    OBVIOUS
  <2>0. /\ now = 0 /\ slot = 0 /\ heap = <<>> /\ redis = [count |-> 0, expires |-> 0]
        /\ passed = [t \in 0 .. Horizon |-> 0] /\ \A r \in Requests : at[r] = "idle"
        /\ MaxNow \in Nat /\ Window \in Nat \ {0} /\ Horizon = MaxNow + 1
    BY RateLimitAssumption DEF RateInit, Horizon
  <2>1. LimitType
    BY <2>0 DEF RateInit, LimitType, Times
  <2>2. PastOnly /\ HoldsBucket
    BY <2>0 DEF PastOnly, HoldsBucket
  <2>3. KeyCounts
    BY <2>0 DEF KeyCounts, Live
  <2>4. SlidingWindow
    <3> SUFFICES ASSUME NEW t \in Times, t + Window - 1 \in Times
                 PROVE  passed[t + Window - 1 + 1] - passed[t] <= Rate[client]
      BY DEF SlidingWindow, Passes
    <3>1. t \in 0 .. Horizon /\ t + Window - 1 + 1 \in 0 .. Horizon
      BY <2>0 DEF Times
    <3>2. passed[t] = 0 /\ passed[t + Window - 1 + 1] = 0
      BY <2>0, <3>1
    <3> QED
      BY <2>1, <3>2, LimitFacts
  <2>5. BucketPays
    <3>1. Stale = {} /\ passed[Horizon] = 0 /\ Dropped = 0
      BY <2>0 DEF Stale, Dropped
    <3>2. Spent = 0 /\ Extra = 0
      BY <3>1, FS_EmptySet, SpentType, <2>1 DEF Spent, Extra
    <3> QED
      BY <2>0, <2>1, <3>2, LimitFacts DEF BucketPays
  <2> QED
    BY <2>1, <2>2, <2>3, <2>4, <2>5 DEF LimitInv
<1>2. LimitInv /\ [LimitNext]_limitVars => LimitInv'
  BY LimitTypeNext, WindowNext, PaysNext DEF LimitInv
<1> QED
  BY <1>1, <1>2, PTL

\* With the Redis counters no more than RequestsPerWindow requests of a client
\* pass in any stretch of one window, for any rate, window and number of
\* servers: the key outlives everything it still has to count.
THEOREM WindowIsKept == RateInit /\ [][LimitNext]_limitVars => []SlidingWindow
<1>1. LimitInv => SlidingWindow
  BY DEF LimitInv
<1> QED
  BY <1>1, LimitInvariant, PTL

\* With the buckets in memory no more requests pass than a full bucket, the
\* rate and the holders of dropped buckets allow, for any burst up to the rate:
\* what Cleanup drops would have been full again.
THEOREM BucketsKeepRate == RateInit /\ [][LimitNext]_limitVars => []BucketLaw
<1>1. LimitInv => BucketLaw
  <2> SUFFICES ASSUME LimitInv, ~shared
               PROVE  passed[now + 1] - passed[0]
                        <= NewRateLimiter + (Rate[client] * now) \div Window + Extra
    BY DEF BucketLaw, Passes, Extra
  <2>1. LimitType /\ PastOnly /\ BucketPays
    BY DEF LimitInv
  <2>2. PICK w \in Nat \ {0}, q \in Nat, c \in Nat, n \in Nat :
           /\ w = Window /\ q = Rate[client] /\ c = NewRateLimiter /\ n = now
           /\ n + 1 \in 0 .. Horizon
    BY <2>1, LimitFacts
  <2>3. passed[now + 1] = passed[Horizon] /\ passed[0] = 0
    BY <2>1, <2>2 DEF PastOnly, LimitType
  <2>4. PICK x \in Nat, y \in Nat, e \in Nat :
           x = passed[Horizon] /\ y = Cardinality(Stale) /\ e = Extra /\ Spent = x + y
    BY <2>1, SpentType DEF Spent
  <2>5. w * x <= w * (c + e) + q * n
    <3>1. CASE slot = 0
      <4>1. w * (x + y) <= w * e + q * n
        BY <2>1, <2>2, <2>4, <3>1 DEF BucketPays
      <4>2. w * x <= w * (x + y) /\ w * e <= w * (c + e)
        BY ProductMono
      <4>3. w * x \in Nat /\ w * (x + y) \in Nat /\ w * e \in Nat /\ w * (c + e) \in Nat /\ q * n \in Nat
        OBVIOUS
      <4> QED
        BY <4>1, <4>2, <4>3
    <3>2. CASE slot # 0
      <4>0. PICK k \in Nat, l \in Nat : k = heap[slot].tokens /\ l = heap[slot].last /\ l <= n
        <5>1. slot \in 1 .. Len(heap)
          BY <2>1, <3>2 DEF LimitType
        <5> QED
          BY <2>1, <2>2, <5>1, BucketLemma DEF PastOnly, Times
      <4>1. w * (x + y + k) <= w * (c + e) + q * l
        BY <2>1, <2>2, <2>4, <3>2, <4>0 DEF BucketPays
      <4>2. w * x <= w * (x + y + k) /\ q * l <= q * n
        BY <4>0, ProductMono
      <4>3. w * x \in Nat /\ w * (x + y + k) \in Nat /\ w * (c + e) \in Nat /\ q * l \in Nat /\ q * n \in Nat
        OBVIOUS
      <4> QED
        BY <4>1, <4>2, <4>3
    <3> QED
      BY <3>1, <3>2
  <2>6. PICK a \in Nat : a = q * n
    OBVIOUS
  <2>7. PICK k \in Nat : k = a \div w
    BY DivLemma
  <2>8. x <= c + e + k
    <3>1. PICK m \in Nat : m = c + e
      OBVIOUS
    <3>2. w * x <= w * m + a
      BY <2>5, <2>6, <3>1
    <3> QED
      BY <2>7, <3>1, <3>2, DivideBound
  <2> QED
    BY <2>2, <2>3, <2>4, <2>6, <2>7, <2>8
<1> QED
  BY <1>1, LimitInvariant, PTL
=============================================================================
