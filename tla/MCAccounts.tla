----------------------------- MODULE MCAccounts -----------------------------
(* Organizations, Billing and RateLimit, one group of operations at a time: *)
(* the groups share no statement that the others' properties depend on.     *)
EXTENDS Billing, RateLimit

CONSTANTS p1, p2, u1, u2, e1, m1, m2
VARIABLE group

MCDefault == "small" :> 1 @@ "large" :> 2
MCPrice == "small" :> 0 @@ "large" :> 5
MCRate == "user" :> 2 @@ "ip" :> 1
MCBurst == "user" :> 0 @@ "ip" :> 1

vars == <<orgVars, billVars, limitVars, group>>
MCInit ==
    /\ group \in {"create", "members", "requests", "quota", "billing", "limits"}
    /\ IF group = "create" THEN Unfounded
       ELSE \E used \in IF group = "requests" THEN {0, 3} ELSE {0} : Founded(used)
    /\ Unused /\ BillingInit /\ RateInit
    /\ group = "requests" => subject = "jobs"
    /\ group \notin {"quota", "requests"} => subject = "modules"
    /\ group # "limits" => client = "user" /\ shared /\ fallback
MCNext ==
    /\ UNCHANGED group
    /\ \/ group = "create" /\ CreateNext /\ UNCHANGED <<billVars, limitVars>>
       \/ group = "members" /\ MemberNext /\ UNCHANGED <<billVars, limitVars>>
       \/ group = "requests" /\ ReadNext /\ UNCHANGED <<billVars, limitVars>>
       \/ group = "requests" /\ PaymentNext /\ UNCHANGED limitVars
       \/ group = "quota" /\ QuotaNext /\ UNCHANGED <<billVars, limitVars>>
       \/ group = "billing" /\ BillingNext /\ UNCHANGED limitVars
       \/ group = "limits" /\ LimitNext /\ UNCHANGED <<orgVars, billVars>>
Quota == group = "quota" /\ UNCHANGED <<billVars, limitVars, group>>
Spec == MCInit /\ [][MCNext]_vars
        /\ \A p \in Procs : WF_vars(ConsumeStep(p) /\ Quota)
        /\ WF_vars(LocalMonth /\ Quota)
=============================================================================
