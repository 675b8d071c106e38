------------------------------ MODULE Billing ------------------------------
(***************************************************************************)
(* pkg/billing behind pkg/api/billing_handlers.go: the subscription,       *)
(* invoices and payment methods of the organization of Organizations.  A   *)
(* plan lives in two rows, subscriptions and org_quotas, that are written  *)
(* by separate statements.  The Stripe handlers of this version only parse.*)
(***************************************************************************)
EXTENDS Organizations, Sequences

CONSTANTS
    Methods,     \* payment methods that may be added
    BasePrice, OverPrice, \* [Tiers -> cents], for the plan and per unit over the quota
    MaxInvoices, \* bound: invoices
    MaxChanges   \* bound: changes of the subscription

\* The rows of subscriptions.
Subscriptions ==
    [plan : Tiers, status : {"active", "canceled"}, customer : {"mock"},
     cancelAt : BOOLEAN, canceledAt : BOOLEAN]
ASSUME BillingAssumption == NoRow \notin Subscriptions

VARIABLES
    sub,      \* row of subscriptions, or NoRow
    invoices, \* rows of invoices, oldest first
    methods,  \* [Methods -> NoRow, "added" or "default"]
    changes,  \* subscription requests so far
    drift     \* history: why quotas may differ from the plan

billVars == <<sub, invoices, methods, changes, drift>>

BillingInit ==
    /\ sub = NoRow /\ invoices = <<>> /\ methods = [m \in Methods |-> NoRow]
    /\ changes = 0 /\ drift = {}

Subscribed == sub # NoRow
Billed(p) == job[p].op \in {"subscribe", "replan", "cancel"}
\* Two requests change the plan at a time.
Overlap(p) == IF \E q \in Procs \ {p} : Billed(q) THEN {"overlap"} ELSE {}
Keep == UNCHANGED <<tenancy, people, clock, consumption, faults>>
KeepSub == UNCHANGED <<invoices, methods>>

GetSubscription == sub
GetStripeCustomer == IF Subscribed THEN sub.customer ELSE NoRow
\* The UPDATE finds a row only when there is a subscription.
CreateStripeCustomer == IF Subscribed THEN [sub EXCEPT !.customer = "mock"] ELSE sub

-----------------------------------------------------------------------------
(* Subscriptions: the row of the plan first, the quotas in a later step.   *)

Change(p, op, tier, atEnd) ==
    /\ changes < MaxChanges /\ changes' = changes + 1
    /\ Begin(p, [op |-> op, step |-> "sub", tier |-> tier, atEnd |-> atEnd])
    /\ drift' = drift \cup Overlap(p)
    /\ Quiet /\ KeepSub /\ Keep /\ UNCHANGED sub

HandleCreateSubscription(p, tier) == Change(p, "subscribe", tier, FALSE)
HandleUpdateSubscription(p, tier, atEnd) == Change(p, "replan", tier, atEnd)
HandleCancelSubscription(p, immediately) == Change(p, "cancel", "small", ~immediately)

\* An upsert: cancel_at and canceled_at of an earlier subscription stay.
CreateSubscription(p) ==
    /\ At(p, "subscribe", "sub")
    /\ sub' = IF Subscribed
              THEN [CreateStripeCustomer EXCEPT !.plan = job[p].tier, !.status = "active"]
              ELSE [plan |-> job[p].tier, status |-> "active", customer |-> "mock",
                    cancelAt |-> FALSE, canceledAt |-> FALSE]
    /\ IF GetOrganization = NoRow
       THEN Done(p) /\ Answer(500, "error") /\ drift' = drift \cup {"failed"}
       ELSE Goto(p, "quotas") /\ Quiet /\ UNCHANGED drift
    /\ KeepSub /\ Keep /\ UNCHANGED changes

\* Without a row the UPDATE changes nothing and the quotas still follow.
UpdateSubscription(p) ==
    /\ At(p, "replan", "sub")
    /\ IF job[p].tier = "none"
       THEN Goto(p, "end") /\ UNCHANGED <<sub, drift>>
       ELSE /\ Goto(p, "quotas")
            /\ sub' = IF Subscribed THEN [sub EXCEPT !.plan = job[p].tier] ELSE sub
            /\ drift' = IF Subscribed /\ sub.status = "active" THEN drift ELSE drift \cup {"replanned"}
    /\ Quiet /\ KeepSub /\ Keep /\ UNCHANGED changes
UpdateSubscriptionEnd(p) ==
    /\ At(p, "replan", "end") /\ Done(p)
    /\ sub' = IF Subscribed /\ job[p].atEnd THEN [sub EXCEPT !.cancelAt = TRUE] ELSE sub
    /\ IF Subscribed THEN Answer(200, "subscription") ELSE Answer(500, "error")
    /\ KeepSub /\ Keep /\ UNCHANGED <<changes, drift>>

CancelSubscription(p) ==
    /\ At(p, "cancel", "sub")
    /\ IF job[p].atEnd
       THEN /\ Done(p) /\ Answer(204, "")
            /\ sub' = IF Subscribed THEN [sub EXCEPT !.cancelAt = TRUE] ELSE sub
       ELSE /\ Goto(p, "quotas") /\ Quiet
            /\ sub' = IF Subscribed THEN [sub EXCEPT !.status = "canceled", !.canceledAt = TRUE] ELSE sub
    /\ KeepSub /\ Keep /\ UNCHANGED <<changes, drift>>

\* Mutant: the quotas stay those of the old plan.
FollowPlanKept(p) ==
    /\ Billed(p) /\ job[p].step = "quotas" /\ Done(p) /\ Answer(200, "subscription")
    /\ UNCHANGED <<billVars, tenancy, people, clock, consumption, faults>>
\* UpdateQuotas with the defaults of the plan: the second half of all three.
FollowPlan(p) ==
    /\ Billed(p) /\ job[p].step = "quotas"
    /\ UpdateQuotasRow(GetDefaultQuotas(job[p].tier))
    /\ drift' = IF quota = NoRow THEN drift \cup {"failed"} ELSE drift
    /\ CASE quota = NoRow -> Done(p) /\ Answer(500, "error")
         [] quota # NoRow /\ job[p].op = "replan" -> Goto(p, "end") /\ Quiet
         [] quota # NoRow /\ job[p].op = "cancel" -> Done(p) /\ Answer(204, "")
         [] quota # NoRow /\ job[p].op = "subscribe" -> Done(p) /\ Answer(201, "subscription")
    /\ KeepSub /\ UNCHANGED <<org, usage, acked, people, clock, consumption, faults, sub, changes>>

BillingFails(p) ==
    /\ Billed(p) /\ Fails(p)
    /\ drift' = drift \cup {"failed"}
    /\ UNCHANGED <<sub, invoices, methods, changes, tenancy, people, clock, consumption>>

\* The quotas of the plan are not restored.
ReactivateSubscription ==
    sub' = IF Subscribed
           THEN [sub EXCEPT !.status = "active", !.cancelAt = FALSE, !.canceledAt = FALSE] ELSE sub
HandleReactivateSubscription ==
    /\ ReactivateSubscription
    /\ IF Subscribed THEN Answer(200, "subscription") ELSE Answer(500, "error")
    /\ drift' = drift \cup {"reactivated"}
    /\ UNCHANGED job /\ KeepSub /\ Keep /\ UNCHANGED changes
HandleGetSubscription ==
    /\ IF GetSubscription = NoRow THEN Answer(404, "error") ELSE Returns("sub", sub)
    /\ UNCHANGED <<billVars, job>> /\ Keep
AdminQuotas(limit) ==
    /\ HandleUpdateQuotas(limit)
    /\ drift' = drift \cup {"admin"} /\ UNCHANGED <<sub, invoices, methods, changes>>

-----------------------------------------------------------------------------
(* Invoices.                                                               *)

\* The base price and what exceeds the quotas; an unknown plan costs nothing.
DefaultPlanPricing(plan) ==
    IF plan \in {"small", "medium", "large"}
    THEN [base |-> BasePrice[plan], over |-> OverPrice[plan]] ELSE [base |-> 0, over |-> 0]
Over(used, included) == IF used > included THEN used - included ELSE 0
CalculateBill ==
    LET price == DefaultPlanPricing(sub.plan)
        used == usage[GetUsage]
        included == IF subject = "api" THEN quota * 24 * 30 ELSE quota IN
    price.base + (IF subject \in {"storage", "jobs", "api"} THEN Over(used, included) * price.over ELSE 0)

\* GetUsage, CalculateBill and the INSERT; there is no key on the period.
GenerateInvoice ==
    IF ~Subscribed \/ quota = NoRow
    THEN Answer(500, "error") /\ UNCHANGED <<invoices, usage>>
    ELSE IF Current = {} THEN initializeUsagePeriod /\ Quiet /\ UNCHANGED invoices
    ELSE /\ invoices' = Append(invoices, [period |-> GetUsage, cents |-> CalculateBill, status |-> "open"])
         /\ Answer(201, "invoice") /\ UNCHANGED usage
HandleGenerateInvoice ==
    /\ Len(invoices) < MaxInvoices
    /\ GenerateInvoice
    /\ UNCHANGED <<sub, methods, changes, drift, job, org, quota, peak, acked, people, clock,
                   consumption, faults>>
GetInvoice(i) == IF i \in DOMAIN invoices THEN invoices[i] ELSE NoRow
HandleGetInvoice(i) ==
    /\ IF GetInvoice(i) = NoRow THEN Answer(404, "error") ELSE Returns("invoice", GetInvoice(i))
    /\ UNCHANGED <<billVars, job>> /\ Keep
ListInvoices(limit) == [i \in {j \in DOMAIN invoices : j > Len(invoices) - limit} |-> invoices[i]]
HandleListInvoices(limit) ==
    Returns("invoices", ListInvoices(limit)) /\ UNCHANGED <<billVars, job>> /\ Keep

-----------------------------------------------------------------------------
(* Payment methods and Stripe.                                             *)

AddPaymentMethod(m, isDefault) ==
    methods' = [methods EXCEPT ![m] = IF isDefault THEN "default" ELSE "added"]
HandleAddPaymentMethod(m, isDefault) ==
    /\ methods[m] = NoRow
    /\ AddPaymentMethod(m, isDefault) /\ Answer(201, "method")
    /\ UNCHANGED <<sub, invoices, changes, drift, job>> /\ Keep
\* The default one first.
ListPaymentMethods ==
    <<{m \in Methods : methods[m] = "default"}, {m \in Methods : methods[m] = "added"}>>
HandleListPaymentMethods ==
    Returns("methods", ListPaymentMethods) /\ UNCHANGED <<billVars, job>> /\ Keep
\* One transaction: an unknown method rolls the first statement back.
SetDefaultPaymentMethod(m) ==
    methods' = [n \in Methods |-> CASE n = m -> "default" [] methods[n] = NoRow -> NoRow [] OTHER -> "added"]
HandleSetDefaultPaymentMethod(m) ==
    /\ IF methods[m] = NoRow THEN Answer(500, "error") /\ UNCHANGED methods
                             ELSE Answer(204, "") /\ SetDefaultPaymentMethod(m)
    /\ UNCHANGED <<sub, invoices, changes, drift, job>> /\ Keep
RemovePaymentMethod(m) == methods' = [methods EXCEPT ![m] = NoRow]
HandleRemovePaymentMethod(m) ==
    /\ RemovePaymentMethod(m)
    /\ IF methods[m] = NoRow THEN Answer(500, "error") ELSE Answer(204, "")
    /\ UNCHANGED <<sub, invoices, changes, drift, job>> /\ Keep

\* Every known type is routed to a handler that does nothing yet, an unknown
\* one is ignored, a body that is no event is refused.
StripeEvents == {"customer.subscription.created", "customer.subscription.updated",
                 "customer.subscription.deleted", "invoice.paid", "invoice.payment_failed"}
HandleWebhook(event) == IF event \in StripeEvents \cup {"unknown"} THEN 200 ELSE 400
HandleStripeWebhook(event) ==
    Answer(HandleWebhook(event), "") /\ UNCHANGED <<billVars, job>> /\ Keep

BillingNext ==
    \/ \E p \in Procs :
        \/ \E tier \in Tiers : HandleCreateSubscription(p, tier)
        \/ \E tier \in Tiers \cup {"none"}, atEnd \in BOOLEAN : HandleUpdateSubscription(p, tier, atEnd)
        \/ \E immediately \in BOOLEAN : HandleCancelSubscription(p, immediately)
        \/ CreateSubscription(p) \/ UpdateSubscription(p) \/ UpdateSubscriptionEnd(p)
        \/ CancelSubscription(p) \/ FollowPlan(p) \/ BillingFails(p)
    \/ HandleReactivateSubscription \/ HandleGetSubscription
    \/ \E limit \in Custom : AdminQuotas(limit)

PaymentNext ==
    \/ \E p \in Procs, tier \in Tiers : changes = 0 /\ HandleCreateSubscription(p, tier)
    \/ \E p \in Procs : CreateSubscription(p) \/ FollowPlan(p)
    \/ HandleGenerateInvoice
    \/ \E i \in 1 .. MaxInvoices : HandleGetInvoice(i) \/ HandleListInvoices(i)
    \/ \E m \in Methods :
        \/ \E isDefault \in BOOLEAN : HandleAddPaymentMethod(m, isDefault)
        \/ HandleSetDefaultPaymentMethod(m) \/ HandleRemovePaymentMethod(m)
    \/ HandleListPaymentMethods
    \/ \E event \in StripeEvents \cup {"unknown", "garbage"} : HandleStripeWebhook(event)

-----------------------------------------------------------------------------
\* Between requests the quotas are those of the plan, or the small ones once
\* the subscription is canceled; unless two requests changed the plan at the
\* same time, one of them failed half way, a subscription that is not active
\* was given a plan or was reactivated, or an administrator set the quotas.
\* pkg/billing/service.go:82
QuotasFollowPlan ==
    (Subscribed /\ quota # NoRow /\ drift = {} /\ \A p \in Procs : ~Billed(p))
        => quota = GetDefaultQuotas(IF sub.status = "canceled" THEN "small" ELSE sub.plan)
=============================================================================
