-------------------------- MODULE DeliveryPromise --------------------------
(***************************************************************************)
(* What the webhook manager promises of a delivery: it is attempted at     *)
(* most MaxAttempts times, one request at a time, and ends once: delivered *)
(* by one request, or abandoned, before its last attempt only when its     *)
(* webhook was revoked.                                                    *)
(***************************************************************************)
EXTENDS Naturals

CONSTANTS Deliveries, MaxAttempts

VARIABLES
    phase,    \* [Deliveries -> "none", "trying", "delivered" or "abandoned"]
    calling,  \* [Deliveries -> a request to the receiver is under way]
    tries,    \* [Deliveries -> attempts]
    received, \* [Deliveries -> requests that reached the receiver]
    revoked   \* deliveries whose webhook was switched off since

Init ==
    /\ phase = [d \in Deliveries |-> "none"]
    /\ calling = [d \in Deliveries |-> FALSE]
    /\ tries = [d \in Deliveries |-> 0]
    /\ received = [d \in Deliveries |-> 0]
    /\ revoked = {}

Create(d) ==
    /\ phase[d] = "none"
    /\ phase' = [phase EXCEPT ![d] = "trying"]
    /\ UNCHANGED <<calling, tries, received, revoked>>

\* An attempt may be made: none is under way and one is left.
Open(d) == phase[d] = "trying" /\ ~calling[d] /\ tries[d] < MaxAttempts

\* After n attempts in vain.
InVain(n) == IF n = MaxAttempts THEN "abandoned" ELSE "trying"

Call(d) ==
    /\ Open(d)
    /\ calling' = [calling EXCEPT ![d] = TRUE]
    /\ tries' = [tries EXCEPT ![d] = @ + 1]
    /\ UNCHANGED <<phase, received, revoked>>

\* An attempt that the rate limit stops counts as well.
Limit(d) ==
    /\ Open(d)
    /\ tries' = [tries EXCEPT ![d] = @ + 1]
    /\ phase' = [phase EXCEPT ![d] = InVain(tries[d] + 1)]
    /\ UNCHANGED <<calling, received, revoked>>

\* A request that failed may have reached the receiver.
Answer(d) ==
    /\ calling[d] /\ calling' = [calling EXCEPT ![d] = FALSE]
    /\ \/ /\ phase' = [phase EXCEPT ![d] = "delivered"]
          /\ received' = [received EXCEPT ![d] = @ + 1]
       \/ /\ phase' = [phase EXCEPT ![d] = InVain(tries[d])]
          /\ received' \in {received, [received EXCEPT ![d] = @ + 1]}
    /\ UNCHANGED <<tries, revoked>>

Revoke ==
    /\ \E ds \in SUBSET {d \in Deliveries : phase[d] # "none"} : revoked' = revoked \cup ds
    /\ UNCHANGED <<phase, calling, tries, received>>

Abandon(d) ==
    /\ phase[d] = "trying" /\ ~calling[d] /\ d \in revoked
    /\ phase' = [phase EXCEPT ![d] = "abandoned"]
    /\ UNCHANGED <<calling, tries, received, revoked>>

Next ==
    \/ \E d \in Deliveries :
         Create(d) \/ Call(d) \/ Limit(d) \/ Answer(d) \/ Abandon(d)
    \/ Revoke

Spec == Init /\ [][Next]_<<phase, calling, tries, received, revoked>>
=============================================================================
