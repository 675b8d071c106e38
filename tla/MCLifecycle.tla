---------------------------- MODULE MCLifecycle -----------------------------
(* Three cuts: the logger with three emitters, whose events nobody reads;  *)
(* the API beside two emitters and no failure; and the server with two of  *)
(* them, within one second.                                                *)
EXTENDS Lifecycle

CONSTANTS e1, e2, e3
VARIABLE group

vars == <<lifeVars, group>>
MCInit ==
    /\ LifecycleInit /\ group \in {"log", "read", "server"}
    /\ group # "server" => ~limited
    /\ group = "read" => async
Apart == group = "server" /\ UNCHANGED group
Successes(S) == \A e \in S : event'[e] # Nothing => event'[e].status = "success"
MCNext ==
    \/ /\ group = "log" /\ LogNext /\ Silent /\ UNCHANGED <<table, ctx, group>>
       /\ Successes(Emitters)
    \/ group = "read" /\ LogNext /\ io' = 0 /\ event'[e3] = Nothing /\ sec' <= 1 /\ UNCHANGED group
    \/ /\ Apart /\ LifecycleNext /\ outer'[e3] = "none" /\ io' = 0
       /\ Successes({e2}) /\ \A e \in Emitters : answer'[e] # 403
       /\ health' = Nothing \/ \A e \in Emitters : outer[e] = "none"
Spec == MCInit /\ [][MCNext]_vars
        /\ WF_vars(Expire /\ Apart) /\ WF_vars(ServerShutdown /\ Apart) /\ WF_vars(Await /\ Apart)
=============================================================================
