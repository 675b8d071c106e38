----------------------------- MODULE MCWebhooks -----------------------------
(* One webhook, two events, a log store of one entry: the second delivery  *)
(* evicts the log of the first.                                            *)
EXTENDS Webhooks, TLC

CONSTANTS h1, r1, r2, t1, t2

MCEventType == [r \in {r1, r2} |-> t1]
=============================================================================
