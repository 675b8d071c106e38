---------------------------- MODULE MCWorkerPool ----------------------------
(* Two workers, three tasks, channels small enough to fill.                *)
EXTENDS WorkerPool, TLC

CONSTANTS w1, w2, t1, t2, t3
=============================================================================
