--------------------------- MODULE VersionCatalog ---------------------------
(***************************************************************************)
(* What the storage interface promises its callers: a catalogue of module  *)
(* versions that are published once, whole, and never change, and a read   *)
(* that returns a version exactly as it was published.                     *)
(***************************************************************************)
CONSTANTS Keys, Bodies, Procs, None

VARIABLES
    catalog,  \* [Keys -> body published, None if none]
    seen      \* [Procs -> the key and the body the process read, or None]

Init ==
    /\ catalog = [k \in Keys |-> None]
    /\ seen = [p \in Procs |-> None]

Publish(k, b) ==
    /\ catalog[k] = None
    /\ catalog' = [catalog EXCEPT ![k] = b]
    /\ UNCHANGED seen

Read(p, k) ==
    /\ catalog[k] # None
    /\ seen' = [seen EXCEPT ![p] = <<k, catalog[k]>>]
    /\ UNCHANGED catalog

\* Requests end, and a crash ends several at once.
Forget ==
    /\ \E ps \in SUBSET Procs : seen' = [p \in Procs |-> IF p \in ps THEN None ELSE seen[p]]
    /\ UNCHANGED catalog

Next ==
    \/ \E k \in Keys, b \in Bodies : Publish(k, b)
    \/ \E p \in Procs, k \in Keys : Read(p, k)
    \/ Forget

Spec == Init /\ [][Next]_<<catalog, seen>>
=============================================================================
