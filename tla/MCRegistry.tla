----------------------------- MODULE MCRegistry -----------------------------
(* One module with two versions, pushes of one or two proto files of       *)
(* different lengths, two request goroutines and the sprocket process.     *)
EXTENDS Registry, TLC

CONSTANTS m1, v1, v2, f1, f2, c1, c2, go

MCBodies == {(f1 :> 1) @@ (f2 :> 1), (f1 :> 3)}

Symm == Permutations({c1, c2}) \cup Permutations({v1, v2})
=============================================================================
