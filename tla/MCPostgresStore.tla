-------------------------- MODULE MCPostgresStore --------------------------
(* Two requests at a time on one version of one module, two bodies of one  *)
(* and two files that share a content, up to two replicas.                 *)
EXTENDS PostgresStore

CONSTANTS m1, v1, f1, f2, x, y, p1, p2, r1, r2, primary

MCBodies == {(f1 :> x) @@ (f2 :> y), (f1 :> y)}
Symm == Permutations({p1, p2})
=============================================================================
