---------------------------- MODULE MCSprocket ----------------------------
(* Three versions of two modules, two of them in the store at startup; a   *)
(* version may depend on a or on b, so chains, cycles and a version that    *)
(* depends on itself occur.                                                *)
EXTENDS Sprocket, TLC

CONSTANTS a, b, c, ma, mc

MCModuleOf == (a :> ma) @@ (b :> ma) @@ (c :> mc)
MCDepSets == {{}, {a}, {b}}
NoDeps == {{}}
=============================================================================
