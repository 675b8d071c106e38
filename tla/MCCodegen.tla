----------------------------- MODULE MCCodegen ------------------------------
(* Compilation, Plugins and Resolver, each by itself.  Compilation is      *)
(* explored along two cuts: the pool (one call for all languages, with     *)
(* faults) and the cache (calls for one language, with edits of the        *)
(* registry between and during them); Resolver on every graph of three     *)
(* versions with up to two dependencies each, one of which is pushed with  *)
(* up to one dependency while the graph is being read.                     *)
EXTENDS Compilation, Plugins, Resolver, TLC

CONSTANTS l1, l2, w1, w2, c1, p1, p2, k1
VARIABLE group

MCManifests == [d \in Dirs |->
    IF d = "good" THEN [id |-> "rust", sound |-> TRUE, api |-> "1", buf |-> FALSE, image |-> TRUE]
    ELSE [id |-> "connect", sound |-> TRUE, api |-> "1", buf |-> TRUE, image |-> FALSE]]

MCDepLists == {<<>>} \cup {<<k>> : k \in Keys} \cup {s \in Keys \X Keys : s[1] # s[2]}
PushedLists == {Unreadable, <<>>} \cup {<<k>> : k \in Keys}
Symmetry == Permutations(Keys \ {k1})

vars == <<compilationVars, pluginVars, resolverVars, group>>
On == [version |-> 1, enabled |-> TRUE]
MCInit == /\ group \in {"pool", "cache", "plugins", "resolver"}
          /\ CompilationInit /\ PluginsInit
          /\ langs[l1] = On /\ (group # "cache" => langs[l2] = On)
          /\ root = k1 /\ (group # "resolver" => op = "getImpact" /\ source = [k \in Keys |-> <<>>])
          /\ ResolverInit
MCNext ==
    /\ UNCHANGED group
    /\ \/ /\ group \in {"pool", "cache"} /\ CompilationNext
          /\ UNCHANGED <<pluginVars, resolverVars>>
          /\ IF group = "pool" THEN calls' <= 1 /\ edits' = 0
             ELSE faults' = 0 /\ Len(call'.order) <= 1
       \/ group = "plugins" /\ PluginsNext /\ UNCHANGED <<compilationVars, resolverVars>>
       \/ /\ group = "resolver" /\ ResolverNext /\ UNCHANGED <<compilationVars, pluginVars>>
          /\ pushes' # pushes => /\ phase = "build"
                                  /\ \A v \in Keys : source'[v] \in {source[v]} \cup PushedLists
Spec == MCInit /\ [][MCNext]_vars
=============================================================================
