------------------------------ MODULE Resolver ------------------------------
(***************************************************************************)
(* pkg/dependencies: a request about the graph of a version, call by call. *)
(* BuildDependencyGraph reads one version after another from the storage,  *)
(* where other requests push meanwhile; the walks then run on the graph.   *)
(* A recursive call is a frame: its key and what its loop has still to do. *)
(* The frame below them all is the handler, which makes the first call.    *)
(***************************************************************************)
EXTENDS Naturals, FiniteSets, Sequences, Functions

CONSTANTS
    Keys,       \* module@version
    DepLists,   \* lists of dependencies ResolveDependencies can return
    Unreadable, \* a version that is missing or does not parse
    NoKey,
    MaxPushes   \* bound: pushes during the behaviour

ASSUME ResolverAssumption ==
    /\ IsFiniteSet(Keys) /\ DepLists \subseteq Seq(Keys)
    /\ Unreadable \notin DepLists /\ NoKey \notin Keys /\ MaxPushes \in Nat

Ops == {"getLockfile", "getDependencyGraph", "getTransitiveDependencies", "getImpact"}

VARIABLES
    source,   \* [Keys -> what ResolveDependencies would return]
    pushes,
    op, root, \* the request
    phase,    \* "idle", "build", "walk" or "answered"
    reply,    \* "none", "ok", "unreadable" or "cycle"
    stack,    \* the calls under way, the innermost last
    visited,  \* visited of the recursion under way
    recStack, \* recStack of TopologicalSort and DetectCircularDependencies
    nodes,    \* graph.nodes
    edges,    \* [Keys -> graph.edges, empty without an entry]
    result,   \* result of TopologicalSort or GetTransitiveDependencies, or allDependents
    past,     \* history: [Keys -> what source has held since the request began]
    reads     \* history: [Keys -> calls of GetVersion]

storage == <<source, pushes, past>>
graphVars == <<nodes, edges, reads>>
resolverVars == <<storage, op, root, phase, reply, stack, visited, recStack, graphVars, result>>

Frame(k, list) == [key |-> k, rest |-> list]
Top == stack[Len(stack)]
Dep == Head(Top.rest)   \* the dependency the innermost loop comes to
Advanced == [stack EXCEPT ![Len(stack)].rest = Tail(@)]
Popped == SubSeq(stack, 1, Len(stack) - 1)

ResolverInit ==
    /\ source \in [Keys -> DepLists \cup {Unreadable}] /\ pushes = 0
    /\ op \in Ops /\ root \in Keys /\ phase = "idle" /\ reply = "none"
    /\ stack = <<>> /\ visited = {} /\ recStack = {}
    /\ nodes = {} /\ edges = [k \in Keys |-> <<>>] /\ result = <<>>
    /\ past = [k \in Keys |-> {}] /\ reads = [k \in Keys |-> 0]

\* Another request pushes a version, or the first one under its name.
PushVersion(k) ==
    /\ pushes < MaxPushes /\ pushes' = pushes + 1
    /\ \E list \in DepLists \cup {Unreadable} :
         /\ source' = [source EXCEPT ![k] = list]
         /\ past' = [past EXCEPT ![k] = @ \cup {list}]
    /\ UNCHANGED <<op, root, phase, reply, stack, visited, recStack, graphVars, result>>

HandleRequest ==
    /\ phase = "idle" /\ phase' = "build"
    /\ stack' = <<Frame(NoKey, <<root>>)>>
    /\ past' = [k \in Keys |-> {source[k]}]
    /\ UNCHANGED <<source, pushes, op, root, reply, visited, recStack, graphVars, result>>

Calling(p) == phase = p /\ Top.rest # <<>>
Leaving(p) == phase = p /\ Top.rest = <<>>
Ends(r) == phase' = "answered" /\ reply' = r

-----------------------------------------------------------------------------
(* BuildDependencyGraph.                                                   *)

\* Mutant: an import cycle or a diamond reads its version again.
BuildAgain(d) == TRUE
NotBuilt(d) == d \notin visited

\* build(d): GetVersion reads the storage of this moment.
BuildCall ==
    /\ Calling("build")
    /\ LET d == Dep IN
       IF ~NotBuilt(d)
       THEN stack' = Advanced /\ UNCHANGED <<phase, reply, visited, graphVars>>
       ELSE /\ visited' = visited \cup {d} /\ reads' = [reads EXCEPT ![d] = @ + 1]
            /\ IF source[d] = Unreadable
               THEN Ends("unreadable") /\ stack' = Advanced /\ UNCHANGED <<nodes, edges>>
               ELSE /\ nodes' = nodes \cup {d} /\ edges' = [edges EXCEPT ![d] = source[d]]
                    /\ stack' = Append(Advanced, Frame(d, source[d]))
                    /\ UNCHANGED <<phase, reply>>
    /\ UNCHANGED <<storage, op, root, recStack, result>>

GetDependents(k) == {n \in nodes : k \in Range(edges[n])}
\* The map of edges is read in any order.
Orders(S) == {f \in [1 .. Cardinality(S) -> S] : Range(f) = S}

\* The handler has its graph and starts its walk.
StartWalk(list) ==
    /\ phase' = "walk" /\ visited' = {} /\ stack' = <<Frame(NoKey, list)>>

BuildReturn ==
    /\ Leaving("build")
    /\ IF Len(stack) > 1 THEN stack' = Popped /\ UNCHANGED <<phase, visited>>
       ELSE \E list \in IF op = "getImpact" THEN Orders(GetDependents(root)) ELSE {<<root>>} :
              StartWalk(list)
    /\ UNCHANGED <<storage, op, root, reply, recStack, graphVars, result>>

-----------------------------------------------------------------------------
(* The walks.                                                              *)
Skip == stack' = Advanced /\ UNCHANGED visited
Enter(d, list) == stack' = Append(Advanced, Frame(d, list)) /\ visited' = visited \cup {d}

\* visit of TopologicalSort.
VisitCall ==
    /\ Calling("walk") /\ op = "getLockfile"
    /\ \/ /\ Dep \in recStack
          /\ Ends("cycle") /\ UNCHANGED <<stack, visited, recStack>>
       \/ /\ Dep \notin recStack /\ Dep \in visited
          /\ Skip /\ UNCHANGED <<recStack, phase, reply>>
       \/ /\ Dep \notin recStack \cup visited
          /\ Enter(Dep, edges[Dep]) /\ recStack' = recStack \cup {Dep}
          /\ UNCHANGED <<phase, reply>>
    /\ UNCHANGED <<storage, op, root, graphVars, result>>

\* hasCycle of DetectCircularDependencies; its path is the keys of the frames.
HasCycleCall ==
    /\ Calling("walk") /\ op = "getDependencyGraph"
    /\ \/ /\ Dep \notin visited
          /\ Enter(Dep, edges[Dep]) /\ recStack' = recStack \cup {Dep}
          /\ UNCHANGED <<phase, reply>>
       \/ /\ Dep \in visited /\ Dep \in recStack
          /\ Ends("cycle") /\ UNCHANGED <<stack, visited, recStack>>
       \/ /\ Dep \in visited /\ Dep \notin recStack
          /\ Skip /\ UNCHANGED <<recStack, phase, reply>>
    /\ UNCHANGED <<storage, op, root, graphVars, result>>
path == [i \in 1 .. Len(stack) - 1 |-> stack[i + 1].key]

\* traverse of GetTransitiveDependencies and GetImpactAnalysis.
TraverseCall ==
    /\ Calling("walk") /\ op \in {"getTransitiveDependencies", "getImpact"}
    /\ result' = IF Top.key = NoKey THEN result ELSE Append(result, Dep)
    /\ \/ Dep \in visited /\ Skip
       \/ /\ Dep \notin visited
          /\ \E list \in IF op = "getImpact" THEN Orders(GetDependents(Dep)) ELSE {edges[Dep]} :
               Enter(Dep, list)
    /\ UNCHANGED <<storage, op, root, phase, reply, recStack, graphVars>>

\* Mutant: recStack keeps what was left, so that a diamond is a cycle.
LeaveKeeps(k) == recStack
Leave(k) == recStack \ {k}
List(k) == IF k \in nodes THEN Append(result, k) ELSE result

\* The end of a loop; the handler's own is the end of the walk.
WalkReturn ==
    /\ Leaving("walk")
    /\ IF Len(stack) = 1 THEN Ends("ok") /\ UNCHANGED <<stack, recStack, result>>
       ELSE /\ stack' = Popped
            /\ recStack' = IF op \in {"getLockfile", "getDependencyGraph"} THEN Leave(Top.key) ELSE recStack
            /\ result' = IF op = "getLockfile" THEN List(Top.key) ELSE result
            /\ UNCHANGED <<phase, reply>>
    /\ UNCHANGED <<storage, op, root, visited, graphVars>>

ResolverNext ==
    \/ \E k \in Keys : PushVersion(k)
    \/ HandleRequest \/ BuildCall \/ BuildReturn
    \/ VisitCall \/ HasCycleCall \/ TraverseCall \/ WalkReturn
ResolverSpec == ResolverInit /\ [][ResolverNext]_resolverVars

-----------------------------------------------------------------------------
\* Whatever is pushed meanwhile, a graph that is answered from holds exactly
\* the versions its edges lead to, each read once and with dependencies it had
\* at some moment of the request; and a request is refused only for a version
\* that was asked for and could not be read at that moment.  All of it is one
\* storage read after another.  BuildDependencyGraph, graph.go:325
GraphComplete ==
    /\ root \in nodes /\ \A k \in nodes : Range(edges[k]) \subseteq nodes
    /\ \A S \in SUBSET nodes :
         root \in S /\ (\A k \in S : Range(edges[k]) \subseteq S) => S = nodes
GraphFaithful ==
    /\ \A k \in Keys : reads[k] <= 1 /\ (k \in nodes => edges[k] \in past[k])
    /\ reply \in {"ok", "cycle"} => GraphComplete
    /\ reply = "unreadable" =>
         \E d \in Keys \ nodes :
            Unreadable \in past[d] /\ (d = root \/ \E k \in nodes : d \in Range(edges[k]))

\* No set of versions in which each needs another one of the set.
Acyclic ==
    \A S \in SUBSET nodes : S # {} => \E k \in S : Range(edges[k]) \cap S = {}

\* A lockfile is refused, and a cycle reported, exactly when there is one,
\* diamonds and repeated imports notwithstanding; the path reported starts at
\* the root, follows the edges, and leads back into itself.
\* TopologicalSort, DetectCircularDependencies, graph.go:123
CycleExact ==
    /\ op \in {"getLockfile", "getDependencyGraph"} /\ reply \in {"ok", "cycle"} =>
         (reply = "ok" <=> Acyclic)
    /\ op = "getDependencyGraph" /\ reply = "cycle" =>
         /\ path # <<>> /\ path[1] = root
         /\ \A i \in 1 .. Len(path) - 1 : path[i + 1] \in Range(edges[path[i]])
         /\ Range(edges[path[Len(path)]]) \cap Range(path) # {}

\* A lockfile lists every version of the graph, each once, after what it needs.
\* TopologicalSort, graph.go:161
LockfileOrdered ==
    op = "getLockfile" /\ reply = "ok" =>
        /\ Range(result) = nodes
        /\ \A i, j \in DOMAIN result :
             /\ i # j => result[i] # result[j]
             /\ result[j] \in Range(edges[result[i]]) => j < i

\* The versions the traversal has gone through, and where it goes from them.
Successors(k) == IF op = "getImpact" THEN GetDependents(k) ELSE Range(edges[k])
Seeds == IF op = "getImpact" THEN GetDependents(root) ELSE {root}

\* The traversals report everything that is reached and nothing else: the
\* least set with the root (its dependents) and all dependencies (dependents)
\* of its members is gone through, and those are listed.
\* GetTransitiveDependencies, GetImpactAnalysis, graph.go:70 and 215
ReachComplete ==
    op \in {"getTransitiveDependencies", "getImpact"} /\ reply = "ok" =>
        /\ Seeds \subseteq visited /\ \A k \in visited : Successors(k) \subseteq visited
        /\ \A S \in SUBSET visited :
             Seeds \subseteq S /\ (\A k \in S : Successors(k) \subseteq S) => S = visited
        /\ Range(result) = UNION {Successors(k) : k \in visited}

\* The answer of every walk is exact for its graph: the cycle, the order of
\* the lockfile, what is reached.  graph.go:70, 123, 161 and 215
WalksExact == CycleExact /\ LockfileOrdered /\ ReachComplete
=============================================================================
