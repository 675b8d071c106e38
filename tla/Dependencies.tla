---------------------------- MODULE Dependencies ----------------------------
(* pkg/dependencies: the imports of a version as edges to other versions,   *)
(* the graph reached from one of them, and what the handlers compute on it. *)
EXTENDS Schemas

CONSTANT MaxDepth   \* the largest depth a request for a drawing gives

IndexOf(s, x) == SelectInSeq(s, LAMBDA y : y = x)
\* <<module, version>> as token sequences, or <<>>.
parseImportPath(p) ==
    LET at == IndexOf(p, "@")
        i  == IF at # 0 THEN at ELSE IndexOf(p, "-")
        parts == SelectSeq(Split(p, "/"), LAMBDA s : s # <<>>)
    IN  IF i # 0 THEN <<SubSeq(p, 1, i - 1), Head(Split(SubSeq(p, i + 1, Len(p)), "/"))>>
        ELSE IF Len(parts) >= 2 /\ parts[2][1] \in VersionLike THEN <<parts[1], parts[2]>> ELSE <<>>
\* A version name is one token; anything longer names no version.
Key(d) == <<d[1], IF Len(d[2]) = 1 THEN d[2][1] ELSE "no such version">>
\* The versions that imports name, each once, in the order of the imports.
DirectDependencies(imports) ==
    FoldLeft(LAMBDA acc, d : IF d = <<>> \/ Contains(acc, Key(d)) THEN acc ELSE Append(acc, Key(d)),
             <<>>, Map(LAMBDA i : parseImportPath(i.path), imports))
ImportsOf(p) == IF p.ok THEN [ok |-> TRUE, deps |-> DirectDependencies(p.ast.imports)] ELSE p
ResolveVersion(x) ==
    IF ~x.ok THEN [ok |-> FALSE] ELSE IF x.c = Empty THEN [ok |-> TRUE, deps |-> <<>>] ELSE ImportsOf(Parsed[x.c])
ResolveDependencies(k) == ResolveVersion(GetVersion(k[1], k[2]))

(********************************* the graph *******************************)
\* A graph is a function from the versions in it to their dependencies.
RECURSIVE build(_, _)
build(g, k) ==
    LET Follow(r) == IF ~r.ok THEN [g EXCEPT !.ok = FALSE]
                     ELSE FoldLeft(LAMBDA a, d : build(a, d), [g EXCEPT !.edges = (k :> r.deps) @@ @], r.deps)
    IN  IF ~g.ok \/ k \in DOMAIN g.edges THEN g ELSE Follow(ResolveDependencies(k))
BuildDependencyGraph(k) == build([ok |-> TRUE, edges |-> <<>>], k)
EdgesOf(g, k) == IF k \in DOMAIN g THEN g[k] ELSE <<>>

RECURSIVE traverse(_, _, _)
traverse(g, s, k) ==
    IF k \in s.visited THEN s
    ELSE FoldLeft(LAMBDA a, d : traverse(g, [a EXCEPT !.result = Append(@, d)], d),
                  [s EXCEPT !.visited = @ \cup {k}], EdgesOf(g, k))
GetTransitiveDependencies(g, k) == traverse(g, [visited |-> {}, result |-> <<>>], k).result
GetDependents(g, k) == {n \in DOMAIN g : Contains(g[n], k)}

RECURSIVE hasCycle(_, _, _)
\* visited, recStack, and the path; once a cycle is found nothing changes.
hasCycle(g, s, k) ==
    LET in  == [s EXCEPT !.visited = @ \cup {k}, !.stack = @ \cup {k}, !.path = Append(@, k)]
        Look(a, d) == IF a.found THEN a
                      ELSE IF d \notin a.visited THEN hasCycle(g, a, d)
                      ELSE [a EXCEPT !.found = d \in a.stack]
        out == FoldLeft(LAMBDA a, d : Look(a, d), in, EdgesOf(g, k))
    IN  IF out.found THEN out ELSE [out EXCEPT !.stack = @ \ {k}, !.path = Front(@)]
DetectCircularDependencies(g, k) ==
    LET s == hasCycle(g, [visited |-> {}, stack |-> {}, path |-> <<>>, found |-> FALSE], k)
    IN  [found |-> s.found, path |-> IF s.found THEN s.path ELSE <<>>]

RECURSIVE visit(_, _, _)
visit(g, s, k) ==
    IF ~s.ok \/ k \in s.stack THEN [s EXCEPT !.ok = FALSE]
    ELSE IF k \in s.visited THEN s
    ELSE LET in  == [s EXCEPT !.visited = @ \cup {k}, !.stack = @ \cup {k}]
             out == FoldLeft(LAMBDA a, d : visit(g, a, d), in, EdgesOf(g, k))
         IN  IF ~out.ok THEN out ELSE [out EXCEPT !.stack = @ \ {k}, !.result = Append(@, k)]
\* As if a version were listed when it is reached instead of when it is left.
TopologicalSortEarly(g, k) ==
    LET s == visit(g, [ok |-> TRUE, visited |-> {}, stack |-> {}, result |-> <<>>], k)
    IN  [s EXCEPT !.result = Reverse(@)]
TopologicalSort(g, k) == visit(g, [ok |-> TRUE, visited |-> {}, stack |-> {}, result |-> <<>>], k)

RECURSIVE Upstream(_, _, _)
Upstream(g, seen, k) ==
    IF k \in seen THEN seen
    ELSE FoldLeft(LAMBDA a, d : Upstream(g, a, d), seen \cup {k}, SetToSeq(GetDependents(g, k)))
\* Every version reached lists all of its dependents, so one can be counted
\* several times.
GetImpactAnalysis(g, k) ==
    LET direct == GetDependents(g, k)
        reached == FoldLeft(LAMBDA a, d : Upstream(g, a, d), {}, SetToSeq(direct))
    IN  [direct |-> direct, all |-> UNION {GetDependents(g, n) : n \in reached},
         total |-> Cardinality(direct) + MapThenSumSet(LAMBDA n : Cardinality(GetDependents(g, n)), reached)]

(******************************** lockfiles ********************************)
\* <<module, version>> entries against the direct dependencies: the last
\* version of a module counts, and a second entry for it is one too many.
ValidateLockfile(entries, deps) ==
    LET current == [m \in {d[1] : d \in ToSet(deps)} |-> deps[SelectLastInSeq(deps, LAMBDA d : d[1] = m)][2]]
        Step(s, e) ==
            IF e[1] \in s.left
            THEN [left |-> s.left \ {e[1]}, diff |-> IF current[e[1]] = e[2] THEN s.diff ELSE s.diff \cup {<<"changed", e>>}]
            ELSE [s EXCEPT !.diff = @ \cup {<<"gone", e>>}]
        end == FoldLeft(Step, [left |-> DOMAIN current, diff |-> {}], entries)
    IN  end.diff \cup {<<"new", <<m, current[m]>>>> : m \in end.left}

(******************************* visualization *****************************)
\* nodes: version -> its type; edges: <<from, to>>.
addNode(c, k, type) == IF k \in DOMAIN c.nodes THEN c ELSE [c EXCEPT !.nodes = (k :> type) @@ @]
addEdge(c, from, to) == [c EXCEPT !.edges = @ \cup {<<from, to>>}]
addDirectDependencies(g, c, k) ==
    FoldLeft(LAMBDA a, d : addEdge(addNode(a, d, "dependency"), k, d), c, EdgesOf(g, k))
RECURSIVE addTransitiveDependencies(_, _, _, _, _)
addTransitiveDependencies(g, c, k, depth, at) ==
    IF depth >= 0 /\ at >= depth THEN c
    ELSE FoldLeft(LAMBDA a, d :
                    LET new == d \notin DOMAIN a.nodes
                        b == addNode(a, d, "dependency")
                    IN  addEdge(IF new THEN addTransitiveDependencies(g, b, d, depth, at + 1) ELSE b, k, d),
                  c, EdgesOf(g, k))
addDependents(g, c, k) ==
    FoldLeft(LAMBDA a, d : addEdge(addNode(a, d, "dependent"), d, k), c, SetToSeq(GetDependents(g, k)))
buildCytoscapeGraph(g, k, transitive, depth, direction) ==
    LET root == [nodes |-> k :> "current", edges |-> {}]
        down == IF direction = "dependents" THEN root
                ELSE IF transitive THEN addTransitiveDependencies(g, root, k, depth, 0)
                ELSE addDirectDependencies(g, root, k)
    IN  IF direction = "dependencies" THEN down ELSE addDependents(g, down, k)

(********************************* handlers ********************************)
Failed(op, k) == [op |-> op, status |-> 500, root |-> k]
Reply(op, k, g, Result(_)) ==
    Answer(IF g.ok THEN [op |-> op, status |-> 200, root |-> k, result |-> Result(g.edges)] ELSE Failed(op, k))
WithGraph(op, k, Result(_)) == Reply(op, k, BuildDependencyGraph(k), Result)
getDependencies(k) ==
    LET r == ResolveDependencies(k)
    IN  Answer(IF r.ok THEN [op |-> "getDependencies", status |-> 200, root |-> k, result |-> r.deps]
               ELSE Failed("getDependencies", k))
getTransitiveDependencies(k) == WithGraph("getTransitiveDependencies", k, LAMBDA g : GetTransitiveDependencies(g, k))
getDependents(k) == WithGraph("getDependents", k, LAMBDA g : GetDependents(g, k))
getImpact(k) == WithGraph("getImpact", k, LAMBDA g : GetImpactAnalysis(g, k))
getDependencyGraph(k) ==
    WithGraph("getDependencyGraph", k, LAMBDA g : [edges |-> g, cycle |-> DetectCircularDependencies(g, k)])
getCytoscapeGraph(k, transitive, depth, direction) ==
    WithGraph("getCytoscapeGraph", k, LAMBDA g : [depth |-> IF transitive THEN depth ELSE 1, direction |-> direction,
                                                  drawn |-> buildCytoscapeGraph(g, k, transitive, depth, direction)])
GenerateLockfile(k) ==
    LET g == BuildDependencyGraph(k)
    IN  IF g.ok THEN TopologicalSort(g.edges, k) ELSE [ok |-> FALSE]
getLockfile(k) ==
    LET s == GenerateLockfile(k)
    IN  Answer(IF s.ok THEN [op |-> "getLockfile", status |-> 200, root |-> k, result |-> s.result] ELSE Failed("getLockfile", k))
\* The lockfile sent is the one the last answer held, or an empty one.
validateLockfile(k) ==
    LET r == ResolveDependencies(k)
        sent == IF answer.op = "getLockfile" /\ answer.status = 200 THEN answer.result ELSE <<>>
    IN  Answer(IF r.ok THEN [op |-> "validateLockfile", status |-> 200, root |-> k,
                             result |-> ValidateLockfile(sent, r.deps)] ELSE Failed("validateLockfile", k))

DependenciesNext ==
    \E k \in {x[1] : x \in DOMAIN store} \X (ToSet(VersionNames) \cup {"latest"}) :
        \/ getDependencies(k) \/ getTransitiveDependencies(k) \/ getDependents(k) \/ getImpact(k)
        \/ getDependencyGraph(k) \/ getLockfile(k) \/ validateLockfile(k)
        \/ \E transitive \in BOOLEAN, depth \in {-1} \cup 1..MaxDepth, direction \in {"dependencies", "dependents", "both"} :
              getCytoscapeGraph(k, transitive, depth, direction)

(******************************** properties *******************************)
\* The newest version by its numbers, defined without sorting.
Numbers(v) == Map(LAMBDA x : x.n, Parts[v])
Exceeds(v, w) ==
    \E n \in 1..(Len(Numbers(v))) :
        /\ \A i \in 1..(n - 1) : i <= Len(Numbers(w)) /\ Numbers(v)[i] = Numbers(w)[i]
        /\ n <= Len(Numbers(w)) => Numbers(v)[n] > Numbers(w)[n]
Newest(m) == CHOOSE v \in {k[2] : k \in {x \in DOMAIN store : x[1] = m}} :
               \A w \in {k[2] : k \in {x \in DOMAIN store : x[1] = m}} \ {v} : ~Exceeds(w, v)
Stored(k) == IF k[2] = "latest" /\ backend = "fs" /\ \E x \in DOMAIN store : x[1] = k[1]
             THEN <<k[1], Newest(k[1])>> ELSE k
\* The versions a text asks for, read off the import as it was written.
Wanted(path) ==
    LET at == IndexOf(path, "@")
        parts == SelectSeq(Split(path, "/"), LAMBDA s : s # <<>>)
    IN  IF at # 0 THEN {<<SubSeq(path, 1, at - 1), path[at + 1]>>}
        ELSE IF Len(parts) >= 2 /\ parts[2][1] \in VersionLike THEN {<<parts[1], parts[2][1]>>} ELSE {}
Asks(k) ==
    IF Stored(k) \notin DOMAIN store \/ store[Stored(k)].c = Empty THEN {}
    ELSE LET f == Content[store[Stored(k)].c] IN UNION {Wanted(f[i].path) : i \in ToSet(ImportLines(f))}
RECURSIVE Spread(_)
Spread(S) == LET T == S \cup UNION {Asks(k) : k \in S} IN IF T = S THEN S ELSE Spread(T)
Reach(k) == Spread({k})
Broken(k) == Stored(k) \notin DOMAIN store \/ (store[Stored(k)].c # Empty /\ ~Parsed[store[Stored(k)].c].ok)
Cyclic(k) == \E n \in Reach(k) : \E d \in Asks(n) : n \in Reach(d)
Hyphenated(k) == \E n \in Reach(k) : Contains(n[1], "-")
SetOf(s) == ToSet(s)
GraphAnswer(a) ==
    LET R == Reach(a.root) IN
    /\ a.status = 500 <=> (\E n \in R : Broken(n)) \/ (a.op = "getLockfile" /\ Cyclic(a.root))
    /\ a.status = 200 =>
       CASE a.op = "getLockfile" ->
              /\ SetOf(a.result) = R /\ Len(a.result) = Cardinality(R)
              /\ \A i, j \in DOMAIN a.result : a.result[j] \in Asks(a.result[i]) => j < i
         [] a.op = "getTransitiveDependencies" -> SetOf(a.result) = UNION {Asks(n) : n \in R}
         [] a.op = "getDependencyGraph" ->
              /\ DOMAIN a.result.edges = R /\ \A n \in R : SetOf(a.result.edges[n]) = Asks(n)
              /\ a.result.cycle.found <=> Cyclic(a.root)
              /\ a.result.cycle.found =>
                   LET p == a.result.cycle.path
                   IN  /\ \A i \in 1..(Len(p) - 1) : p[i + 1] \in Asks(p[i])
                       /\ \E i \in DOMAIN p : p[i] \in Asks(Last(p))
         [] a.op = "getDependents" -> a.result = {n \in R : a.root \in Asks(n)}
         [] a.op = "getImpact" -> a.result.total >= Cardinality(a.result.direct \cup a.result.all)
         [] a.op = "getCytoscapeGraph" ->
              /\ DOMAIN a.result.drawn.nodes \subseteq R
              /\ a.result.depth = -1 /\ a.result.direction # "dependents" => DOMAIN a.result.drawn.nodes = R
              /\ \A e \in a.result.drawn.edges : e[2] \in Asks(e[1]) /\ {e[1], e[2]} \subseteq DOMAIN a.result.drawn.nodes
\* A request about a version's graph fails exactly when some version it asks
\* for, directly or not, is missing or does not parse; otherwise its answer is
\* that of the relation the imports write down: the lockfile lists every
\* version reached once, after its own dependencies, and is refused exactly
\* where there is a cycle, which the graph reports with a path that leads into
\* it; an unlimited drawing shows every version reached, and a limited one no
\* edge without its ends.  The name "latest" stands for the highest version.
\* Modules with a dash in their name are left out: parseImportPath cuts them
\* at the dash (BuildDependencyGraph, TopologicalSort, getLatestVersion).
ResolverSound ==
    answer.op \in {"getLockfile", "getTransitiveDependencies", "getDependencyGraph", "getDependents", "getImpact", "getCytoscapeGraph"}
      /\ ~Hyphenated(answer.root) => GraphAnswer(answer)
=============================================================================
