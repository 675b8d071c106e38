---------------------------- MODULE CodegenProofs ---------------------------
(***************************************************************************)
(* Code generation for any number of languages, workers, containers and    *)
(* plugins: the binary of a plugin lies there in part only where an        *)
(* extraction was cut, no container is forgotten without a race, and the   *)
(* results of a compilation are those of its request.  And the resolver of *)
(* dependencies for any number of versions: its graph is faithful, and its *)
(* sort, its search for cycles and its traversals are correct.             *)
(***************************************************************************)
EXTENDS Compilation, Plugins, Resolver, FiniteSetTheorems, WellFoundedInduction, TLAPS

-----------------------------------------------------------------------------
(* Plugins.                                                                *)
\* The steps of a loader that work on a directory.
AtWork == {"manifest", "stat", "download", "extract", "verify", "load", "register"}

LoaderInv ==
    /\ binary \in [Ids -> {"absent", "part", "whole"}]
    /\ loader \in [Loaders -> [step : AtWork \cup {"off", "scan", "ready"},
                               todo : SUBSET Dirs, dir : Dirs \cup {NoEntry}]]
    /\ \A p \in Loaders : loader[p].step \in AtWork => loader[p].dir \in Dirs
    /\ PartOnlyWhereCut

\* A plugin at work is one of those the manifests name.
LEMMA ManifestId ==
    ASSUME LoaderInv, NEW p \in Loaders, loader[p].step \in AtWork
    PROVE  Manifest(p).id \in Ids
BY DEF LoaderInv, Manifest, Ids

\* A step of one loader that neither ends an extraction nor touches a binary.
LEMMA LoaderMoves ==
    ASSUME LoaderInv, NEW p \in Loaders, ~Reached(p, "extract"), UNCHANGED <<binary, cutShort>>,
           NEW r \in [step : AtWork \cup {"off", "scan", "ready"},
                      todo : SUBSET Dirs, dir : Dirs \cup {NoEntry}],
           r.step \in AtWork => r.dir \in Dirs,
           loader' = [loader EXCEPT ![p] = r]
    PROVE  LoaderInv'
<1>1. /\ loader' \in [Loaders -> [step : AtWork \cup {"off", "scan", "ready"},
                                  todo : SUBSET Dirs, dir : Dirs \cup {NoEntry}]]
      /\ \A q \in Loaders : loader'[q].step \in AtWork => loader'[q].dir \in Dirs
  BY DEF LoaderInv
<1>2. \A i \in Ids : Extracting(i) => Extracting(i)'
  BY DEF LoaderInv, Extracting, Reached, Manifest
<1>3. PartOnlyWhereCut'
  BY <1>2 DEF LoaderInv, PartOnlyWhereCut
<1> QED
  BY <1>1, <1>3 DEF LoaderInv

\* The same for a step that only advances the loader.
LEMMA LoaderAdvances ==
    ASSUME LoaderInv, NEW p \in Loaders, ~Reached(p, "extract"), UNCHANGED <<binary, cutShort>>,
           NEW s \in AtWork \cup {"scan", "ready"}, To(p, s),
           s \in AtWork => loader[p].dir \in Dirs
    PROVE  LoaderInv'
<1> DEFINE r == [loader[p] EXCEPT !.step = s]
<1>1. /\ r \in [step : AtWork \cup {"off", "scan", "ready"},
                todo : SUBSET Dirs, dir : Dirs \cup {NoEntry}]
      /\ r.step \in AtWork => r.dir \in Dirs
      /\ loader' = [loader EXCEPT ![p] = r]
  BY DEF LoaderInv, To
<1> HIDE DEF r
<1> QED
  BY <1>1, LoaderMoves

\* Download and extractZip: the binary is written in part, then whole.
LEMMA DownloadKeeps ==
    ASSUME LoaderInv, NEW p \in Loaders, Download(p) \/ extractZip(p)
    PROVE  LoaderInv'
<1>0. PICK i \in Ids : i = Manifest(p).id
  BY ManifestId DEF Download, extractZip, Reached, AtWork
<1>1. i \in Ids /\ loader[p].dir \in Dirs /\ Manifests[loader[p].dir].id = i
  BY <1>0 DEF Download, extractZip, Reached, AtWork, LoaderInv, Manifest
<1>2. /\ loader' \in [Loaders -> [step : AtWork \cup {"off", "scan", "ready"},
                                  todo : SUBSET Dirs, dir : Dirs \cup {NoEntry}]]
      /\ \A q \in Loaders : loader'[q].step \in AtWork => loader'[q].dir \in Dirs
      /\ \A q \in Loaders : loader'[q].dir = loader[q].dir
      /\ \A q \in Loaders \ {p} : loader'[q] = loader[q]
  BY <1>1 DEF Download, extractZip, To, LoaderInv, AtWork
<1>3. binary' \in [Ids -> {"absent", "part", "whole"}]
  BY <1>0, <1>1 DEF Download, extractZip, LoaderInv
<1>4. \A j \in Ids : j # i /\ Extracting(j) => Extracting(j)'
  BY <1>0, <1>2 DEF Extracting, Reached, Manifest
<1>5. \A j \in Ids : j # i /\ binary'[j] = "part" => binary[j] = "part"
  BY <1>0 DEF Download, extractZip, LoaderInv
<1>6. cutShort \subseteq cutShort'
  BY DEF Download, extractZip, disk
<1>7. binary'[i] = "part" => Extracting(i)' \/ i \in cutShort'
  <2>1. CASE Download(p)
    <3>1. CASE binary' = binary
      <4>1. binary[i] = "part" => Extracting(i) \/ i \in cutShort
        BY <1>1 DEF LoaderInv, PartOnlyWhereCut
      <4>2. Extracting(i) => Extracting(i)'
        BY <1>2, <2>1 DEF Extracting, Reached, Manifest, Download
      <4> QED
        BY <1>6, <3>1, <4>1, <4>2
    <3>2. CASE To(p, "extract")
      <4>1. loader'[p].step = "extract"
        BY <3>2 DEF To, LoaderInv
      <4> QED
        BY <1>1, <1>2, <4>1 DEF Extracting, Reached, Manifest
    <3> QED
      BY <2>1, <3>1, <3>2 DEF Download
  <2>2. CASE extractZip(p)
    BY <1>0, <2>2 DEF extractZip, LoaderInv
  <2> QED
    BY <2>1, <2>2
<1>8. PartOnlyWhereCut'
  <2>1. ASSUME NEW j \in Ids, binary'[j] = "part" PROVE Extracting(j)' \/ j \in cutShort'
    <3>1. CASE j = i
      BY <1>7, <2>1, <3>1
    <3>2. CASE j # i
      <4>1. Extracting(j) \/ j \in cutShort
        BY <1>5, <2>1, <3>2 DEF LoaderInv, PartOnlyWhereCut
      <4> QED
        BY <1>4, <1>6, <3>2, <4>1
    <3> QED
      BY <3>1, <3>2
  <2> QED
    BY <2>1 DEF PartOnlyWhereCut
<1> QED
  BY <1>2, <1>3, <1>8 DEF LoaderInv

\* Entries and binaries go together, also under an extraction.
LEMMA RemovalKeeps ==
    ASSUME LoaderInv, NEW S, Removed(S), UNCHANGED loader
    PROVE  LoaderInv'
<1>1. binary' \in [Ids -> {"absent", "part", "whole"}]
  BY DEF LoaderInv, Removed
<1>2. \A j \in Ids : binary'[j] = "part" => j \notin S /\ binary[j] = "part"
  BY DEF Removed
<1>3. \A j \in Ids : Extracting(j)' <=> Extracting(j)
  BY DEF Extracting, Reached, Manifest
<1>4. \A j \in Ids : j \in cutShort /\ j \notin S => j \in cutShort'
  BY DEF Removed
<1>5. PartOnlyWhereCut'
  BY <1>2, <1>3, <1>4 DEF LoaderInv, PartOnlyWhereCut
<1> QED
  BY <1>1, <1>5 DEF LoaderInv

\* A process that ends in the middle of an extraction leaves its mark.
LEMMA ExitKeeps ==
    ASSUME LoaderInv, NEW p \in Loaders, Exit(p)
    PROVE  LoaderInv'
<1>1. /\ loader' = [loader EXCEPT ![p] = Off] /\ UNCHANGED binary
      /\ cutShort' = IF Reached(p, "extract") THEN cutShort \cup {Manifest(p).id} ELSE cutShort
  BY DEF Exit
<1>2. /\ loader' \in [Loaders -> [step : AtWork \cup {"off", "scan", "ready"},
                                  todo : SUBSET Dirs, dir : Dirs \cup {NoEntry}]]
      /\ \A q \in Loaders : loader'[q].step \in AtWork => loader'[q].dir \in Dirs
  BY <1>1 DEF LoaderInv, Off, AtWork
<1>3. ASSUME NEW j \in Ids, Extracting(j) PROVE Extracting(j)' \/ j \in cutShort'
  <2>1. PICK q \in Loaders : Reached(q, "extract") /\ Manifest(q).id = j
    BY <1>3 DEF Extracting
  <2>2. CASE q = p
    BY <1>1, <2>1, <2>2
  <2>3. CASE q # p
    BY <1>1, <2>1, <2>3 DEF Extracting, Reached, Manifest, LoaderInv
  <2> QED
    BY <2>2, <2>3
<1>4. cutShort \subseteq cutShort'
  BY <1>1
<1>5. PartOnlyWhereCut'
  <2> SUFFICES ASSUME NEW j \in Ids, binary'[j] = "part"
               PROVE  Extracting(j)' \/ j \in cutShort'
    BY DEF PartOnlyWhereCut
  <2>1. Extracting(j) \/ j \in cutShort
    BY <1>1 DEF LoaderInv, PartOnlyWhereCut
  <2> QED
    BY <1>3, <1>4, <2>1
<1> QED
  BY <1>1, <1>2, <1>5 DEF LoaderInv

\* Every step of the loaders and of the plugin cache.
LEMMA PluginStep == LoaderInv /\ [PluginsNext]_pluginVars => LoaderInv'
<1> SUFFICES ASSUME LoaderInv, [PluginsNext]_pluginVars PROVE LoaderInv'
  OBVIOUS
<1> USE DEF disk
<1>1. CASE UNCHANGED <<binary, loader, cutShort>>
  BY <1>1 DEF LoaderInv, PartOnlyWhereCut, Extracting, Reached, Manifest
<1>2. ASSUME NEW p \in Loaders, LoadPlugins(p) PROVE LoaderInv'
  <2> DEFINE r == [step |-> "scan", todo |-> Dirs, dir |-> NoEntry]
  <2>1. /\ r \in [step : AtWork \cup {"off", "scan", "ready"},
                  todo : SUBSET Dirs, dir : Dirs \cup {NoEntry}]
        /\ r.step \notin AtWork
    BY DEF AtWork
  <2>2. loader' = [loader EXCEPT ![p] = r] /\ UNCHANGED <<binary, cutShort>>
        /\ ~Reached(p, "extract")
    BY <1>2 DEF LoadPlugins, Reached
  <2> HIDE DEF r
  <2> QED
    BY <2>1, <2>2, LoaderMoves
<1>3. ASSUME NEW p \in Loaders, DiscoverPlugins(p) PROVE LoaderInv'
  <2>0. UNCHANGED <<binary, cutShort>> /\ ~Reached(p, "extract")
    BY <1>3 DEF DiscoverPlugins, Reached
  <2>1. CASE To(p, "ready")
    BY <2>0, <2>1, LoaderAdvances DEF AtWork
  <2>2. ASSUME NEW d \in loader[p].todo,
               loader' = [loader EXCEPT ![p] =
                            [step |-> "manifest", todo |-> @.todo \ {d}, dir |-> d]]
        PROVE  LoaderInv'
    <3> DEFINE r == [step |-> "manifest", todo |-> loader[p].todo \ {d}, dir |-> d]
    <3>1. /\ r \in [step : AtWork \cup {"off", "scan", "ready"},
                    todo : SUBSET Dirs, dir : Dirs \cup {NoEntry}]
          /\ r.dir \in Dirs
      BY DEF AtWork, LoaderInv
    <3>2. loader' = [loader EXCEPT ![p] = r]
      BY <2>2 DEF LoaderInv
    <3> HIDE DEF r
    <3> QED
      BY <2>0, <3>1, <3>2, LoaderMoves
  <2> QED
    BY <1>3, <2>1, <2>2 DEF DiscoverPlugins
<1>4. ASSUME NEW p \in Loaders,
             loadPluginFromDir(p) \/ BufLoad(p) \/ verifyBinary(p) \/ Loaded(p) \/ Register(p)
      PROVE  LoaderInv'
  <2>1. /\ UNCHANGED <<binary, cutShort>> /\ ~Reached(p, "extract") /\ loader[p].dir \in Dirs
        /\ \E s \in AtWork \cup {"scan", "ready"} : To(p, s)
    <3>1. CASE loadPluginFromDir(p)
      BY <3>1 DEF loadPluginFromDir, Reached, AtWork, LoaderInv
    <3>2. CASE BufLoad(p)
      BY <3>2 DEF BufLoad, Reached, AtWork, LoaderInv
    <3>3. CASE verifyBinary(p)
      BY <3>3 DEF verifyBinary, Reached, AtWork, LoaderInv
    <3>4. CASE Loaded(p) \/ Register(p)
      BY <3>4 DEF Loaded, Register, Reached, AtWork, LoaderInv
    <3> QED
      BY <1>4, <3>1, <3>2, <3>3, <3>4
  <2> QED
    BY <2>1, LoaderAdvances
<1>5. ASSUME NEW p \in Loaders, Download(p) \/ extractZip(p) PROVE LoaderInv'
  BY <1>5, DownloadKeeps
<1>6. ASSUME NEW p \in Loaders, Exit(p) PROVE LoaderInv'
  BY <1>6, ExitKeeps
<1>7. ASSUME NEW p \in Loaders,
             UnloadPlugin(p) \/ RegisterPlugin(p) \/ Unregister(p) \/ Clear(p)
      PROVE  LoaderInv'
  BY <1>1, <1>7 DEF UnloadPlugin, RegisterPlugin, Unregister, Clear
<1>8. ASSUME NEW i \in Ids, CreateEntry(i) \/ UpdateLastUsed(i) PROVE LoaderInv'
  BY <1>1, <1>8 DEF CreateEntry, UpdateLastUsed
<1>9. ASSUME NEW i \in Ids, RemoveEntry(i) PROVE LoaderInv'
  BY <1>9, RemovalKeeps DEF RemoveEntry
<1>10. CASE PruneOldEntries \/ ClearCache
  BY <1>10, RemovalKeeps DEF PruneOldEntries, ClearCache
<1>11. CASE VerifyIntegrity \/ ListCachedPlugins \/ NextDay \/ UNCHANGED pluginVars
  BY <1>1, <1>11 DEF VerifyIntegrity, ListCachedPlugins, NextDay, pluginVars
<1> QED
  BY <1>2, <1>3, <1>4, <1>5, <1>6, <1>7, <1>8, <1>9, <1>10, <1>11 DEF PluginsNext

\* The binary of a Buf plugin lies in ~/.buf/plugins in part only while a
\* process extracts it or after an extraction was cut short, for any number
\* of processes and plugins.
THEOREM PartsAreCut == PluginsInit /\ [][PluginsNext]_pluginVars => []PartOnlyWhereCut
<1>1. PluginsInit => LoaderInv
  BY DEF PluginsInit, LoaderInv, Off, AtWork, PartOnlyWhereCut
<1>2. LoaderInv => PartOnlyWhereCut
  BY DEF LoaderInv
<1> QED
  BY <1>1, <1>2, PluginStep, PTL
-----------------------------------------------------------------------------
(* Compilation: types.                                                     *)
LangSpec == [version : Nat, enabled : BOOLEAN]
Files == Contents \cup {NoFiles}
WorkerSteps == {"gone", "idle", "start", "cache", "pull", "mark", "create", "append", "run",
                "store", "keep"}
WorkerType == [step : WorkerSteps, i : Nat, spec : LangSpec \cup {NoSpec}, id : Nat,
               copy : SUBSET Nat, out : Nat]
ResultType == [lang : Langs, version : Nat, files : Files, grpc : BOOLEAN, hit : BOOLEAN,
               stored : BOOLEAN]
CallType == [phase : {"none", "running", "refused", "returned"}, engine : Engines,
             req : [files : Files, grpc : BOOLEAN], order : Seq(Langs), todo : SUBSET Nat,
             results : Seq(Nat), failed : BOOLEAN]

\* A worker at work holds a language of the call, and the specification of that
\* language once it has looked it up.
CallOK ==
    /\ call \in CallType
    /\ worker \in [Workers -> WorkerType]
    /\ \A w \in Workers : worker[w].step \notin {"gone", "idle"} =>
                              worker[w].i \in DOMAIN call.order
    /\ call.todo \subseteq DOMAIN call.order
    /\ DOMAIN call.results = DOMAIN call.order
    /\ call.phase # "running" => \A w \in Workers : worker[w].step = "gone"
    /\ \A w \in Workers : worker[w].step \notin {"gone", "idle", "start"} =>
                              worker[w].spec \in LangSpec
DockerType ==
    made \in Nat /\ containers \subseteq Nat /\ cleanupIDs \subseteq Nat /\ raced \subseteq Nat
CacheType == cached \in [Engines -> SUBSET ((Langs \X Nat \X Files) \X Nat)]
CompileType ==
    /\ langs \in [Langs -> LangSpec \cup {NoSpec}]
    /\ heap \in Seq(ResultType) /\ CacheType /\ DockerType /\ CallOK

\* Workers between the creation of a container and their append.
Appending(w) == worker[w].step = "append"

\* The copies of the slice that two appends work on, and the slice itself,
\* agree on every container that is not known to have raced.
TrackInv ==
    /\ ContainersTracked
    /\ \A w \in Workers : Appending(w) =>
         /\ containers \cap cleanupIDs \subseteq worker[w].copy \cup raced
         /\ containers \cap worker[w].copy \subseteq cleanupIDs \cup raced
         /\ \A v \in Workers : Appending(v) /\ v # w =>
              /\ worker[w].id \in raced
              /\ containers \cap worker[v].copy \subseteq worker[w].copy \cup raced
    /\ closing = "removing" => containers \subseteq raced

\* Every held language is apart from the others, from the languages still to
\* be taken and from those whose worker panicked.
Held(w) == worker[w].step \notin {"gone", "idle"}
Exclusive ==
    \A w \in Workers : Held(w) =>
        /\ worker[w].i \notin call.todo \cup orphans
        /\ \A v \in Workers : Held(v) /\ v # w => worker[v].i # worker[w].i
\* Nothing is dropped: a language is to be taken, held, answered, or lost in a
\* panic.
Covered ==
    ~call.failed /\ call.phase \in {"running", "returned"} =>
        \A i \in DOMAIN call.order :
            \/ i \in call.todo \/ i \in orphans \/ call.results[i] # 0
            \/ \E w \in Workers : Held(w) /\ worker[w].i = i
\* While languages are left, a worker is gone only after a panic.
GoneByPanic ==
    /\ IsFiniteSet(orphans) /\ orphans \cap call.todo = {}
    /\ call.phase \in {"running", "returned"} /\ call.todo # {} =>
         Cardinality(orphans) = Cardinality({w \in Workers : worker[w].step = "gone"})

\* The result k is one of language l and these files, by the orchestrator with
\* version v of the plugin.
Fits(k, l, f) == k \in DOMAIN heap /\ heap[k].lang = l /\ heap[k].files = f
\* An entry of the cache is a result of its key.
CacheFits ==
    \A e \in Engines : \A x \in cached[e] :
        /\ Fits(x[2], x[1][1], x[1][3])
        /\ e = "orchestrator" => heap[x[2]].version = x[1][2]
\* A worker that has made a result made it of its language, with the plugin
\* it looked up, which was registered during the call.
OutFits ==
    \A w \in Workers : worker[w].step \in {"store", "keep"} =>
        /\ Fits(worker[w].out, Lang(w), call.req.files)
        /\ heap[worker[w].out].version = worker[w].spec.version
SpecSeen ==
    \A w \in Workers :
        worker[w].step \notin {"gone", "idle", "start"} /\ call.engine = "orchestrator" =>
            worker[w].spec.version \in seen[Lang(w)]
LangSeen ==
    call.phase # "none" => \A l \in Langs : langs[l] # NoSpec => langs[l].version \in seen[l]
ResultsFit ==
    \A i \in DOMAIN call.order : call.results[i] # 0 =>
        /\ Fits(call.results[i], call.order[i], call.req.files)
        /\ call.engine = "orchestrator" => heap[call.results[i]].version \in seen[call.order[i]]
SeenType == seen \in [Langs -> SUBSET Nat]

Turns == Exclusive /\ Covered /\ GoneByPanic
FaithInv ==
    CompileType /\ Turns /\ SeenType /\ CacheFits /\ OutFits /\ SpecSeen /\ LangSeen /\ ResultsFit
-----------------------------------------------------------------------------
\* A set of natural numbers that is not empty has a least one, which Min picks.
LEMMA MinOfNats ==
    ASSUME NEW S \in SUBSET Nat, S # {}
    PROVE  Min(S) \in S
<1>1. \E m \in S : \A n \in S : ~(<<n, m>> \in OpToRel(<, Nat))
  BY NatLessThanWellFounded, WFMin
<1>2. PICK m \in S : \A n \in S : ~(<<n, m>> \in OpToRel(<, Nat))
  BY <1>1
<1>3. \A n \in S : n < m => <<n, m>> \in OpToRel(<, Nat)
  BY DEF OpToRel
<1>4. \A n \in S : ~(n < m)
  BY <1>2, <1>3
<1>5. \A n \in S : m =< n
  BY <1>4
<1> QED
  BY <1>5 DEF Min

\* The languages of a request are a sequence of languages.
LEMMA OrderType ==
    ASSUME NEW order \in {<<>>} \cup {<<l>> : l \in Langs} \cup {SetToSeq(Langs)}
    PROVE  order \in Seq(Langs)
<1>1. CASE order = SetToSeq(Langs)
  <2>1. \E f \in [1..Cardinality(Langs) -> Langs] : IsInjective(f)
    BY FS_CardinalityType, CompilationAssumption DEF ExistsBijection, Bijection, Injection
  <2>2. SetToSeq(Langs) \in [1..Cardinality(Langs) -> Langs]
    BY <2>1 DEF SetToSeq
  <2>3. Cardinality(Langs) \in Nat
    BY FS_CardinalityType, CompilationAssumption
  <2> QED
    BY <1>1, <2>2, <2>3
<1>2. CASE order = <<>>
  BY <1>2
<1>3. CASE order \in {<<l>> : l \in Langs}
  <2>1. PICK l \in Langs : order = <<l>>
    BY <1>3
  <2> QED
    BY <2>1
<1> QED
  BY <1>1, <1>2, <1>3

-----------------------------------------------------------------------------
(* What a step does to the workers and to the call.                        *)
\* Only worker w changes.
Alone(w) ==
    worker' \in [Workers -> WorkerType] /\ \A v \in Workers \ {w} : worker'[v] = worker[v]
\* w goes on with the language it holds.
Advances(w) ==
    /\ Alone(w) /\ Held(w) /\ Held(w)' /\ UNCHANGED <<call, orphans>>
    /\ worker'[w].step # "start" /\ worker'[w].i = worker[w].i /\ worker'[w].spec \in LangSpec
\* w answers for its language and waits for the next one.
Answers(w, out, failed) ==
    /\ Alone(w) /\ Held(w) /\ worker'[w].step = "idle" /\ UNCHANGED orphans
    /\ call' \in CallType /\ call'.order = call.order /\ call'.todo = call.todo
    /\ call'.phase = call.phase /\ call'.req = call.req /\ call'.engine = call.engine
    /\ DOMAIN call'.results = DOMAIN call.order /\ call'.results[worker[w].i] = out
    /\ \A i \in DOMAIN call.order \ {worker[w].i} : call'.results[i] = call.results[i]
    /\ call'.failed <=> call.failed \/ failed
\* A worker that is gone holds nothing and no specification.
LEMMA GoneType ==
    /\ Gone \in WorkerType /\ Gone.step = "gone"
    /\ \A s \in WorkerSteps : LET r == [Gone EXCEPT !.step = s] IN r \in WorkerType /\ r.step = s
BY DEF Gone, WorkerType, WorkerSteps

LEMMA SendAnswers ==
    ASSUME CallOK, NEW w \in Workers, Held(w), NEW out \in Nat, NEW failed \in BOOLEAN,
           Send(w, out, failed), UNCHANGED orphans
    PROVE  Answers(w, out, failed)
<1>1. /\ call \in CallType /\ worker[w].i \in DOMAIN call.order
      /\ DOMAIN call.results = DOMAIN call.order
  BY DEF CallOK, Held
<1> DEFINE rs == [call.results EXCEPT ![worker[w].i] = out]
<1>2. /\ rs \in Seq(Nat) /\ DOMAIN rs = DOMAIN call.order /\ rs[worker[w].i] = out
      /\ \A i \in DOMAIN call.order \ {worker[w].i} : rs[i] = call.results[i]
  BY <1>1 DEF CallType
<1>3. call' = [call EXCEPT !.results = rs, !.failed = @ \/ failed]
  BY <1>1 DEF Send, CallType
<1> HIDE DEF rs
<1>4. /\ call'.order = call.order /\ call'.todo = call.todo
      /\ call'.phase = call.phase /\ call'.req = call.req /\ call'.engine = call.engine
      /\ call'.results = rs /\ call'.failed = (call.failed \/ failed)
  BY <1>1, <1>3 DEF CallType
<1>5. (call.failed \/ failed) \in BOOLEAN
  OBVIOUS
<1>6. call' \in CallType
  BY <1>1, <1>2, <1>3, <1>5 DEF CallType
<1>7. Alone(w) /\ worker'[w].step = "idle"
  BY GoneType DEF Send, Alone, CallOK, WorkerSteps
<1> QED
  BY <1>2, <1>4, <1>6, <1>7 DEF Answers

LEMMA StepAdvances ==
    ASSUME CallOK, NEW w \in Workers, worker[w].step \notin {"gone", "idle", "start"},
           NEW s \in WorkerSteps \ {"gone", "idle", "start"}, Step(w, s), UNCHANGED <<call, orphans>>
    PROVE  /\ Advances(w) /\ worker'[w].step = s /\ worker'[w].spec = worker[w].spec
           /\ worker'[w].id = worker[w].id /\ worker'[w].copy = worker[w].copy
           /\ worker'[w].out = worker[w].out
<1> DEFINE r == [worker[w] EXCEPT !.step = s]
<1>1. worker[w] \in WorkerType /\ worker[w].spec \in LangSpec
  BY DEF CallOK
<1>2. /\ r \in WorkerType /\ r.step = s /\ r.i = worker[w].i /\ r.spec = worker[w].spec
      /\ r.id = worker[w].id /\ r.copy = worker[w].copy /\ r.out = worker[w].out
  BY <1>1 DEF WorkerType
<1>3. worker' = [worker EXCEPT ![w] = r]
  BY DEF Step, CallOK
<1> HIDE DEF r
<1> QED
  BY <1>1, <1>2, <1>3 DEF Advances, Alone, Held, CallOK

LEMMA AdvanceTypes ==
    ASSUME CallOK, NEW w \in Workers, Advances(w)
    PROVE  CallOK'
BY DEF Advances, Alone, Held, CallOK

LEMMA AnswerTypes ==
    ASSUME CallOK, NEW w \in Workers, NEW out, NEW failed, Answers(w, out, failed)
    PROVE  CallOK'
BY DEF Answers, Alone, Held, CallOK

\* The languages a worker asks for, and what it finds.
LEMMA HeldTypes ==
    ASSUME CompileType, NEW w \in Workers, Held(w)
    PROVE  /\ Lang(w) \in Langs /\ Hash = call.req.files /\ Hash \in Files /\ call.engine \in Engines
           /\ call.phase = "running" /\ worker[w].i \in DOMAIN call.order
           /\ worker[w] \in WorkerType /\ worker[w].step \in WorkerSteps
           /\ worker[w].out \in Nat
           /\ SpecOf(call.engine, Lang(w)) \in LangSpec \cup {NoSpec}
<1>1. /\ worker[w].i \in DOMAIN call.order /\ call.order \in Seq(Langs) /\ call.phase = "running"
      /\ worker[w] \in WorkerType /\ call.engine \in Engines
      /\ call.req \in [files : Files, grpc : BOOLEAN]
  BY DEF CompileType, CallOK, CallType, Held
<1>2. Lang(w) \in Langs
  BY <1>1 DEF Lang
<1>3. Hash = call.req.files /\ Hash \in Files
  BY <1>1 DEF Hash, hashProtoFiles, generateProtoHash
<1>4. SpecOf(call.engine, Lang(w)) \in LangSpec \cup {NoSpec}
  BY <1>2 DEF SpecOf, GetLanguageSpec, Get, CompileType, LangSpec
<1> QED
  BY <1>1, <1>2, <1>3, <1>4 DEF WorkerType

LEMMA KeyType ==
    ASSUME CompileType, NEW w \in Workers, worker[w].step \notin {"gone", "idle", "start"}
    PROVE  /\ GenerateCacheKey(w) \in Langs \X Nat \X Files
           /\ GenerateCacheKey(w)[1] = Lang(w) /\ GenerateCacheKey(w)[3] = call.req.files
           /\ call.engine = "orchestrator" => GenerateCacheKey(w)[2] = worker[w].spec.version
           /\ CacheGet(w) \subseteq Nat
           /\ worker[w].spec.version \in Nat
           /\ buildProtocFlags(w) \in ResultType
<1>1. /\ Lang(w) \in Langs /\ Hash = call.req.files /\ Hash \in Files /\ call.engine \in Engines
      /\ call.req \in [files : Files, grpc : BOOLEAN]
  BY HeldTypes DEF Held, CompileType, CallOK, CallType
<1>2. worker[w].spec.version \in Nat
  BY DEF CompileType, CallOK, LangSpec
<1>3. /\ GenerateCacheKey(w) \in Langs \X Nat \X Files
      /\ GenerateCacheKey(w)[1] = Lang(w) /\ GenerateCacheKey(w)[3] = call.req.files
      /\ call.engine = "orchestrator" => GenerateCacheKey(w)[2] = worker[w].spec.version
  BY <1>1, <1>2 DEF GenerateCacheKey, FormatCacheKey
<1>4. CacheGet(w) \subseteq Nat
  <2>1. cached[call.engine] \subseteq (Langs \X Nat \X Files) \X Nat
    BY <1>1 DEF CompileType, CacheType
  <2> QED
    BY <2>1 DEF CacheGet
<1>5. buildProtocFlags(w) \in ResultType
  BY <1>1, <1>2 DEF buildProtocFlags, ResultType
<1> QED
  BY <1>2, <1>3, <1>4, <1>5

-----------------------------------------------------------------------------
(* The steps of a worker, by what they do to the results.                  *)
\* No result is touched: the step fails, or w goes on with nothing made yet.
Plain(w) ==
    /\ UNCHANGED <<cached, heap>>
    /\ \/ Answers(w, 0, TRUE)
       \/ /\ Advances(w) /\ worker[w].step # "start" /\ worker'[w].spec = worker[w].spec
          /\ worker'[w].step \notin {"store", "keep"}
Looks(w) ==
    /\ UNCHANGED <<cached, heap>> /\ Advances(w)
    /\ worker'[w].step = "cache" /\ worker'[w].spec = SpecOf(call.engine, Lang(w))
    /\ worker'[w].spec # NoSpec
Hits(w) ==
    /\ UNCHANGED cached /\ worker[w].step = "cache"
    /\ \E k \in CacheGet(w) : heap' = [heap EXCEPT ![k].hit = TRUE] /\ Answers(w, k, FALSE)
Makes(w) ==
    /\ UNCHANGED cached /\ heap' = Append(heap, buildProtocFlags(w))
    /\ Advances(w) /\ worker[w].step # "start" /\ worker'[w].spec = worker[w].spec
    /\ worker'[w].out = Len(heap) + 1
Stores(w) ==
    /\ UNCHANGED cached
    /\ heap' \in {heap, [heap EXCEPT ![worker[w].out].stored = TRUE]}
    /\ Advances(w) /\ worker[w].step = "store" /\ worker'[w].spec = worker[w].spec
    /\ worker'[w].out = worker[w].out
Keeps(w) ==
    /\ UNCHANGED heap /\ worker[w].step = "keep" /\ Answers(w, worker[w].out, FALSE)
    /\ cached' = [cached EXCEPT ![call.engine] =
            {e \in @ : e[1] # GenerateCacheKey(w)} \cup {<<GenerateCacheKey(w), worker[w].out>>}]
Works(w) == Plain(w) \/ Looks(w) \/ Hits(w) \/ Makes(w) \/ Stores(w) \/ Keeps(w)

\* The containers and their list are left alone, and no append begins or ends.
Dockerless(w) ==
    /\ UNCHANGED <<containers, cleanupIDs, made, closing, raced>>
    /\ worker[w].step # "append" /\ worker'[w].step # "append"

\* The steps that touch no container.
LEMMA WorkKinds ==
    ASSUME CompileType, NEW w \in Workers,
           \/ CompileSingle(w) \/ CacheLookup(w) \/ PullImage(w) \/ MarkImage(w)
           \/ Execute(w) \/ ExecuteDocker(w) \/ Store(w) \/ CacheSet(w)
    PROVE  Works(w) /\ Dockerless(w) /\ UNCHANGED <<langs, seen>>
<1> USE DEF stores, docker
<1>0. CallOK
  BY DEF CompileType
<1>a. /\ Held(w) /\ UNCHANGED <<containers, cleanupIDs, made, closing, raced, orphans>>
      /\ worker[w].step \notin {"gone", "idle", "append", "create"} /\ UNCHANGED <<langs, seen>>
  BY DEF CompileSingle, CacheLookup, PullImage, MarkImage, Execute, ExecuteDocker, Store, CacheSet,
         At, Held, Counters
<1>b. Send(w, 0, TRUE) => Answers(w, 0, TRUE) /\ worker'[w].step = "idle"
  BY <1>0, <1>a, SendAnswers DEF Answers
<1>1. CASE CompileSingle(w)
  <2>1. CASE Send(w, 0, TRUE)
    BY <1>1, <1>a, <1>b, <2>1 DEF CompileSingle, Works, Plain, Dockerless
  <2>2. CASE ~Send(w, 0, TRUE)
    <3> DEFINE spec == SpecOf(call.engine, Lang(w))
               r == [worker[w] EXCEPT !.step = "cache", !.spec = spec]
    <3>1. /\ spec # NoSpec /\ UNCHANGED <<call, cached, heap>>
          /\ worker' = [worker EXCEPT ![w].step = "cache", ![w].spec = spec]
      BY <1>1, <2>2 DEF CompileSingle
    <3>2. spec \in LangSpec
      BY <1>a, <3>1, HeldTypes
    <3> HIDE DEF spec
    <3>3. worker[w] \in WorkerType
      BY <1>0 DEF CallOK
    <3>4. /\ r \in WorkerType /\ r.step = "cache" /\ r.i = worker[w].i /\ r.spec = spec
      BY <3>2, <3>3 DEF WorkerType, WorkerSteps
    <3>5. worker' = [worker EXCEPT ![w] = r]
      BY <1>0, <3>1 DEF CallOK
    <3> HIDE DEF r
    <3>6. Advances(w) /\ worker'[w].step = "cache" /\ worker'[w].spec = spec
      BY <1>0, <1>a, <3>1, <3>2, <3>4, <3>5 DEF Advances, Alone, Held, CallOK
    <3> QED
      BY <1>a, <3>1, <3>6 DEF Works, Looks, Dockerless, spec
  <2> QED
    BY <2>1, <2>2
<1>2. CASE CacheLookup(w)
  <2>1. ASSUME NEW k \in CacheGet(w), heap' = [heap EXCEPT ![k].hit = TRUE], Send(w, k, FALSE)
        PROVE  Hits(w) /\ worker'[w].step = "idle"
    <3>1. k \in Nat
      BY <1>2, KeyType DEF CacheLookup, At
    <3>2. Answers(w, k, FALSE)
      BY <1>0, <1>a, <2>1, <3>1, SendAnswers
    <3> QED
      BY <1>2, <2>1, <3>2 DEF Hits, CacheLookup, At, Answers
  <2>2. CASE /\ Step(w, IF call.engine = "orchestrator" THEN "pull" ELSE "run")
             /\ UNCHANGED <<heap, call>>
    <3>1. /\ Advances(w) /\ worker'[w].step \in {"pull", "run"}
          /\ worker'[w].spec = worker[w].spec
      BY <1>0, <1>2, <1>a, <2>2, StepAdvances DEF CacheLookup, At, WorkerSteps
    <3> QED
      BY <1>2, <1>a, <2>2, <3>1 DEF Works, Plain, Dockerless, CacheLookup, At
  <2> QED
    BY <1>2, <1>a, <2>1, <2>2 DEF CacheLookup, Works, Dockerless
<1>3. CASE PullImage(w) \/ MarkImage(w)
  <2>1. CASE Send(w, 0, TRUE)
    BY <1>3, <1>a, <1>b, <2>1 DEF PullImage, MarkImage, Works, Plain, Dockerless
  <2>2. CASE ~Send(w, 0, TRUE)
    <3>1. PICK s \in {"create", "mark"} : Step(w, s) /\ UNCHANGED call
      BY <1>3, <2>2 DEF PullImage, MarkImage
    <3>2. worker[w].step \notin {"gone", "idle", "start"} /\ UNCHANGED <<cached, heap>>
      BY <1>3 DEF PullImage, MarkImage, At
    <3>3. Advances(w) /\ worker'[w].step = s /\ worker'[w].spec = worker[w].spec
      BY <1>0, <1>a, <3>1, <3>2, StepAdvances DEF WorkerSteps
    <3> QED
      BY <1>a, <3>2, <3>3 DEF Works, Plain, Dockerless
  <2> QED
    BY <2>1, <2>2
<1>4. CASE Execute(w) \/ ExecuteDocker(w)
  <2>0. worker[w].step = "run" /\ UNCHANGED cached
    BY <1>4 DEF Execute, ExecuteDocker, At
  <2>1. CASE Send(w, 0, TRUE) /\ UNCHANGED heap
    BY <1>a, <1>b, <2>0, <2>1 DEF Works, Plain, Dockerless
  <2>2. ASSUME NEW s \in {"store", "keep"}, Produced(w, s)
        PROVE  Works(w) /\ Dockerless(w)
    <3> DEFINE r == [worker[w] EXCEPT !.step = s, !.out = Len(heap) + 1]
    <3>1. worker[w] \in WorkerType /\ Len(heap) + 1 \in Nat /\ worker[w].spec \in LangSpec
      BY <2>0 DEF CompileType, CallOK
    <3>2. /\ r \in WorkerType /\ r.step = s /\ r.i = worker[w].i /\ r.spec = worker[w].spec
          /\ r.out = Len(heap) + 1
      BY <3>1 DEF WorkerType, WorkerSteps
    <3>3. worker' = [worker EXCEPT ![w] = r]
      BY <1>0, <2>2 DEF Produced, CallOK
    <3> HIDE DEF r
    <3>4. /\ Advances(w) /\ worker'[w].step = s /\ worker'[w].spec = worker[w].spec
          /\ worker'[w].out = Len(heap) + 1
      BY <1>0, <1>a, <2>2, <3>1, <3>2, <3>3 DEF Advances, Alone, Held, CallOK, Produced
    <3> QED
      BY <1>a, <2>0, <2>2, <3>4 DEF Works, Makes, Dockerless, Produced
  <2>3. \/ Send(w, 0, TRUE) /\ UNCHANGED heap
        \/ Produced(w, "store") \/ Produced(w, "keep")
    BY <1>4 DEF Execute, ExecuteDocker
  <2> QED
    BY <1>a, <2>1, <2>2, <2>3
<1>5. CASE Store(w)
  <2>1. /\ worker[w].step = "store" /\ Step(w, "keep") /\ UNCHANGED <<cached, call>>
        /\ heap' \in {heap, [heap EXCEPT ![worker[w].out].stored = TRUE]}
    BY <1>5 DEF Store, At
  <2>2. /\ Advances(w) /\ worker'[w].step = "keep" /\ worker'[w].spec = worker[w].spec
        /\ worker'[w].out = worker[w].out
    BY <1>0, <1>a, <2>1, StepAdvances DEF WorkerSteps
  <2> QED
    BY <1>a, <2>1, <2>2 DEF Works, Stores, Dockerless
<1>6. CASE CacheSet(w)
  <2>1. worker[w].out \in Nat
    BY <1>a, HeldTypes
  <2>2. Send(w, worker[w].out, FALSE)
    BY <1>6 DEF CacheSet
  <2>3. Answers(w, worker[w].out, FALSE)
    BY <1>0, <1>a, <2>1, <2>2, SendAnswers
  <2> QED
    BY <1>6, <1>a, <2>3 DEF CacheSet, At, Works, Keeps, Dockerless, Answers
<1> QED
  BY <1>a, <1>1, <1>2, <1>3, <1>4, <1>5, <1>6

\* A container is made, and the list is read; later the list is stored.
Creates(w) ==
    /\ UNCHANGED <<cleanupIDs, closing>>
    /\ made' = made + 1 /\ containers' = containers \cup {made + 1}
    /\ worker[w].step # "append" /\ worker'[w].step = "append"
    /\ worker'[w].id = made + 1 /\ worker'[w].copy = cleanupIDs
    /\ raced' = IF closing = "removing" \/ \E v \in Workers \ {w} : worker[v].step = "append"
                THEN raced \cup {made + 1}
                         \cup {worker[v].id : v \in {x \in Workers : worker[x].step = "append"}}
                ELSE raced
Appends(w) ==
    /\ UNCHANGED <<containers, made, closing, raced>>
    /\ worker[w].step = "append" /\ worker'[w].step # "append"
    /\ cleanupIDs' = worker[w].copy \cup {worker[w].id}
LEMMA ContainerKinds ==
    ASSUME CompileType, NEW w \in Workers, createContainer(w) \/ AppendCleanup(w)
    PROVE  Plain(w) /\ (Dockerless(w) \/ Creates(w) \/ Appends(w))
           /\ UNCHANGED <<langs, seen>>
<1> USE DEF stores
<1>0. CallOK /\ Held(w) /\ UNCHANGED <<orphans, cached, heap, langs, seen>>
      /\ worker[w].step \in {"create", "append"}
  BY DEF CompileType, createContainer, AppendCleanup, At, Held, Counters
<1>1. CASE createContainer(w)
  <2>1. CASE Send(w, 0, TRUE) /\ UNCHANGED <<made, containers, raced>>
    <3>1. Answers(w, 0, TRUE)
      BY <1>0, <2>1, SendAnswers
    <3> QED
      BY <1>0, <1>1, <2>1, <3>1 DEF createContainer, At, Plain, Answers, Dockerless
  <2>2. CASE ~(Send(w, 0, TRUE) /\ UNCHANGED <<made, containers, raced>>)
    <3> DEFINE r == [worker[w] EXCEPT !.step = "append", !.id = made + 1, !.copy = cleanupIDs]
    <3>1. /\ UNCHANGED <<cleanupIDs, closing, call>> /\ worker[w].step = "create"
          /\ made' = made + 1 /\ containers' = containers \cup {made + 1}
          /\ worker' = [worker EXCEPT ![w].step = "append", ![w].id = made + 1,
                                      ![w].copy = cleanupIDs]
          /\ raced' = IF closing = "removing" \/ \E v \in Workers \ {w} : worker[v].step = "append"
                      THEN raced \cup {made + 1}
                               \cup {worker[v].id : v \in {x \in Workers : worker[x].step = "append"}}
                      ELSE raced
      BY <1>1, <2>2 DEF createContainer, At
    <3>2. /\ worker[w] \in WorkerType /\ made + 1 \in Nat /\ cleanupIDs \in SUBSET Nat
          /\ worker[w].spec \in LangSpec
      BY <3>1 DEF CompileType, CallOK, DockerType
    <3>3. /\ r \in WorkerType /\ r.step = "append" /\ r.i = worker[w].i
          /\ r.spec = worker[w].spec /\ r.id = made + 1 /\ r.copy = cleanupIDs
      BY <3>2 DEF WorkerType, WorkerSteps
    <3>4. worker' = [worker EXCEPT ![w] = r]
      BY <1>0, <3>1 DEF CallOK
    <3> HIDE DEF r
    <3>5. /\ Advances(w) /\ worker'[w].step = "append" /\ worker'[w].spec = worker[w].spec
          /\ worker'[w].id = made + 1 /\ worker'[w].copy = cleanupIDs
      BY <1>0, <3>1, <3>2, <3>3, <3>4 DEF Advances, Alone, Held, CallOK
    <3>6. Creates(w)
      BY <3>1, <3>5 DEF Creates
    <3> QED
      BY <1>0, <3>1, <3>5, <3>6 DEF Plain
  <2> QED
    BY <2>1, <2>2
<1>2. CASE AppendCleanup(w)
  <2>1. /\ Step(w, "run") /\ UNCHANGED <<call, containers, made, closing, raced>>
        /\ worker[w].step = "append" /\ cleanupIDs' = worker[w].copy \cup {worker[w].id}
    BY <1>2 DEF AppendCleanup, At
  <2>2. Advances(w) /\ worker'[w].step = "run" /\ worker'[w].spec = worker[w].spec
    BY <1>0, <2>1, StepAdvances DEF WorkerSteps
  <2> QED
    BY <1>0, <2>1, <2>2 DEF Plain, Appends
<1> QED
  BY <1>1, <1>2

\* A worker takes the next language, or leaves when there is none.
Takes(w) ==
    /\ Alone(w) /\ worker[w].step = "idle" /\ UNCHANGED <<cached, heap, orphans>>
    /\ \/ call.todo = {} /\ call' = call /\ worker'[w].step = "gone"
       \/ /\ worker'[w].step = "start" /\ worker'[w].i \in call.todo
          /\ call' \in CallType /\ call'.order = call.order /\ call'.results = call.results
          /\ call'.phase = call.phase /\ call'.req = call.req /\ call'.engine = call.engine
          /\ call'.failed = call.failed /\ call'.todo = call.todo \ {worker'[w].i}
LEMMA TakeKind ==
    ASSUME CompileType, NEW w \in Workers, Take(w)
    PROVE  Takes(w) /\ Dockerless(w) /\ UNCHANGED <<langs, seen>>
<1> USE DEF stores, docker, Counters
<1>0. CallOK /\ call \in CallType /\ worker[w].step = "idle"
  BY DEF CompileType, CallOK, Take, At
<1>1. CASE call.todo = {}
  <2>1. worker' = [worker EXCEPT ![w] = Gone] /\ call' = call
    BY <1>1 DEF Take
  <2>2. Alone(w) /\ worker'[w].step = "gone"
    BY <1>0, <2>1, GoneType DEF Alone, CallOK
  <2> QED
    BY <1>0, <1>1, <2>1, <2>2 DEF Take, Takes, Dockerless
<1>2. CASE call.todo # {}
  <2>1. PICK i : i = Min(call.todo)
    OBVIOUS
  <2>2. i \in call.todo /\ i \in Nat
    BY <1>0, <1>2, <2>1, MinOfNats DEF CallType
  <2> DEFINE r == [Gone EXCEPT !.step = "start", !.i = i]
  <2>3. /\ worker' = [worker EXCEPT ![w] = r]
        /\ call' = [call EXCEPT !.todo = call.todo \ {i}]
    BY <1>0, <1>2, <2>1 DEF Take, CallType
  <2>4. r \in WorkerType /\ r.step = "start" /\ r.i = i
    BY <2>2 DEF Gone, WorkerType, WorkerSteps
  <2> HIDE DEF r
  <2>5. Alone(w) /\ worker'[w].step = "start" /\ worker'[w].i = i
    BY <1>0, <2>3, <2>4 DEF Alone, CallOK
  <2>6. /\ call' \in CallType /\ call'.order = call.order /\ call'.results = call.results
        /\ call'.phase = call.phase /\ call'.req = call.req /\ call'.engine = call.engine
        /\ call'.failed = call.failed /\ call'.todo = call.todo \ {i}
    BY <1>0, <2>3 DEF CallType
  <2> QED
    BY <1>0, <2>2, <2>5, <2>6 DEF Take, Takes, Dockerless
<1> QED
  BY <1>1, <1>2

\* A worker that panics leaves its language without a result.
Panics(w) ==
    /\ Alone(w) /\ Held(w) /\ worker'[w].step = "gone" /\ UNCHANGED <<cached, heap, call>>
    /\ orphans' = orphans \cup {worker[w].i}
LEMMA PanicKind ==
    ASSUME CompileType, NEW w \in Workers, WorkerPanic(w)
    PROVE  Panics(w) /\ Dockerless(w) /\ UNCHANGED <<langs, seen>>
<1>1. Alone(w) /\ worker'[w].step = "gone"
  BY GoneType DEF Alone, CompileType, CallOK, WorkerPanic
<1> QED
  BY <1>1 DEF WorkerPanic, Panics, Dockerless, Held, stores, docker, Counters

\* Every step of a worker is of one of these kinds.
LEMMA WorkerKinds ==
    ASSUME CompileType, NEW w \in Workers, WorkerStep(w) \/ WorkerPanic(w)
    PROVE  /\ Works(w) \/ Takes(w) \/ Panics(w)
           /\ Dockerless(w) \/ Creates(w) \/ Appends(w)
           /\ UNCHANGED <<langs, seen>> /\ Alone(w)
<1>1. /\ Works(w) \/ Takes(w) \/ Panics(w)
      /\ Dockerless(w) \/ Creates(w) \/ Appends(w)
      /\ UNCHANGED <<langs, seen>>
  BY WorkKinds, ContainerKinds, TakeKind, PanicKind DEF WorkerStep, Works
<1> QED
  BY <1>1 DEF Works, Plain, Looks, Hits, Makes, Stores, Keeps, Takes, Panics, Advances, Answers

-----------------------------------------------------------------------------
(* Types.                                                                  *)
\* Results are added and marked, and keep what they are results of.
HeapGrows ==
    /\ heap' \in Seq(ResultType)
    /\ \A k \in DOMAIN heap :
         /\ k \in DOMAIN heap' /\ heap'[k].lang = heap[k].lang
         /\ heap'[k].version = heap[k].version /\ heap'[k].files = heap[k].files
LEMMA MarkGrows ==
    ASSUME heap \in Seq(ResultType), NEW k
    PROVE  /\ heap' = [heap EXCEPT ![k].hit = TRUE] => HeapGrows
           /\ heap' = [heap EXCEPT ![k].stored = TRUE] => HeapGrows
           /\ heap' = heap => HeapGrows
<1>1. ASSUME NEW r \in ResultType
      PROVE  /\ [r EXCEPT !.hit = TRUE] \in ResultType /\ [r EXCEPT !.stored = TRUE] \in ResultType
             /\ [r EXCEPT !.hit = TRUE].lang = r.lang /\ [r EXCEPT !.stored = TRUE].lang = r.lang
             /\ [r EXCEPT !.hit = TRUE].version = r.version
             /\ [r EXCEPT !.stored = TRUE].version = r.version
             /\ [r EXCEPT !.hit = TRUE].files = r.files
             /\ [r EXCEPT !.stored = TRUE].files = r.files
  BY DEF ResultType
<1>2. CASE k \in DOMAIN heap
  <2>1. heap[k] \in ResultType
    BY <1>2
  <2>2. heap' = [heap EXCEPT ![k].hit = TRUE] => HeapGrows
    <3> DEFINE r == [heap[k] EXCEPT !.hit = TRUE]
    <3>1. r \in ResultType /\ r.lang = heap[k].lang /\ r.version = heap[k].version
          /\ r.files = heap[k].files
      BY <1>1, <2>1
    <3> HIDE DEF r
    <3>2. ASSUME heap' = [heap EXCEPT ![k] = r] PROVE HeapGrows
      BY <1>2, <3>1, <3>2 DEF HeapGrows
    <3> QED
      BY <1>2, <3>2 DEF r
  <2>3. heap' = [heap EXCEPT ![k].stored = TRUE] => HeapGrows
    <3> DEFINE r == [heap[k] EXCEPT !.stored = TRUE]
    <3>1. r \in ResultType /\ r.lang = heap[k].lang /\ r.version = heap[k].version
          /\ r.files = heap[k].files
      BY <1>1, <2>1
    <3> HIDE DEF r
    <3>2. ASSUME heap' = [heap EXCEPT ![k] = r] PROVE HeapGrows
      BY <1>2, <3>1, <3>2 DEF HeapGrows
    <3> QED
      BY <1>2, <3>2 DEF r
  <2>4. heap' = heap => HeapGrows
    BY DEF HeapGrows
  <2> QED
    BY <2>2, <2>3, <2>4
<1>3. CASE k \notin DOMAIN heap
  BY <1>3 DEF HeapGrows
<1> QED
  BY <1>2, <1>3

LEMMA WorkGrows ==
    ASSUME CompileType, NEW w \in Workers, Works(w) \/ Takes(w) \/ Panics(w)
    PROVE  HeapGrows
<1>0. heap \in Seq(ResultType)
  BY DEF CompileType
<1>1. CASE Makes(w)
  <2>1. buildProtocFlags(w) \in ResultType
    BY <1>1, KeyType DEF Makes, Advances, Held
  <2>2. heap' = Append(heap, buildProtocFlags(w))
    BY <1>1 DEF Makes
  <2> QED
    BY <1>0, <2>1, <2>2 DEF HeapGrows
<1>2. CASE ~Makes(w)
  BY <1>0, <1>2, MarkGrows DEF Works, Plain, Looks, Hits, Stores, Keeps, Takes, Panics
<1> QED
  BY <1>1, <1>2

LEMMA WorkCaches ==
    ASSUME CompileType, NEW w \in Workers, Works(w) \/ Takes(w) \/ Panics(w)
    PROVE  CacheType'
<1>1. CASE Keeps(w)
  <2>1. GenerateCacheKey(w) \in Langs \X Nat \X Files /\ worker[w].out \in Nat
        /\ call.engine \in Engines
    BY <1>1, KeyType, HeldTypes DEF Keeps, Held
  <2>2. <<GenerateCacheKey(w), worker[w].out>> \in (Langs \X Nat \X Files) \X Nat
    BY <2>1
  <2> QED
    BY <1>1, <2>1, <2>2 DEF Keeps, CompileType, CacheType
<1>2. CASE UNCHANGED cached
  BY <1>2 DEF CompileType, CacheType
<1> QED
  BY <1>1, <1>2 DEF Works, Plain, Looks, Hits, Makes, Stores, Takes, Panics

LEMMA TakeTypes ==
    ASSUME CallOK, NEW w \in Workers, Takes(w) \/ Panics(w)
    PROVE  CallOK'
<1>1. CASE Takes(w)
  BY <1>1 DEF Takes, Alone, CallOK
<1>2. CASE Panics(w)
  BY <1>2 DEF Panics, Alone, CallOK, Held
<1> QED
  BY <1>1, <1>2

LEMMA WorkerTypes ==
    ASSUME CompileType, NEW w \in Workers, WorkerStep(w) \/ WorkerPanic(w)
    PROVE  CompileType'
<1>1. CallOK
  BY DEF CompileType
<1>2. /\ Works(w) \/ Takes(w) \/ Panics(w)
      /\ Dockerless(w) \/ Creates(w) \/ Appends(w)
      /\ UNCHANGED <<langs, seen>>
  BY WorkerKinds
<1>3. CallOK'
  BY <1>1, <1>2, AdvanceTypes, AnswerTypes, TakeTypes
     DEF Works, Plain, Looks, Hits, Makes, Stores, Keeps
<1>4. DockerType'
  <2>1. \A v \in Workers : worker[v].id \in Nat /\ worker[v].copy \subseteq Nat
    BY <1>1 DEF CallOK, WorkerType
  <2>2. CASE Dockerless(w)
    BY <2>2 DEF Dockerless, CompileType, DockerType
  <2>3. CASE Creates(w)
    <3>1. {worker[v].id : v \in {x \in Workers : worker[x].step = "append"}} \subseteq Nat
      BY <2>1
    <3>2. made + 1 \in Nat /\ raced \subseteq Nat
      BY DEF CompileType, DockerType
    <3>3. \/ raced' = raced
          \/ raced' = raced \cup {made + 1}
                        \cup {worker[v].id : v \in {x \in Workers : worker[x].step = "append"}}
      BY <2>3 DEF Creates
    <3>4. raced' \subseteq Nat
      BY <3>1, <3>2, <3>3
    <3> QED
      BY <2>3, <3>2, <3>4 DEF Creates, CompileType, DockerType
  <2>4. CASE Appends(w)
    BY <2>1, <2>4 DEF Appends, CompileType, DockerType
  <2> QED
    BY <1>2, <2>2, <2>3, <2>4
<1> QED
  BY <1>2, <1>3, <1>4, WorkGrows, WorkCaches DEF CompileType, HeapGrows

\* A call begins: with every worker idle, or refused.
Begins(engine) ==
    /\ call.phase # "running" /\ call' \in CallType /\ call'.engine = engine
    /\ worker' \in [Workers -> WorkerType]
    /\ orphans' = {} /\ UNCHANGED <<langs, cached, heap>> /\ UNCHANGED docker
    /\ seen' = [l \in Langs |-> IF langs[l] = NoSpec THEN {} ELSE {langs[l].version}]
    /\ DOMAIN call'.results = DOMAIN call'.order
    /\ \A i \in DOMAIN call'.order : call'.results[i] = 0
    /\ \/ /\ call'.phase = "running" /\ call'.todo = DOMAIN call'.order
          /\ \A w \in Workers : worker'[w].step = "idle"
       \/ call'.phase = "refused" /\ call'.todo = {} /\ UNCHANGED worker
LEMMA BeginKind ==
    ASSUME CompileType, NEW engine \in Engines, Begin(engine)
    PROVE  Begins(engine)
<1> USE DEF stores
<1>1. PICK files \in Contents \cup {NoFiles}, grpc \in BOOLEAN,
           order \in {<<>>} \cup {<<l>> : l \in Langs} \cup {SetToSeq(Langs)} :
          LET new == [phase |-> "running", engine |-> engine, order |-> order, failed |-> FALSE,
                      req |-> [files |-> files, grpc |-> grpc], todo |-> DOMAIN order,
                      results |-> [i \in DOMAIN order |-> 0]]
          IN  IF Accepts(engine, order)
              THEN /\ call' = new
                   /\ worker' = [w \in Workers |-> [Gone EXCEPT !.step = "idle"]]
              ELSE call' = [new EXCEPT !.phase = "refused", !.todo = {}] /\ UNCHANGED worker
  BY DEF Begin
<1> DEFINE res == [i \in DOMAIN order |-> 0]
<1>2. /\ order \in Seq(Langs) /\ res \in Seq(Nat) /\ DOMAIN res = DOMAIN order
      /\ DOMAIN order \in SUBSET Nat /\ \A i \in DOMAIN order : res[i] = 0
  BY OrderType
<1>3. [files |-> files, grpc |-> grpc] \in [files : Files, grpc : BOOLEAN]
  BY DEF Files
<1>4. CASE /\ call' = [phase |-> "running", engine |-> engine, order |-> order, failed |-> FALSE,
                       req |-> [files |-> files, grpc |-> grpc], todo |-> DOMAIN order,
                       results |-> res]
           /\ worker' = [w \in Workers |-> [Gone EXCEPT !.step = "idle"]]
  <2> HIDE DEF res
  <2>1. /\ call' \in CallType /\ call'.engine = engine /\ call'.phase = "running"
        /\ call'.order = order /\ call'.todo = DOMAIN order /\ call'.results = res
    BY <1>2, <1>3, <1>4 DEF CallType
  <2>2. worker' \in [Workers -> WorkerType] /\ \A w \in Workers : worker'[w].step = "idle"
    BY <1>4, GoneType DEF WorkerSteps
  <2> QED
    BY <1>2, <2>1, <2>2 DEF Begin, Begins
<1>5. CASE /\ call' = [[phase |-> "running", engine |-> engine, order |-> order, failed |-> FALSE,
                        req |-> [files |-> files, grpc |-> grpc], todo |-> DOMAIN order,
                        results |-> res] EXCEPT !.phase = "refused", !.todo = {}]
           /\ UNCHANGED worker
  <2> HIDE DEF res
  <2>1. /\ call' \in CallType /\ call'.engine = engine /\ call'.phase = "refused"
        /\ call'.order = order /\ call'.todo = {} /\ call'.results = res
    BY <1>2, <1>3, <1>5 DEF CallType
  <2> QED
    BY <1>2, <1>5, <2>1 DEF Begin, Begins, CompileType, CallOK
<1> QED
  BY <1>1, <1>4, <1>5
LEMMA BeginTypes ==
    ASSUME CompileType, NEW engine, Begins(engine)
    PROVE  CompileType'
<1>1. CallOK'
  BY DEF Begins, CompileType, CallOK
<1> QED
  BY <1>1 DEF Begins, docker, CompileType, DockerType, CacheType

\* The last worker has gone.
Returns ==
    /\ call.phase = "running" /\ (\A w \in Workers : worker[w].step = "gone")
    /\ UNCHANGED <<langs, cached, heap, worker, orphans, seen>> /\ UNCHANGED docker
    /\ call' \in CallType /\ call'.phase = "returned" /\ call'.order = call.order
    /\ call'.results = call.results /\ call'.todo = call.todo /\ call'.req = call.req
    /\ call'.engine = call.engine /\ call'.failed = call.failed
LEMMA ReturnKind == ASSUME CompileType, Return PROVE Returns
BY DEF CompileType, CallOK, CallType, Return, Returns, stores, docker, Counters
LEMMA ReturnTypes == ASSUME CompileType, Returns PROVE CompileType'
<1>1. CallOK'
  BY DEF Returns, CompileType, CallOK
<1> QED
  BY <1>1 DEF Returns, docker, CompileType, DockerType, CacheType

\* Cache, Close and the registry of languages leave calls and workers alone.
LEMMA EditTypes ==
    ASSUME CompileType, NEW l \in Langs,
           \/ UpdateLanguage(l) \/ DisableLanguage(l) \/ EnableLanguage(l)
           \/ DeleteLanguage(l) \/ RegisterLanguage(l)
    PROVE  /\ CompileType'
           /\ UNCHANGED <<cached, heap, call, worker, orphans>> /\ UNCHANGED docker
           /\ \E spec \in LangSpec \cup {NoSpec} : EditLanguage(l, spec)
<1>1. PICK spec \in LangSpec \cup {NoSpec} : EditLanguage(l, spec)
  <2>1. langs[l] # NoSpec => langs[l] \in LangSpec
    BY DEF CompileType
  <2>2. CASE UpdateLanguage(l)
    <3>1. [version |-> langs[l].version + 1, enabled |-> TRUE] \in LangSpec
      BY <2>1, <2>2 DEF UpdateLanguage, LangSpec
    <3> QED
      BY <2>2, <3>1 DEF UpdateLanguage
  <2>3. CASE DisableLanguage(l)
    <3>1. [langs[l] EXCEPT !.enabled = FALSE] \in LangSpec
      BY <2>1, <2>3 DEF DisableLanguage, LangSpec
    <3> QED
      BY <2>3, <3>1 DEF DisableLanguage
  <2>4. CASE EnableLanguage(l)
    <3>1. [langs[l] EXCEPT !.enabled = TRUE] \in LangSpec
      BY <2>1, <2>4 DEF EnableLanguage, LangSpec
    <3> QED
      BY <2>4, <3>1 DEF EnableLanguage
  <2>5. CASE DeleteLanguage(l)
    BY <2>5 DEF DeleteLanguage
  <2>6. CASE RegisterLanguage(l)
    BY <2>6 DEF RegisterLanguage, LangSpec
  <2> QED
    BY <2>2, <2>3, <2>4, <2>5, <2>6
<1>2. UNCHANGED <<cached, heap, call, worker, orphans>> /\ UNCHANGED docker
  BY <1>1 DEF EditLanguage, stores
<1>3. langs' \in [Langs -> LangSpec \cup {NoSpec}]
  BY <1>1 DEF EditLanguage, CompileType
<1> QED
  BY <1>1, <1>2, <1>3 DEF CompileType, CallOK, CacheType, DockerType, docker
LEMMA CacheTypes ==
    ASSUME CompileType, CacheEvict \/ CacheInvalidate \/ Cleanup \/ Close \/ Delete \/ ConcurrentMap
    PROVE  /\ CompileType' /\ UNCHANGED <<langs, heap, call, worker, orphans, seen>>
           /\ \A e \in Engines : cached'[e] \subseteq cached[e]
<1>1. UNCHANGED <<langs, heap, call, worker, orphans, seen>>
  BY DEF CacheEvict, CacheInvalidate, Cleanup, Close, Delete, ConcurrentMap, stores, docker, Counters
<1>2. CacheType' /\ \A e \in Engines : cached'[e] \subseteq cached[e]
  BY DEF CacheEvict, CacheInvalidate, Cleanup, Close, Delete, ConcurrentMap, stores, CompileType,
         CacheType
<1>3. \A v \in Workers : worker[v].id \in Nat
  BY DEF CompileType, CallOK, WorkerType
<1>4. {worker[v].id : v \in {x \in Workers : worker[x].step = "append"}} \subseteq Nat
  BY <1>3
<1>5. DockerType'
  BY <1>4 DEF CacheEvict, CacheInvalidate, Cleanup, Close, Delete, ConcurrentMap, docker,
              CompileType, DockerType
<1> QED
  BY <1>1, <1>2, <1>5 DEF CompileType, CallOK

-----------------------------------------------------------------------------
(* Containers.                                                             *)
\* The ids of the containers whose append is under way.
Pending == {worker[w].id : w \in {x \in Workers : worker[x].step = "append"}}

\* A step that leaves the containers, the list and the appends alone.
LEMMA TrackFrame ==
    ASSUME TrackInv, UNCHANGED <<containers, cleanupIDs, closing, raced>>,
           \A v \in Workers : Appending(v)' = Appending(v),
           \A v \in Workers : Appending(v) => worker'[v].id = worker[v].id
                                              /\ worker'[v].copy = worker[v].copy
    PROVE  TrackInv'
<1>1. Pending' = Pending
  BY DEF Pending, Appending
<1>2. ContainersTracked'
  BY <1>1 DEF TrackInv, ContainersTracked, Pending
<1> QED
  BY <1>2 DEF TrackInv

LEMMA CreateTracks ==
    ASSUME CompileType, TrackInv, NEW w \in Workers, Alone(w), Creates(w)
    PROVE  TrackInv'
<1>1. /\ \A v \in Workers \ {w} : worker'[v] = worker[v] /\ Appending(v)' = Appending(v)
      /\ Appending(w)' /\ ~Appending(w) /\ worker'[w].id = made + 1
      /\ worker'[w].copy = cleanupIDs /\ cleanupIDs' = cleanupIDs /\ closing' = closing
      /\ containers' = containers \cup {made + 1} /\ raced \subseteq raced'
  BY DEF Alone, Creates, Appending
<1>2. closing = "removing" => made + 1 \in raced'
  BY DEF Creates
<1>3. ASSUME NEW v \in Workers \ {w}, Appending(v)
      PROVE  made + 1 \in raced' /\ worker[v].id \in raced'
  BY <1>3 DEF Creates, Appending
<1>4. ContainersTracked'
  <2>1. containers \subseteq cleanupIDs \cup raced \cup Pending
    BY DEF TrackInv, ContainersTracked, Pending
  <2>2. Pending \cup {made + 1} \subseteq Pending'
    BY <1>1 DEF Pending, Appending
  <2>3. containers' \subseteq cleanupIDs' \cup raced' \cup Pending'
    BY <1>1, <2>1, <2>2
  <2> QED
    BY <2>3 DEF ContainersTracked, Pending
<1>5. closing' = "removing" => containers' \subseteq raced'
  BY <1>1, <1>2 DEF TrackInv
<1>6. ASSUME NEW v \in Workers, Appending(v)'
      PROVE  /\ containers' \cap cleanupIDs' \subseteq worker'[v].copy \cup raced'
             /\ containers' \cap worker'[v].copy \subseteq cleanupIDs' \cup raced'
  <2>1. CASE v = w
    BY <1>1, <2>1
  <2>2. CASE v # w
    <3>1. /\ containers \cap cleanupIDs \subseteq worker[v].copy \cup raced
          /\ containers \cap worker[v].copy \subseteq cleanupIDs \cup raced
          /\ made + 1 \in raced'
      BY <1>1, <1>3, <1>6, <2>2 DEF TrackInv
    <3> QED
      BY <1>1, <2>2, <3>1
  <2> QED
    BY <2>1, <2>2
<1>7. ASSUME NEW v \in Workers, Appending(v)', NEW u \in Workers, Appending(u)', u # v
      PROVE  /\ worker'[v].id \in raced'
             /\ containers' \cap worker'[u].copy \subseteq worker'[v].copy \cup raced'
  <2>1. CASE v = w
    <3>1. made + 1 \in raced' /\ containers \cap worker[u].copy \subseteq cleanupIDs \cup raced
      BY <1>1, <1>3, <1>7, <2>1 DEF TrackInv
    <3> QED
      BY <1>1, <1>7, <2>1, <3>1
  <2>2. CASE u = w
    <3>1. /\ made + 1 \in raced' /\ worker[v].id \in raced'
          /\ containers \cap cleanupIDs \subseteq worker[v].copy \cup raced
      BY <1>1, <1>3, <1>7, <2>2 DEF TrackInv
    <3> QED
      BY <1>1, <1>7, <2>2, <3>1
  <2>3. CASE u # w /\ v # w
    <3>1. /\ made + 1 \in raced' /\ worker[v].id \in raced
          /\ containers \cap worker[u].copy \subseteq worker[v].copy \cup raced
      BY <1>1, <1>3, <1>7, <2>3 DEF TrackInv
    <3> QED
      BY <1>1, <1>7, <2>3, <3>1
  <2> QED
    BY <2>1, <2>2, <2>3
<1> QED
  BY <1>4, <1>5, <1>6, <1>7 DEF TrackInv

LEMMA AppendTracks ==
    ASSUME TrackInv, NEW w \in Workers, Alone(w), Appends(w)
    PROVE  TrackInv'
<1>1. /\ \A v \in Workers \ {w} : worker'[v] = worker[v] /\ Appending(v)' = Appending(v)
      /\ ~Appending(w)' /\ Appending(w) /\ closing' = closing
      /\ containers' = containers /\ raced' = raced
      /\ cleanupIDs' = worker[w].copy \cup {worker[w].id}
  BY DEF Alone, Appends, Appending
<1>2. ContainersTracked'
  <2>1. containers \subseteq cleanupIDs \cup raced \cup Pending
    BY DEF TrackInv, ContainersTracked, Pending
  <2>2. Pending \subseteq Pending' \cup {worker[w].id}
    BY <1>1 DEF Pending, Appending
  <2>3. containers \cap cleanupIDs \subseteq worker[w].copy \cup raced
    BY <1>1 DEF TrackInv
  <2>4. containers' \subseteq cleanupIDs' \cup raced' \cup Pending'
    BY <1>1, <2>1, <2>2, <2>3
  <2> QED
    BY <2>4 DEF ContainersTracked, Pending
<1>3. ASSUME NEW v \in Workers, Appending(v)'
      PROVE  /\ containers' \cap cleanupIDs' \subseteq worker'[v].copy \cup raced'
             /\ containers' \cap worker'[v].copy \subseteq cleanupIDs' \cup raced'
  <2>1. v # w /\ Appending(v)
    BY <1>1, <1>3
  <2>2. /\ worker[w].id \in raced
        /\ containers \cap worker[v].copy \subseteq worker[w].copy \cup raced
        /\ containers \cap worker[w].copy \subseteq worker[v].copy \cup raced
    BY <1>1, <2>1 DEF TrackInv
  <2> QED
    BY <1>1, <2>1, <2>2
<1>4. ASSUME NEW v \in Workers, Appending(v)', NEW u \in Workers, Appending(u)', u # v
      PROVE  /\ worker'[v].id \in raced'
             /\ containers' \cap worker'[u].copy \subseteq worker'[v].copy \cup raced'
  <2>1. v # w /\ u # w /\ Appending(v) /\ Appending(u)
    BY <1>1, <1>4
  <2>2. /\ worker[v].id \in raced
        /\ containers \cap worker[u].copy \subseteq worker[v].copy \cup raced
    BY <1>4, <2>1 DEF TrackInv
  <2> QED
    BY <1>1, <2>1, <2>2
<1> QED
  BY <1>1, <1>2, <1>3, <1>4 DEF TrackInv

\* Cleanup removes what the list names: what is left has raced.
LEMMA CloseTracks ==
    ASSUME TrackInv, Cleanup \/ Close
    PROVE  TrackInv'
<1>1. UNCHANGED worker /\ raced \subseteq raced' /\ containers' \subseteq raced'
  <2>1. CASE Cleanup
    BY <2>1 DEF Cleanup, TrackInv, ContainersTracked
  <2>2. CASE Close
    BY <2>2 DEF Close, TrackInv
  <2> QED
    BY <2>1, <2>2
<1>2. ASSUME NEW v \in Workers, Appending(v)', NEW u \in Workers, Appending(u)', u # v
      PROVE  worker'[v].id \in raced'
  BY <1>1, <1>2 DEF TrackInv, Appending
<1> QED
  BY <1>1, <1>2 DEF TrackInv, ContainersTracked

\* Every step, for the containers.
TrackAll == CompileType /\ TrackInv
LEMMA TrackStep == TrackAll /\ [CompilationNext]_compilationVars => TrackAll'
<1> SUFFICES ASSUME CompileType, TrackInv, [CompilationNext]_compilationVars PROVE TrackAll'
  BY DEF TrackAll
<1>1. ASSUME NEW engine \in Engines, Begin(engine) PROVE TrackAll'
  <2>1. Begins(engine) /\ CompileType'
    BY <1>1, BeginKind, BeginTypes
  <2>2. \A v \in Workers : ~Appending(v) /\ ~Appending(v)'
    BY <2>1 DEF Begins, Appending, CompileType, CallOK
  <2>3. \A v \in Workers : Appending(v)' = Appending(v)
    BY <2>2 DEF Appending
  <2>4. UNCHANGED <<containers, cleanupIDs, closing, raced>>
    BY <2>1 DEF Begins, docker
  <2> QED
    BY <2>1, <2>2, <2>3, <2>4, TrackFrame DEF TrackAll
<1>2. CASE Return
  BY <1>2, ReturnKind, ReturnTypes, TrackFrame DEF Returns, docker, TrackAll, Appending
<1>3. ASSUME NEW w \in Workers, WorkerStep(w) \/ WorkerPanic(w) PROVE TrackAll'
  <2>1. CompileType' /\ Alone(w) /\ (Dockerless(w) \/ Creates(w) \/ Appends(w))
    BY <1>3, WorkerTypes, WorkerKinds
  <2>2. CASE Dockerless(w)
    <3>1. ASSUME NEW v \in Workers
          PROVE  /\ Appending(v)' = Appending(v)
                 /\ Appending(v) => worker'[v].id = worker[v].id
                                    /\ worker'[v].copy = worker[v].copy
      BY <2>1, <2>2 DEF Dockerless, Alone, Appending
    <3> QED
      BY <2>1, <2>2, <3>1, TrackFrame DEF Dockerless, TrackAll
  <2> QED
    BY <2>1, <2>2, CreateTracks, AppendTracks DEF TrackAll
<1>4. ASSUME NEW l \in Langs,
             \/ UpdateLanguage(l) \/ DisableLanguage(l) \/ EnableLanguage(l)
             \/ DeleteLanguage(l) \/ RegisterLanguage(l)
      PROVE  TrackAll'
  BY <1>4, EditTypes, TrackFrame DEF docker, TrackAll, Appending
<1>5. CASE Cleanup \/ Close
  BY <1>5, CloseTracks, CacheTypes DEF TrackAll
<1>6. CASE CacheEvict \/ CacheInvalidate \/ Delete \/ ConcurrentMap
  <2>1. UNCHANGED docker
    BY <1>6 DEF CacheEvict, CacheInvalidate, Delete, ConcurrentMap
  <2> QED
    BY <1>6, <2>1, CacheTypes, TrackFrame DEF docker, TrackAll, Appending
<1>7. CASE UNCHANGED compilationVars
  BY <1>7 DEF compilationVars, TrackAll, TrackInv, ContainersTracked, Appending, CompileType,
              CallOK, CacheType, DockerType
<1> QED
  BY <1>1, <1>2, <1>3, <1>4, <1>5, <1>6, <1>7
     DEF CompilationNext, CompileAll, compileVersion, GenerateCodeParallel, Engines

LEMMA CompileInitTypes == CompilationInit => CompileType
<1> SUFFICES ASSUME CompilationInit PROVE CompileType
  OBVIOUS
<1>1. langs \in [Langs -> LangSpec \cup {NoSpec}]
  <2>1. /\ [version |-> 1, enabled |-> TRUE] \in LangSpec
        /\ [version |-> 1, enabled |-> FALSE] \in LangSpec
    BY DEF LangSpec
  <2> QED
    BY <2>1 DEF CompilationInit
<1>2. heap \in Seq(ResultType) /\ CacheType /\ DockerType
  BY DEF CompilationInit, CacheType, DockerType
<1>3. /\ call \in CallType /\ call.order = <<>> /\ call.todo = {} /\ call.results = <<>>
      /\ call.phase = "none"
  BY DEF CompilationInit, NoCall, CallType, Engines, Files
<1>4. worker \in [Workers -> WorkerType] /\ \A w \in Workers : worker[w].step = "gone"
  BY GoneType DEF CompilationInit
<1> QED
  BY <1>1, <1>2, <1>3, <1>4 DEF CompileType, CallOK

\* A container that the orchestrator made is in the list that Cleanup removes or
\* about to be put there, unless its append raced with another one or with
\* Cleanup: for any number of workers, languages, calls and failures.
THEOREM NoContainerForgotten ==
    CompilationInit /\ [][CompilationNext]_compilationVars => []ContainersTracked
<1>1. CompilationInit => TrackAll
  <2>1. CompilationInit => TrackInv
    BY DEF CompilationInit, TrackInv, ContainersTracked, Appending, Gone
  <2> QED
    BY <2>1, CompileInitTypes DEF TrackAll
<1>2. TrackAll => ContainersTracked
  BY DEF TrackAll, TrackInv
<1> QED
  BY <1>1, <1>2, TrackStep, PTL

-----------------------------------------------------------------------------
(* Whose turn it is: every language is taken once and answered or lost.    *)
GoneWorkers == {w \in Workers : worker[w].step = "gone"}

LEMMA AdvanceTurns ==
    ASSUME CallOK, Turns, NEW w \in Workers, Advances(w)
    PROVE  Turns'
<1>1. /\ UNCHANGED <<call, orphans>>
      /\ \A v \in Workers : Held(v)' = Held(v) /\ worker'[v].i = worker[v].i
  BY DEF Advances, Alone, Held
<1>2. GoneWorkers' = GoneWorkers
  BY DEF GoneWorkers, Advances, Alone, Held
<1>3. Exclusive'
  BY <1>1 DEF Turns, Exclusive
<1>4. Covered'
  BY <1>1 DEF Turns, Covered
<1>5. GoneByPanic'
  BY <1>1, <1>2 DEF Turns, GoneByPanic, GoneWorkers
<1> QED
  BY <1>3, <1>4, <1>5 DEF Turns

LEMMA AnswerTurns ==
    ASSUME CallOK, Turns, NEW w \in Workers, NEW out, NEW failed, Answers(w, out, failed),
           out # 0 \/ failed
    PROVE  Turns'
<1>1. /\ \A v \in Workers \ {w} : Held(v)' = Held(v) /\ worker'[v].i = worker[v].i
      /\ ~Held(w)' /\ UNCHANGED orphans /\ call'.todo = call.todo
      /\ call'.order = call.order /\ call'.phase = call.phase
  BY DEF Answers, Alone, Held
<1>2. GoneWorkers' = GoneWorkers
  BY DEF GoneWorkers, Answers, Alone, Held
<1>3. Exclusive'
  BY <1>1 DEF Turns, Exclusive
<1>4. Covered'
  <2> SUFFICES ASSUME ~call'.failed, call'.phase \in {"running", "returned"},
                      NEW i \in DOMAIN call.order
               PROVE  \/ i \in call.todo \/ i \in orphans \/ call'.results[i] # 0
                      \/ \E v \in Workers : Held(v)' /\ worker'[v].i = i
    BY <1>1 DEF Covered
  <2>1. ~call.failed /\ ~failed /\ out # 0
    BY DEF Answers
  <2>2. CASE i = worker[w].i
    BY <2>1, <2>2 DEF Answers
  <2>3. CASE i # worker[w].i
    <3>1. \/ i \in call.todo \/ i \in orphans \/ call.results[i] # 0
          \/ \E v \in Workers : Held(v) /\ worker[v].i = i
      BY <1>1, <2>1 DEF Turns, Covered
    <3>2. call'.results[i] = call.results[i]
      BY <2>3 DEF Answers
    <3> QED
      BY <1>1, <2>3, <3>1, <3>2
  <2> QED
    BY <2>2, <2>3
<1>5. GoneByPanic'
  BY <1>1, <1>2 DEF Turns, GoneByPanic, GoneWorkers
<1> QED
  BY <1>3, <1>4, <1>5 DEF Turns

LEMMA TakeTurns ==
    ASSUME CallOK, Turns, NEW w \in Workers, Takes(w)
    PROVE  Turns'
<1>1. /\ \A v \in Workers \ {w} : Held(v)' = Held(v) /\ worker'[v].i = worker[v].i
      /\ ~Held(w) /\ UNCHANGED orphans
  BY DEF Takes, Alone, Held
<1>2. CASE call' = call /\ call.todo = {} /\ worker'[w].step = "gone"
  BY <1>1, <1>2 DEF Turns, Exclusive, Covered, GoneByPanic, Held
<1>3. CASE ~(call' = call /\ call.todo = {} /\ worker'[w].step = "gone")
  <2>1. /\ worker'[w].step = "start" /\ worker'[w].i \in call.todo
        /\ call'.order = call.order /\ call'.results = call.results /\ call'.phase = call.phase
        /\ call'.failed = call.failed /\ call'.todo = call.todo \ {worker'[w].i}
    BY <1>3 DEF Takes
  <2>2. GoneWorkers' = GoneWorkers
    BY <2>1 DEF GoneWorkers, Takes, Alone
  <2>3. Held(w)'
    BY <2>1 DEF Held
  <2>4. Exclusive'
    BY <1>1, <2>1, <2>3 DEF Turns, Exclusive, GoneByPanic
  <2>5. Covered'
    BY <1>1, <2>1, <2>3 DEF Turns, Covered
  <2>6. GoneByPanic'
    BY <1>1, <2>1, <2>2 DEF Turns, GoneByPanic, GoneWorkers
  <2> QED
    BY <2>4, <2>5, <2>6 DEF Turns
<1> QED
  BY <1>2, <1>3

LEMMA PanicTurns ==
    ASSUME CallOK, Turns, NEW w \in Workers, Panics(w)
    PROVE  Turns'
<1>1. /\ \A v \in Workers \ {w} : Held(v)' = Held(v) /\ worker'[v].i = worker[v].i
      /\ Held(w) /\ ~Held(w)' /\ UNCHANGED call /\ orphans' = orphans \cup {worker[w].i}
  BY DEF Panics, Alone, Held
<1>2. worker[w].i \notin call.todo \cup orphans
  BY <1>1 DEF Turns, Exclusive
<1>3. GoneWorkers' = GoneWorkers \cup {w} /\ w \notin GoneWorkers
  BY DEF GoneWorkers, Panics, Alone, Held
<1>4. Exclusive'
  BY <1>1 DEF Turns, Exclusive
<1>5. Covered'
  BY <1>1 DEF Turns, Covered
<1>6. GoneByPanic'
  <2>1. IsFiniteSet(GoneWorkers)
    BY FS_Subset, CompilationAssumption DEF GoneWorkers
  <2>2. /\ Cardinality(GoneWorkers') = Cardinality(GoneWorkers) + 1
    BY <1>3, <2>1, FS_AddElement
  <2>3. IsFiniteSet(orphans') /\ Cardinality(orphans') = Cardinality(orphans) + 1
    BY <1>1, <1>2, FS_AddElement DEF Turns, GoneByPanic
  <2> QED
    BY <1>1, <1>2, <2>2, <2>3 DEF Turns, GoneByPanic, GoneWorkers
<1> QED
  BY <1>4, <1>5, <1>6 DEF Turns

LEMMA BeginTurns ==
    ASSUME CallOK, NEW engine, Begins(engine)
    PROVE  Turns'
<1>1. \A w \in Workers : ~Held(w)'
  BY DEF Begins, CallOK, Held
<1>2. /\ orphans' = {} /\ IsFiniteSet(orphans') /\ Cardinality(orphans') = 0
  BY FS_EmptySet DEF Begins
<1>3. call'.phase = "running" => GoneWorkers' = {}
  BY DEF Begins, GoneWorkers
<1>4. GoneByPanic'
  BY <1>2, <1>3, FS_EmptySet DEF GoneByPanic, GoneWorkers, Begins
<1>5. Exclusive' /\ Covered'
  BY <1>1 DEF Exclusive, Covered, Begins
<1> QED
  BY <1>4, <1>5 DEF Turns

LEMMA TurnsFrame ==
    ASSUME Turns, UNCHANGED <<worker, orphans>>, UNCHANGED call \/ Returns
    PROVE  Turns'
BY DEF Turns, Exclusive, Covered, GoneByPanic, Held, Returns

-----------------------------------------------------------------------------
(* What the results are results of.                                        *)
\* Results keep fitting.
LEMMA FitsKept ==
    ASSUME HeapGrows, NEW k, NEW l, NEW f, Fits(k, l, f)
    PROVE  Fits(k, l, f)' /\ heap'[k].version = heap[k].version
BY DEF HeapGrows, Fits

\* The answers that are no errors.
LEMMA GoodAnswers ==
    ASSUME FaithInv, NEW w \in Workers, Works(w), NEW out, NEW failed, Answers(w, out, failed),
           \/ Hits(w) /\ out \in CacheGet(w)
           \/ Keeps(w) /\ out = worker[w].out
    PROVE  /\ Fits(out, Lang(w), call.req.files) /\ out # 0
           /\ call.engine = "orchestrator" => heap[out].version \in seen[Lang(w)]
<1>0. /\ worker[w].step \in {"cache", "keep"} /\ CompileType /\ Held(w)
      /\ heap \in Seq(ResultType)
  BY DEF Hits, Keeps, FaithInv, Held, CompileType
<1>1. /\ GenerateCacheKey(w)[1] = Lang(w) /\ GenerateCacheKey(w)[3] = call.req.files
      /\ call.engine = "orchestrator" => GenerateCacheKey(w)[2] = worker[w].spec.version
      /\ call.engine \in Engines
  BY <1>0, KeyType, HeldTypes
<1>2. call.engine = "orchestrator" => worker[w].spec.version \in seen[Lang(w)]
  BY <1>0 DEF FaithInv, SpecSeen
<1>3. CASE Hits(w) /\ out \in CacheGet(w)
  <2>1. PICK x \in cached[call.engine] : x[1] = GenerateCacheKey(w) /\ out = x[2]
    BY <1>3 DEF CacheGet
  <2>2. /\ Fits(x[2], x[1][1], x[1][3])
        /\ call.engine = "orchestrator" => heap[x[2]].version = x[1][2]
    BY <1>1 DEF FaithInv, CacheFits
  <2>3. Fits(out, Lang(w), call.req.files)
    BY <1>1, <2>1, <2>2
  <2> QED
    BY <1>0, <1>1, <1>2, <2>1, <2>2, <2>3 DEF Fits
<1>4. CASE Keeps(w) /\ out = worker[w].out
  <2>1. Fits(out, Lang(w), call.req.files) /\ heap[out].version = worker[w].spec.version
    BY <1>4 DEF Keeps, FaithInv, OutFits
  <2> QED
    BY <1>0, <1>2, <2>1 DEF Fits
<1> QED
  BY <1>3, <1>4

\* What a step of a worker leaves of the call and of the languages held.
LEMMA WorkFrame ==
    ASSUME FaithInv, NEW w \in Workers, Works(w) \/ Takes(w) \/ Panics(w)
    PROVE  /\ call'.order = call.order /\ call'.req = call.req /\ call'.engine = call.engine
           /\ call'.phase = call.phase
           /\ \A v \in Workers \ {w} : worker'[v] = worker[v] /\ Lang(v)' = Lang(v)
           /\ Held(w) /\ Held(w)' => Lang(w)' = Lang(w)
<1>1. CASE Advances(w)
  BY <1>1 DEF Advances, Alone, Lang
<1>2. ASSUME NEW out, NEW failed, Answers(w, out, failed)
      PROVE  /\ call'.order = call.order /\ call'.req = call.req /\ call'.engine = call.engine
             /\ call'.phase = call.phase /\ Alone(w) /\ ~Held(w)'
  BY <1>2 DEF Answers, Held
<1>3. CASE Takes(w) \/ Panics(w)
  BY <1>3 DEF Takes, Panics, Alone, Lang, Held
<1>4. \/ Advances(w) \/ Takes(w) \/ Panics(w)
      \/ \E out, failed : Answers(w, out, failed)
  BY DEF Works, Plain, Looks, Hits, Makes, Stores, Keeps
<1>5. CASE \E out, failed : Answers(w, out, failed)
  BY <1>2, <1>5 DEF Alone, Lang
<1> QED
  BY <1>1, <1>3, <1>4, <1>5

LEMMA WorkFits ==
    ASSUME FaithInv, NEW w \in Workers, Works(w) \/ Takes(w) \/ Panics(w), UNCHANGED <<langs, seen>>
    PROVE  CacheFits' /\ OutFits' /\ SpecSeen' /\ LangSeen' /\ ResultsFit' /\ Turns'
<1>0. CompileType /\ CallOK /\ HeapGrows /\ heap \in Seq(ResultType)
  BY WorkGrows DEF FaithInv, CompileType
<1>f. /\ call'.order = call.order /\ call'.req = call.req /\ call'.engine = call.engine
      /\ call'.phase = call.phase
      /\ \A v \in Workers \ {w} : worker'[v] = worker[v] /\ Lang(v)' = Lang(v)
      /\ Held(w) /\ Held(w)' => Lang(w)' = Lang(w)
  BY WorkFrame
<1>1. CacheFits'
  <2>1. \A e \in Engines : \A x \in cached[e] :
            /\ Fits(x[2], x[1][1], x[1][3])'
            /\ e = "orchestrator" => heap'[x[2]].version = x[1][2]
    BY <1>0, FitsKept DEF FaithInv, CacheFits
  <2>2. CASE UNCHANGED cached
    BY <2>1, <2>2 DEF CacheFits
  <2>3. CASE Keeps(w)
    <3>0. PICK y : y = <<GenerateCacheKey(w), worker[w].out>>
      OBVIOUS
    <3>1. /\ GenerateCacheKey(w)[1] = Lang(w) /\ GenerateCacheKey(w)[3] = call.req.files
          /\ call.engine = "orchestrator" => GenerateCacheKey(w)[2] = worker[w].spec.version
      BY <1>0, <2>3, KeyType DEF Keeps
    <3>2. /\ Fits(worker[w].out, Lang(w), call.req.files)
          /\ heap[worker[w].out].version = worker[w].spec.version /\ heap' = heap
      BY <2>3 DEF Keeps, FaithInv, OutFits
    <3>3. /\ Fits(y[2], y[1][1], y[1][3])'
          /\ call.engine = "orchestrator" => heap'[y[2]].version = y[1][2]
      BY <3>0, <3>1, <3>2 DEF Fits
    <3>4. \A e \in Engines : \A x \in cached'[e] :
              x \in cached[e] \/ (x = y /\ e = call.engine)
      BY <2>3, <3>0 DEF Keeps, FaithInv, CompileType, CacheType
    <3> QED
      BY <2>1, <3>3, <3>4 DEF CacheFits
  <2> QED
    BY <2>2, <2>3 DEF Works, Plain, Looks, Hits, Makes, Stores, Takes, Panics
<1>2. OutFits'
  <2> SUFFICES ASSUME NEW v \in Workers, worker'[v].step \in {"store", "keep"}
               PROVE  /\ Fits(worker[v].out, Lang(v), call.req.files)'
                      /\ heap'[worker'[v].out].version = worker'[v].spec.version
    BY DEF OutFits
  <2>1. CASE v # w
    <3>1. /\ Fits(worker[v].out, Lang(v), call.req.files)
          /\ heap[worker[v].out].version = worker[v].spec.version
      BY <1>f, <2>1 DEF FaithInv, OutFits
    <3> QED
      BY <1>0, <1>f, <2>1, <3>1 DEF HeapGrows, Fits
  <2>2. CASE v = w /\ Makes(w)
    <3>1. /\ heap' = Append(heap, buildProtocFlags(w)) /\ worker'[w].out = Len(heap) + 1
          /\ worker'[w].spec = worker[w].spec /\ Lang(w)' = Lang(w)
      BY <1>f, <2>2 DEF Makes, Advances
    <3>2. heap'[Len(heap) + 1] = buildProtocFlags(w) /\ Len(heap) + 1 \in DOMAIN heap'
      BY <1>0, <3>1
    <3> QED
      BY <1>f, <2>2, <3>1, <3>2 DEF Fits, buildProtocFlags
  <2>3. CASE v = w /\ Stores(w)
    <3>1. /\ Fits(worker[w].out, Lang(w), call.req.files)
          /\ heap[worker[w].out].version = worker[w].spec.version
          /\ worker'[w].out = worker[w].out /\ worker'[w].spec = worker[w].spec
          /\ Lang(w)' = Lang(w)
      BY <1>f, <2>3 DEF FaithInv, OutFits, Stores, Advances
    <3> QED
      BY <1>0, <1>f, <2>3, <3>1 DEF HeapGrows, Fits
  <2> QED
    BY <2>1, <2>2, <2>3
       DEF Works, Plain, Looks, Hits, Keeps, Takes, Panics, Answers
<1>3. SpecSeen'
  <2> SUFFICES ASSUME NEW v \in Workers, worker'[v].step \notin {"gone", "idle", "start"},
                      call.engine = "orchestrator"
               PROVE  worker'[v].spec.version \in seen[Lang(v)']
    BY <1>f DEF SpecSeen
  <2>1. CASE v # w
    BY <1>f, <2>1 DEF FaithInv, SpecSeen
  <2>2. CASE v = w /\ Looks(w)
    <3>1. Lang(w) \in Langs /\ call.phase = "running" /\ Lang(w)' = Lang(w)
      BY <1>0, <1>f, <2>2, HeldTypes DEF Looks, Advances
    <3>2. worker'[w].spec = langs[Lang(w)] /\ langs[Lang(w)] # NoSpec
      BY <2>2 DEF Looks, SpecOf, Get
    <3> QED
      BY <2>2, <3>1, <3>2 DEF FaithInv, LangSeen
  <2>3. CASE v = w /\ ~Looks(w)
    <3>1. /\ worker[w].step \notin {"gone", "idle", "start"} /\ worker'[w].spec = worker[w].spec
          /\ Lang(w)' = Lang(w)
      BY <1>f, <2>3 DEF Works, Plain, Hits, Makes, Stores, Keeps, Takes, Panics, Answers, Advances,
                        Held
    <3> QED
      BY <2>3, <3>1 DEF FaithInv, SpecSeen
  <2> QED
    BY <2>1, <2>2, <2>3
<1>4. LangSeen'
  BY <1>f DEF FaithInv, LangSeen
<1>5. ASSUME NEW i \in DOMAIN call.order, call'.results[i] = call.results[i],
             call.results[i] # 0
      PROVE  /\ Fits(call.results[i], call.order[i], call.req.files)'
             /\ call.engine = "orchestrator" => heap'[call'.results[i]].version \in seen[call.order[i]]
  <2>1. /\ Fits(call.results[i], call.order[i], call.req.files)
        /\ call.engine = "orchestrator" => heap[call.results[i]].version \in seen[call.order[i]]
    BY <1>5 DEF FaithInv, ResultsFit
  <2> QED
    BY <1>0, <1>5, <1>f, <2>1 DEF HeapGrows, Fits
<1>6. ASSUME NEW out, NEW failed, Answers(w, out, failed),
             \/ out = 0 /\ failed
             \/ Hits(w) /\ out \in CacheGet(w)
             \/ Keeps(w) /\ out = worker[w].out
      PROVE  ResultsFit' /\ Turns'
  <2>1. out # 0 => /\ Fits(out, Lang(w), call.req.files)
                   /\ call.engine = "orchestrator" => heap[out].version \in seen[Lang(w)]
    BY <1>6, GoodAnswers DEF Works
  <2>2. out # 0 \/ failed
    BY <1>6, GoodAnswers DEF Works
  <2>3. ASSUME NEW i \in DOMAIN call.order, call'.results[i] # 0
        PROVE  /\ Fits(call.results[i], call.order[i], call.req.files)'
               /\ call.engine = "orchestrator" =>
                      heap'[call'.results[i]].version \in seen[call.order[i]]
    <3>1. CASE i = worker[w].i
      <4>1. call'.results[i] = out /\ Lang(w) = call.order[i]
        BY <1>6, <3>1 DEF Answers, Lang
      <4> QED
        BY <1>0, <1>f, <2>1, <2>3, <4>1 DEF HeapGrows, Fits
    <3>2. CASE i # worker[w].i
      BY <1>5, <1>6, <2>3, <3>2 DEF Answers
    <3> QED
      BY <3>1, <3>2
  <2> QED
    BY <1>0, <1>6, <1>f, <2>2, <2>3, AnswerTurns DEF ResultsFit, FaithInv
<1>7. call'.results = call.results => ResultsFit'
  BY <1>5, <1>f DEF ResultsFit
<1>8. CASE Advances(w) \/ Takes(w) \/ Panics(w)
  <2>1. call'.results = call.results
    BY <1>8 DEF Advances, Takes, Panics
  <2> QED
    BY <1>0, <1>1, <1>2, <1>3, <1>4, <1>7, <1>8, <2>1, AdvanceTurns, TakeTurns, PanicTurns
       DEF FaithInv
<1> QED
  BY <1>1, <1>2, <1>3, <1>4, <1>6, <1>8 DEF Works, Plain, Looks, Hits, Makes, Stores, Keeps

\* The calls themselves: nothing is cached or answered by them.
LEMMA BeginFits ==
    ASSUME FaithInv, NEW engine, Begins(engine)
    PROVE  SeenType' /\ CacheFits' /\ OutFits' /\ SpecSeen' /\ LangSeen' /\ ResultsFit'
<1>1. \A w \in Workers : worker'[w].step \in {"gone", "idle"}
  BY DEF Begins, FaithInv, CompileType, CallOK
<1>2. SeenType' /\ LangSeen'
  <2>1. \A l \in Langs : langs[l] # NoSpec => langs[l].version \in Nat
    BY DEF FaithInv, CompileType, LangSpec
  <2> QED
    BY <2>1 DEF Begins, SeenType, LangSeen
<1> QED
  BY <1>1, <1>2 DEF Begins, FaithInv, CacheFits, OutFits, SpecSeen, ResultsFit, Fits

LEMMA ReturnFits ==
    ASSUME FaithInv, Returns
    PROVE  SeenType' /\ CacheFits' /\ OutFits' /\ SpecSeen' /\ LangSeen' /\ ResultsFit'
<1>1. UNCHANGED worker /\ \A w \in Workers : worker[w].step = "gone"
  BY DEF Returns
<1> QED
  BY <1>1 DEF Returns, FaithInv, SeenType, CacheFits, OutFits, SpecSeen, LangSeen, ResultsFit, Fits

\* The registry may be edited during a call: seen only grows.
LEMMA EditFits ==
    ASSUME FaithInv, NEW l \in Langs, NEW spec \in LangSpec \cup {NoSpec}, EditLanguage(l, spec)
    PROVE  SeenType' /\ CacheFits' /\ OutFits' /\ SpecSeen' /\ LangSeen' /\ ResultsFit'
<1>1. /\ UNCHANGED <<cached, heap, call, worker>> /\ langs' = [langs EXCEPT ![l] = spec]
      /\ \A v \in Workers : Lang(v)' = Lang(v)
  BY DEF EditLanguage, stores, Lang
<1>2. spec # NoSpec => spec \in LangSpec /\ spec.version \in Nat
  BY DEF LangSpec
<1>3. /\ SeenType' /\ (\A m \in Langs : seen[m] \subseteq seen'[m])
      /\ spec # NoSpec => spec.version \in seen'[l]
  BY <1>2 DEF FaithInv, SeenType, EditLanguage
<1>4. CacheFits' /\ OutFits'
  BY <1>1 DEF FaithInv, CacheFits, OutFits, Fits
<1>5. LangSeen'
  <2>1. langs'[l] = spec /\ \A m \in Langs \ {l} : langs'[m] = langs[m]
    BY <1>1 DEF FaithInv, CompileType
  <2> QED
    BY <1>1, <1>3, <2>1 DEF FaithInv, LangSeen
<1>6. SpecSeen'
  <2> SUFFICES ASSUME NEW v \in Workers, worker[v].step \notin {"gone", "idle", "start"},
                      call.engine = "orchestrator"
               PROVE  worker[v].spec.version \in seen'[Lang(v)]
    BY <1>1 DEF SpecSeen
  <2>1. Lang(v) \in Langs
    BY HeldTypes DEF FaithInv, Held
  <2> QED
    BY <1>3, <2>1 DEF FaithInv, SpecSeen
<1>7. ResultsFit'
  <2>1. \A i \in DOMAIN call.order : call.order[i] \in Langs
    BY DEF FaithInv, CompileType, CallOK, CallType
  <2> QED
    BY <1>1, <1>3, <2>1 DEF FaithInv, ResultsFit, Fits
<1> QED
  BY <1>3, <1>4, <1>5, <1>6, <1>7

\* Evictions, Close and the artifacts manager take entries away.
LEMMA EvictFits ==
    ASSUME FaithInv, UNCHANGED <<langs, heap, call, worker, seen>>,
           \A e \in Engines : cached'[e] \subseteq cached[e]
    PROVE  SeenType' /\ CacheFits' /\ OutFits' /\ SpecSeen' /\ LangSeen' /\ ResultsFit'
<1>1. \A v \in Workers : Lang(v)' = Lang(v)
  BY DEF Lang
<1> QED
  BY <1>1 DEF FaithInv, SeenType, CacheFits, OutFits, SpecSeen, LangSeen, ResultsFit, Fits

LEMMA FaithStep == FaithInv /\ [CompilationNext]_compilationVars => FaithInv'
<1> SUFFICES ASSUME FaithInv, [CompilationNext]_compilationVars PROVE FaithInv'
  OBVIOUS
<1>0. CompileType /\ CallOK /\ Turns
  BY DEF FaithInv, CompileType
<1>1. ASSUME NEW engine \in Engines, Begin(engine) PROVE FaithInv'
  <2>1. Begins(engine) /\ CompileType'
    BY <1>0, <1>1, BeginKind, BeginTypes
  <2> QED
    BY <1>0, <2>1, BeginFits, BeginTurns DEF FaithInv
<1>2. CASE Return
  <2>1. Returns /\ CompileType'
    BY <1>0, <1>2, ReturnKind, ReturnTypes
  <2>2. Turns'
    BY <1>0, <2>1, TurnsFrame DEF Returns
  <2> QED
    BY <2>1, <2>2, ReturnFits DEF FaithInv
<1>3. ASSUME NEW w \in Workers, WorkerStep(w) \/ WorkerPanic(w) PROVE FaithInv'
  <2>1. CompileType' /\ (Works(w) \/ Takes(w) \/ Panics(w)) /\ UNCHANGED <<langs, seen>>
    BY <1>0, <1>3, WorkerTypes, WorkerKinds
  <2> QED
    BY <2>1, WorkFits DEF FaithInv, SeenType
<1>4. ASSUME NEW l \in Langs,
             \/ UpdateLanguage(l) \/ DisableLanguage(l) \/ EnableLanguage(l)
             \/ DeleteLanguage(l) \/ RegisterLanguage(l)
      PROVE  FaithInv'
  <2>1. CompileType' /\ UNCHANGED <<cached, heap, call, worker, orphans>>
    BY <1>0, <1>4, EditTypes
  <2>2. PICK spec \in LangSpec \cup {NoSpec} : EditLanguage(l, spec)
    BY <1>0, <1>4, EditTypes
  <2>3. Turns'
    BY <1>0, <2>1, TurnsFrame
  <2> QED
    BY <2>1, <2>2, <2>3, EditFits DEF FaithInv
<1>5. CASE CacheEvict \/ CacheInvalidate \/ Cleanup \/ Close \/ Delete \/ ConcurrentMap
  <2>1. /\ CompileType' /\ UNCHANGED <<langs, heap, call, worker, orphans, seen>>
        /\ \A e \in Engines : cached'[e] \subseteq cached[e]
    BY <1>0, <1>5, CacheTypes
  <2>2. Turns'
    BY <1>0, <2>1, TurnsFrame
  <2> QED
    BY <2>1, <2>2, EvictFits DEF FaithInv
<1>6. CASE UNCHANGED compilationVars
  <2>1. /\ UNCHANGED <<langs, heap, call, worker, orphans, seen>>
        /\ \A e \in Engines : cached'[e] \subseteq cached[e]
    BY <1>6 DEF compilationVars
  <2>2. CompileType'
    BY <1>0, <1>6 DEF compilationVars, CompileType, CallOK, CacheType, DockerType
  <2>3. Turns'
    BY <1>0, <2>1, TurnsFrame
  <2> QED
    BY <2>1, <2>2, <2>3, EvictFits DEF FaithInv
<1> QED
  BY <1>1, <1>2, <1>3, <1>4, <1>5, <1>6
     DEF CompilationNext, CompileAll, compileVersion, GenerateCodeParallel, Engines

\* A call of either engine that returns without an error has, for every
\* language, a result of these proto files, made by the orchestrator with a
\* plugin version registered during the call; a language without a result was
\* lost in a panic of its worker, or every worker panicked: for any number of
\* languages, workers, calls, failures and edits of the registry.
THEOREM ResultsAreFaithful ==
    CompilationInit /\ [][CompilationNext]_compilationVars => []ResultsFaithful
<1>1. CompilationInit => FaithInv
  <2> SUFFICES ASSUME CompilationInit PROVE FaithInv
    OBVIOUS
  <2>1. /\ CompileType /\ call.phase = "none" /\ call.order = <<>> /\ orphans = {}
        /\ call.todo = {} /\ (\A w \in Workers : worker[w].step = "gone")
        /\ \A e \in Engines : cached[e] = {}
    BY CompileInitTypes DEF CompilationInit, NoCall, Gone
  <2>2. Turns
    BY <2>1, FS_EmptySet DEF Turns, Exclusive, Covered, GoneByPanic, Held
  <2>3. SeenType
    BY DEF CompilationInit, SeenType
  <2> QED
    BY <2>1, <2>2, <2>3 DEF FaithInv, CacheFits, OutFits, SpecSeen, LangSeen, ResultsFit
<1>2. FaithInv => ResultsFaithful
  <2> SUFFICES ASSUME FaithInv, call.phase = "returned", ~call.failed, NEW i \in DOMAIN call.order
               PROVE  LET k == call.results[i] IN
                        IF k = 0 THEN i \in orphans \/ Cardinality(orphans) = Cardinality(Workers)
                        ELSE /\ heap[k].lang = call.order[i] /\ heap[k].files = call.req.files
                             /\ call.engine = "orchestrator" => heap[k].version \in seen[call.order[i]]
    BY DEF ResultsFaithful
  <2>1. \A w \in Workers : worker[w].step = "gone"
    BY DEF FaithInv, CompileType, CallOK
  <2>2. CASE call.results[i] = 0
    <3>1. i \in call.todo \/ i \in orphans
      BY <2>1, <2>2 DEF FaithInv, Turns, Covered, Held
    <3>2. {w \in Workers : worker[w].step = "gone"} = Workers
      BY <2>1
    <3>3. call.todo # {} => Cardinality(orphans) = Cardinality(Workers)
      BY <3>2 DEF FaithInv, Turns, GoneByPanic
    <3> QED
      BY <2>2, <3>1, <3>3
  <2>3. CASE call.results[i] # 0
    BY <2>3 DEF FaithInv, ResultsFit, Fits
  <2> QED
    BY <2>2, <2>3
<1> QED
  BY <1>1, <1>2, FaithStep, PTL

-----------------------------------------------------------------------------
(* The resolver of dependencies.                                           *)
Frames == [key : Keys \cup {NoKey}, rest : Seq(Keys)]
RequestType ==
    /\ source \in [Keys -> DepLists \cup {Unreadable}]
    /\ past \in [Keys -> SUBSET (DepLists \cup {Unreadable})]
    /\ reads \in [Keys -> Nat]
    /\ op \in Ops /\ root \in Keys
    /\ phase \in {"idle", "build", "walk", "answered"}
    /\ reply \in {"none", "ok", "unreadable", "cycle"}
    /\ reply = "none" <=> phase # "answered"
    /\ stack \in Seq(Frames)
    /\ visited \subseteq Keys /\ recStack \subseteq Keys /\ nodes \subseteq Keys
    /\ edges \in [Keys -> Seq(Keys)] /\ result \in Seq(Keys)

\* Where the recursion under way goes from a version, and where it starts.
Impacting == phase = "walk" /\ op = "getImpact"
Steps == [k \in Keys |-> IF Impacting THEN GetDependents(k) ELSE Range(edges[k])]
Starts == IF Impacting THEN GetDependents(root) ELSE {root}
Rest(i) == Range(stack[i].rest)

\* The frames are a path of the graph, each with a part of its list left.
Stacked ==
    /\ Len(stack) >= 1 /\ stack[1].key = NoKey /\ Rest(1) \subseteq Starts
    /\ \A i \in 2 .. Len(stack) :
         /\ stack[i].key \in visited /\ Rest(i) \subseteq Steps[stack[i].key]
         /\ stack[i].key \in (IF i = 2 THEN Starts ELSE Steps[stack[i - 1].key])
    /\ \A i, j \in 2 .. Len(stack) : stack[i].key = stack[j].key => i = j

\* k's own call has still to come to d.
Ahead(k, d) == \E i \in 2 .. Len(stack) : stack[i].key = k /\ d \in Rest(i)
\* Nothing is passed over.
NonePassed ==
    /\ \A d \in Starts : d \in visited \cup Rest(1)
    /\ \A k \in visited : \A d \in Steps[k] : d \in visited \/ Ahead(k, d)
\* Nothing is entered that is not reached.
Minimal ==
    \A S \in SUBSET Keys :
        Starts \subseteq S /\ (\A k \in S : Steps[k] \subseteq S) => visited \subseteq S
ReachInv == Stacked /\ NonePassed /\ Minimal

\* What has been left needs nothing that has not, and each call under way
\* needs what was left, what its loop has still to do, or the next call.
Done == visited \ recStack
Settled ==
    /\ \A i \in 2 .. Len(stack) : stack[i].key \in recStack
    /\ \A k \in recStack : \E i \in 2 .. Len(stack) : stack[i].key = k
    /\ \A k \in Done : Range(edges[k]) \subseteq Done
    /\ \A i \in 2 .. Len(stack) : \A d \in Range(edges[stack[i].key]) :
         d \in Done \/ d \in Rest(i) \/ (i < Len(stack) /\ d = stack[i + 1].key)
    /\ \A S \in SUBSET Done : S # {} => \E k \in S : Range(edges[k]) \cap S = {}
\* The result lists what has been left, dependencies first.
Sorted ==
    /\ Range(result) = Done
    /\ \A i, j \in DOMAIN result : result[i] = result[j] => i = j
    /\ \A i \in DOMAIN result : \A d \in Range(edges[result[i]]) :
         \E j \in 1 .. i - 1 : d = result[j]
\* The result lists what the traversal has come to.
Listed ==
    /\ \A d \in Range(result) : \E k \in visited : d \in Steps[k]
    /\ \A k \in visited : \A d \in Steps[k] : d \in Range(result) \/ Ahead(k, d)

\* A loop that goes on.
LEMMA AdvancedFacts ==
    ASSUME stack \in Seq(Frames), stack # <<>>, Top.rest # <<>>
    PROVE  /\ Len(stack) \in Nat \ {0} /\ Dep \in Keys
           /\ Advanced \in Seq(Frames) /\ Len(Advanced) = Len(stack)
           /\ \A i \in 1 .. Len(stack) - 1 : Advanced[i] = stack[i]
           /\ \A i \in 1 .. Len(stack) : Advanced[i].key = stack[i].key
           /\ \A i \in 1 .. Len(stack) : Range(Advanced[i].rest) \subseteq Rest(i)
           /\ \A i \in 1 .. Len(stack) : Rest(i) \subseteq Range(Advanced[i].rest) \cup {Dep}
           /\ Dep \in Rest(Len(stack))
<1> DEFINE n == Len(stack)
<1>1. n \in Nat \ {0} /\ stack[n] \in Frames
  OBVIOUS
<1>2. PICK r \in Seq(Keys) : r = stack[n].rest /\ r # <<>>
  BY <1>1 DEF Frames, Top
<1>3. /\ Head(r) \in Keys /\ Head(r) = r[1] /\ Tail(r) \in Seq(Keys) /\ Len(Tail(r)) = Len(r) - 1
      /\ \A j \in 1 .. Len(r) - 1 : Tail(r)[j] = r[j + 1]
      /\ Len(r) \in Nat \ {0}
  BY <1>2
<1>4. Range(r) = {Head(r)} \cup Range(Tail(r))
  <2>1. ASSUME NEW j \in 1 .. Len(r) PROVE j = 1 \/ (j - 1 \in 1 .. Len(r) - 1 /\ Tail(r)[j - 1] = r[j])
    BY <1>3
  <2>2. DOMAIN r = 1 .. Len(r) /\ DOMAIN Tail(r) = 1 .. Len(r) - 1
    BY <1>2, <1>3
  <2>3. ASSUME NEW j \in 1 .. Len(r) - 1 PROVE j + 1 \in 1 .. Len(r)
    BY <1>3
  <2>4. 1 \in 1 .. Len(r)
    BY <1>3
  <2>5. ASSUME NEW x \in Range(r) PROVE x = Head(r) \/ x \in Range(Tail(r))
    <3>1. PICK j \in 1 .. Len(r) : r[j] = x
      BY <2>2 DEF Range
    <3>2. j - 1 \in 1 .. Len(r) - 1 => Tail(r)[j - 1] \in Range(Tail(r))
      BY <2>2 DEF Range
    <3> QED
      BY <1>3, <2>1, <3>1, <3>2
  <2>6. \A x : x = Head(r) \/ x \in Range(Tail(r)) => x \in Range(r)
    BY <1>3, <2>2, <2>3, <2>4 DEF Range
  <2> QED
    BY <2>5, <2>6
<1>5. Top.rest = r /\ Dep = Head(r)
  BY <1>2 DEF Top, Dep
<1>6. Advanced = [stack EXCEPT ![n].rest = Tail(r)]
  BY <1>5, <1>2 DEF Advanced
<1>7. Advanced = [stack EXCEPT ![n] = [stack[n] EXCEPT !.rest = Tail(r)]]
  BY <1>6
<1>8. /\ [stack[n] EXCEPT !.rest = Tail(r)] \in Frames
      /\ [stack[n] EXCEPT !.rest = Tail(r)].key = stack[n].key
      /\ [stack[n] EXCEPT !.rest = Tail(r)].rest = Tail(r)
  BY <1>1, <1>3 DEF Frames
<1>9. Advanced \in Seq(Frames) /\ Len(Advanced) = n
  BY <1>7, <1>8, <1>1
<1>10. \A i \in 1 .. n : Advanced[i] = IF i = n THEN [stack[n] EXCEPT !.rest = Tail(r)] ELSE stack[i]
  BY <1>7, <1>1
<1>11. \A i \in 1 .. n - 1 : i \in 1 .. n /\ i # n
  BY <1>1
<1>12. n \in 1 .. n
  BY <1>1
<1>13. \A i \in 1 .. n : Range(Advanced[i].rest) \subseteq Rest(i) /\ Rest(i) \subseteq Range(Advanced[i].rest) \cup {Dep}
  BY <1>10, <1>8, <1>4, <1>5, <1>2 DEF Rest
<1>14. Dep \in Rest(n)
  BY <1>4, <1>5, <1>2 DEF Rest
<1> QED
  BY <1>1, <1>3, <1>5, <1>8, <1>9, <1>10, <1>11, <1>13, <1>14

LEMMA EmptyRange == Range(<<>>) = {}
BY DEF Range

\* A call that is skipped.
LEMMA SkipReach ==
    ASSUME RequestType, ReachInv, Top.rest # <<>>, Dep \in visited,
           stack' = Advanced, visited' = visited, Starts' = Starts,
           Steps' = Steps
    PROVE  ReachInv'
<1> DEFINE n == Len(stack)
<1>1. n \in Nat \ {0} /\ stack # <<>>
  BY DEF ReachInv, Stacked, RequestType
<1>2. /\ Len(stack') = n /\ Dep \in Keys
      /\ \A i \in 1 .. n : stack'[i].key = stack[i].key /\ Rest(i)' \subseteq Rest(i)
      /\ \A i \in 1 .. n : Rest(i) \subseteq Rest(i)' \cup {Dep}
  BY <1>1, AdvancedFacts DEF Rest, RequestType
<1>3. \A i \in 2 .. n : i \in 1 .. n /\ (i # 2 => i - 1 \in 2 .. n)
  BY <1>1
<1>k. \A i \in 2 .. n : stack[i].key \in Keys
  BY DEF ReachInv, Stacked, RequestType
<1>4. Stacked'
  <2>1. 1 \in 1 .. n
    BY <1>1
  <2>2. Len(stack') >= 1 /\ stack'[1].key = NoKey /\ Rest(1)' \subseteq Starts'
    BY <2>1, <1>2 DEF ReachInv, Stacked
  <2>3. ASSUME NEW i \in 2 .. n
        PROVE  /\ stack'[i].key \in visited' /\ Rest(i)' \subseteq Steps'[stack'[i].key]
               /\ stack'[i].key \in (IF i = 2 THEN Starts' ELSE Steps'[stack'[i - 1].key])
    BY <1>2, <1>3, <1>k DEF ReachInv, Stacked
  <2> QED
    BY <2>2, <2>3, <1>2, <1>3 DEF ReachInv, Stacked
<1>5. NonePassed'
  <2>1. 1 \in 1 .. n
    BY <1>1
  <2>2. \A d \in Starts' : d \in visited' \cup Rest(1)'
    BY <2>1, <1>2 DEF ReachInv, NonePassed
  <2>3. ASSUME NEW k \in visited', NEW d \in Steps'[k] PROVE d \in visited' \/ Ahead(k, d)'
    <3>1. k \in Keys /\ (d \in visited \/ Ahead(k, d))
      BY DEF ReachInv, NonePassed, RequestType
    <3> QED
      BY <3>1, <1>2, <1>3 DEF Ahead
  <2> QED
    BY <2>2, <2>3 DEF NonePassed
<1>6. Minimal'
  BY DEF ReachInv, Minimal
<1> QED
  BY <1>4, <1>5, <1>6 DEF ReachInv

\* A call that is made: a frame with the successors of its version.
Entered(e, list, n) ==
    /\ n \in Nat /\ n >= 1 /\ Len(stack) = n /\ Len(stack') = n + 1 /\ stack' \in Seq(Frames)
    /\ \A i \in 1 .. n : stack'[i].key = stack[i].key /\ Rest(i)' \subseteq Rest(i)
    /\ \A i \in 1 .. n : Rest(i) \subseteq Rest(i)' \cup {e}
    /\ \A i \in 1 .. n - 1 : Rest(i)' = Rest(i)
    /\ e \in Rest(n) /\ stack'[n + 1].key = e /\ Rest(n + 1)' = Range(list)
LEMMA EnterFacts ==
    ASSUME stack \in Seq(Frames), stack # <<>>, Top.rest # <<>>, NEW e \in Keys, e = Dep,
           NEW list \in Seq(Keys), stack' = Append(Advanced, Frame(e, list))
    PROVE  Entered(e, list, Len(stack))
<1> PICK n \in Nat : n = Len(stack)
  OBVIOUS
<1>1. n >= 1
  OBVIOUS
<1>a. /\ Len(Advanced) = n /\ Advanced \in Seq(Frames)
      /\ \A i \in 1 .. n : Advanced[i].key = stack[i].key /\ Range(Advanced[i].rest) \subseteq Rest(i)
      /\ \A i \in 1 .. n : Rest(i) \subseteq Range(Advanced[i].rest) \cup {e}
      /\ \A i \in 1 .. n - 1 : Advanced[i] = stack[i]
      /\ e \in Rest(n)
  BY AdvancedFacts
<1>b. Frame(e, list) \in Frames /\ Frame(e, list).key = e /\ Frame(e, list).rest = list
  BY DEF Frame, Frames
<1>c. /\ Len(stack') = n + 1 /\ stack'[n + 1] = Frame(e, list) /\ stack' \in Seq(Frames)
      /\ \A i \in 1 .. n : stack'[i] = Advanced[i]
  BY <1>a, <1>b, <1>1
<1>2. \A i \in 1 .. n : Rest(i)' = Range(Advanced[i].rest)
  BY <1>c DEF Rest
<1>3. \A i \in 1 .. n - 1 : i \in 1 .. n
  OBVIOUS
<1>4. \A i \in 1 .. n - 1 : Rest(i)' = Rest(i)
  BY <1>2, <1>3, <1>a DEF Rest
<1>5. Rest(n + 1)' = Range(list)
  BY <1>b, <1>c DEF Rest
<1>6. \A i \in 1 .. n : stack'[i].key = stack[i].key /\ Rest(i)' \subseteq Rest(i)
  BY <1>2, <1>a, <1>c
<1>7. \A i \in 1 .. n : Rest(i) \subseteq Rest(i)' \cup {e}
  BY <1>2, <1>a
<1>8. stack'[n + 1].key = e
  BY <1>b, <1>c
<1>9. e \in Rest(n) /\ Len(stack') = n + 1 /\ stack' \in Seq(Frames)
  BY <1>a, <1>c
<1>10. Entered(e, list, n)
  BY ONLY n \in Nat, n = Len(stack), <1>1, <1>4, <1>5, <1>6, <1>7, <1>8, <1>9 DEF Entered
<1> QED
  BY <1>10

LEMMA EnterReach ==
    ASSUME RequestType, ReachInv, NEW e \in Keys, e \notin visited,
           NEW list \in Seq(Keys), NEW n \in Nat, Entered(e, list, n),
           visited' = visited \cup {e}, Starts' = Starts,
           Range(list) = Steps'[e], Steps[e] \subseteq Steps'[e],
           \A k \in Keys : k # e => Steps'[k] = Steps[k]
    PROVE  ReachInv'
<1>1. n = Len(stack) /\ n >= 1 /\ e \in Rest(n)
  BY DEF Entered
<1>2. /\ Len(stack') = n + 1
      /\ \A i \in 1 .. n : stack'[i].key = stack[i].key /\ Rest(i)' \subseteq Rest(i)
      /\ \A i \in 1 .. n : Rest(i) \subseteq Rest(i)' \cup {e}
      /\ stack'[n + 1].key = e /\ Rest(n + 1)' = Steps'[e]
  BY DEF Entered
<1>3. /\ \A i \in 2 .. n : i \in 1 .. n /\ i \in 2 .. n + 1 /\ (i # 2 => i - 1 \in 2 .. n)
      /\ \A i \in 2 .. n + 1 : i \in 2 .. n \/ i = n + 1
      /\ n + 1 - 1 = n /\ (n # 1 => n \in 2 .. n) /\ (n = 1 <=> n + 1 = 2) /\ 1 \in 1 .. n /\ n \in 1 .. n
      /\ n + 1 \in 2 .. n + 1
  <2>1. n \in Nat /\ n >= 1
    BY <1>1
  <2> QED
    BY <2>1
<1>k. \A i \in 2 .. n : stack[i].key \in visited /\ stack[i].key \in Keys /\ stack[i].key # e
  BY <1>1 DEF ReachInv, Stacked, RequestType
<1>4. Stacked'
  <2>2. Len(stack') >= 1 /\ stack'[1].key = NoKey /\ Rest(1)' \subseteq Starts'
    BY <1>1, <1>2, <1>3 DEF ReachInv, Stacked
  <2>f. \A i \in 2 .. n :
          /\ stack[i].key \in visited /\ Rest(i) \subseteq Steps[stack[i].key]
          /\ stack[i].key \in (IF i = 2 THEN Starts ELSE Steps[stack[i - 1].key])
    BY <1>1 DEF ReachInv, Stacked
  <2>g. Rest(n) \subseteq (IF n = 1 THEN Starts ELSE Steps[stack[n].key])
    BY <2>f, <1>3 DEF ReachInv, Stacked
  <2>3. ASSUME NEW i \in 2 .. n
        PROVE  /\ stack'[i].key \in visited' /\ Rest(i)' \subseteq Steps'[stack'[i].key]
               /\ stack'[i].key \in (IF i = 2 THEN Starts' ELSE Steps'[stack'[i - 1].key])
    <3>1. stack'[i].key = stack[i].key /\ Rest(i)' \subseteq Rest(i)
          /\ (i # 2 => stack'[i - 1].key = stack[i - 1].key)
      BY <1>2, <1>3
    <3>2. Steps'[stack[i].key] = Steps[stack[i].key] /\ (i # 2 => Steps'[stack[i - 1].key] = Steps[stack[i - 1].key])
      BY <1>3, <1>k
    <3> QED
      BY <2>f, <3>1, <3>2
  <2>4. e \in (IF n + 1 = 2 THEN Starts' ELSE Steps'[stack'[n].key])
    <3>1. n # 1 => stack'[n].key = stack[n].key /\ Steps'[stack[n].key] = Steps[stack[n].key]
      BY <1>2, <1>3, <1>k
    <3>2. n = 1 <=> n + 1 = 2
      BY <1>3
    <3> QED
      BY <2>g, <1>1, <3>1, <3>2
  <2>5. \A i \in 2 .. Len(stack') :
         /\ stack'[i].key \in visited' /\ Rest(i)' \subseteq Steps'[stack'[i].key]
         /\ stack'[i].key \in (IF i = 2 THEN Starts' ELSE Steps'[stack'[i - 1].key])
    <3>1. \A i \in 2 .. n + 1 : i \in 2 .. n \/ i = n + 1
      BY <1>3
    <3>2. stack'[n + 1].key \in visited' /\ Rest(n + 1)' \subseteq Steps'[stack'[n + 1].key]
      BY <1>2
    <3>3. stack'[n + 1].key \in (IF n + 1 = 2 THEN Starts' ELSE Steps'[stack'[n + 1 - 1].key])
      BY <1>2, <1>3, <2>4
    <3> QED
      BY <1>2, <3>1, <3>2, <3>3, <2>3
  <2>6. \A i, j \in 2 .. Len(stack') : stack'[i].key = stack'[j].key => i = j
    <3>1. \A i, j \in 2 .. n : stack[i].key = stack[j].key => i = j
      BY <1>1 DEF ReachInv, Stacked
    <3>2. \A i \in 2 .. n : stack'[i].key = stack[i].key
      BY <1>2, <1>3
    <3>3. \A i \in 2 .. n + 1 : i \in 2 .. n \/ i = n + 1
      BY <1>3
    <3> QED
      BY <3>1, <3>2, <3>3, <1>2, <1>k
  <2> QED
    BY <2>2, <2>5, <2>6 DEF Stacked
<1>5. NonePassed'
  <2>2. \A d \in Starts' : d \in visited' \cup Rest(1)'
    BY <1>3, <1>2 DEF ReachInv, NonePassed
  <2>3. ASSUME NEW k \in visited, NEW d \in Steps'[k] PROVE d \in visited' \/ Ahead(k, d)'
    <3>1. k \in Keys /\ (d \in visited \/ Ahead(k, d))
      BY DEF ReachInv, NonePassed, RequestType
    <3> QED
      BY <3>1, <1>1, <1>2, <1>3 DEF Ahead
  <2>4. ASSUME NEW d \in Steps'[e] PROVE Ahead(e, d)'
    BY <1>2, <1>3 DEF Ahead
  <2> QED
    BY <2>2, <2>3, <2>4 DEF NonePassed
<1>6. Minimal'
  <2> SUFFICES ASSUME NEW S \in SUBSET Keys, Starts' \subseteq S, \A k \in S : Steps'[k] \subseteq S
               PROVE  visited' \subseteq S
    BY DEF Minimal
  <2>1. \A k \in S : Steps[k] \subseteq S
    BY <1>1
  <2>2. visited \subseteq S
    BY <2>1 DEF ReachInv, Minimal
  <2>3. e \in S
    BY <2>1, <2>2, <1>1, <1>3, <1>k DEF ReachInv, Stacked
  <2> QED
    BY <2>2, <2>3
<1> QED
  BY <1>4, <1>5, <1>6 DEF ReachInv

\* A call that returns.
Returned(n) ==
    /\ n \in Nat /\ n > 1 /\ Len(stack) = n /\ Len(stack') = n - 1 /\ stack' \in Seq(Frames)
    /\ \A i \in 1 .. n - 1 : stack'[i] = stack[i] /\ Rest(i)' = Rest(i)
    /\ Rest(n) = {}
LEMMA PopFacts ==
    ASSUME stack \in Seq(Frames), Len(stack) > 1, Top.rest = <<>>, stack' = Popped
    PROVE  Returned(Len(stack))
<1>1. /\ stack' \in Seq(Frames) /\ Len(stack') = Len(stack) - 1 /\ Len(stack) \in Nat
      /\ \A i \in 1 .. Len(stack) - 1 : stack'[i] = stack[i]
  BY DEF Popped
<1>2. \A i \in 1 .. Len(stack) - 1 : Rest(i)' = Rest(i)
  BY <1>1 DEF Rest
<1>3. Rest(Len(stack)) = {}
  BY EmptyRange DEF Rest, Top
<1> QED
  BY <1>1, <1>2, <1>3 DEF Returned

LEMMA PopReach ==
    ASSUME RequestType, ReachInv, NEW n \in Nat, Returned(n), visited' = visited,
           Starts' = Starts, Steps' = Steps
    PROVE  ReachInv'
<1>1. n \in Nat /\ n > 1 /\ n = Len(stack)
  BY DEF Returned
<1>2. /\ Len(stack') = n - 1
      /\ \A i \in 1 .. n - 1 : stack'[i] = stack[i] /\ Rest(i)' = Rest(i)
  BY DEF Returned
<1>3. Rest(n) = {}
  BY DEF Returned
<1>4. /\ \A i \in 2 .. n - 1 : i \in 2 .. n /\ i \in 1 .. n - 1 /\ (i # 2 => i - 1 \in 2 .. n - 1)
      /\ \A i \in 2 .. n : i \in 2 .. n - 1 \/ i = n
      /\ 1 \in 1 .. n - 1 /\ n - 1 >= 1
  BY <1>1
<1>k. \A i \in 2 .. n : stack[i].key \in Keys
  BY <1>1 DEF ReachInv, Stacked, RequestType
<1>5. Stacked'
  <2>2. Len(stack') >= 1 /\ stack'[1].key = NoKey /\ Rest(1)' \subseteq Starts'
    BY <1>2, <1>4 DEF ReachInv, Stacked
  <2>3. ASSUME NEW i \in 2 .. n - 1
        PROVE  /\ stack'[i].key \in visited' /\ Rest(i)' \subseteq Steps'[stack'[i].key]
               /\ stack'[i].key \in (IF i = 2 THEN Starts' ELSE Steps'[stack'[i - 1].key])
    BY <1>1, <1>2, <1>4, <1>k DEF ReachInv, Stacked
  <2>4. \A i, j \in 2 .. n - 1 : stack'[i].key = stack'[j].key => i = j
    BY <1>1, <1>2, <1>4 DEF ReachInv, Stacked
  <2> QED
    BY <2>2, <2>3, <2>4, <1>2 DEF Stacked
<1>6. NonePassed'
  <2>2. \A d \in Starts' : d \in visited' \cup Rest(1)'
    BY <1>4, <1>2 DEF ReachInv, NonePassed
  <2>3. ASSUME NEW k \in visited', NEW d \in Steps'[k] PROVE d \in visited' \/ Ahead(k, d)'
    <3>1. k \in Keys /\ (d \in visited \/ Ahead(k, d))
      BY DEF ReachInv, NonePassed, RequestType
    <3> QED
      BY <3>1, <1>1, <1>2, <1>3, <1>4 DEF Ahead
  <2> QED
    BY <2>2, <2>3 DEF NonePassed
<1>7. Minimal'
  BY DEF ReachInv, Minimal
<1> QED
  BY <1>5, <1>6, <1>7 DEF ReachInv

-----------------------------------------------------------------------------
LEMMA SkipSettled ==
    ASSUME RequestType, ReachInv, Settled, Top.rest # <<>>, Dep \in Done, stack' = Advanced,
           visited' = visited, recStack' = recStack, edges' = edges
    PROVE  Settled'
<1> PICK n \in Nat : n = Len(stack)
  BY DEF RequestType
<1> PICK e \in Keys : e = Dep
  BY AdvancedFacts DEF RequestType, ReachInv, Stacked
<1>1. stack # <<>> /\ n >= 1
  BY DEF ReachInv, Stacked, RequestType
<1>2. /\ Len(stack') = n
      /\ \A i \in 1 .. n : stack'[i].key = stack[i].key
      /\ \A i \in 1 .. n : Rest(i) \subseteq Rest(i)' \cup {e}
  BY <1>1, AdvancedFacts DEF Rest, RequestType
<1>3. /\ \A i \in 2 .. n : i \in 1 .. n
      /\ \A i \in 2 .. n : i < n => i + 1 \in 1 .. n
  OBVIOUS
<1>4. Done' = Done
  BY DEF Done
<1>5. /\ \A i \in 2 .. n : stack'[i].key \in recStack'
      /\ \A k \in recStack' : \E i \in 2 .. n : stack'[i].key = k
  BY <1>2, <1>3 DEF Settled
<1>6. ASSUME NEW i \in 2 .. n, NEW d \in Range(edges[stack[i].key])
      PROVE  d \in Done \/ d \in Rest(i)' \/ (i < n /\ d = stack'[i + 1].key)
  BY <1>2, <1>3 DEF Settled
<1>7. \A i \in 2 .. n : \A d \in Range(edges'[stack'[i].key]) :
         d \in Done' \/ d \in Rest(i)' \/ (i < n /\ d = stack'[i + 1].key)
  BY <1>2, <1>3, <1>4, <1>6
<1> QED
  BY <1>2, <1>4, <1>5, <1>7 DEF Settled

LEMMA EnterSettled ==
    ASSUME RequestType, ReachInv, Settled, NEW e \in Keys, e \notin visited,
           NEW n \in Nat, Entered(e, edges[e], n), recStack \subseteq visited,
           visited' = visited \cup {e}, recStack' = recStack \cup {e}, edges' = edges
    PROVE  Settled'
<1>1. n = Len(stack) /\ n >= 1
  BY DEF Entered
<1>2. /\ Len(stack') = n + 1
      /\ \A i \in 1 .. n : stack'[i].key = stack[i].key /\ Rest(i) \subseteq Rest(i)' \cup {e}
      /\ \A i \in 1 .. n - 1 : Rest(i)' = Rest(i)
      /\ stack'[n + 1].key = e /\ Rest(n + 1)' = Range(edges[e])
  BY DEF Entered
<1>3. /\ \A i \in 2 .. n : i \in 1 .. n /\ i \in 2 .. n + 1 /\ (i < n => i + 1 \in 1 .. n /\ i \in 1 .. n - 1)
      /\ \A i \in 2 .. n : i < n \/ i = n
      /\ \A i \in 2 .. n + 1 : i \in 2 .. n \/ i = n + 1
      /\ n + 1 \in 2 .. n + 1
  BY <1>1
<1>4. Done' = Done
  BY DEF Done
<1>5. /\ \A i \in 2 .. n + 1 : stack'[i].key \in recStack'
      /\ \A k \in recStack' : \E i \in 2 .. n + 1 : stack'[i].key = k
  <2>1. \A i \in 2 .. n : stack[i].key \in recStack
    BY <1>1 DEF Settled
  <2>2. \A k \in recStack : \E i \in 2 .. n : stack[i].key = k
    BY <1>1 DEF Settled
  <2>3. \A i \in 2 .. n : stack'[i].key = stack[i].key /\ i \in 2 .. n + 1
    BY <1>2, <1>3
  <2>4. \A i \in 2 .. n + 1 : stack'[i].key \in recStack'
    BY <2>1, <2>3, <1>2, <1>3
  <2>5. ASSUME NEW k \in recStack' PROVE \E i \in 2 .. n + 1 : stack'[i].key = k
    <3>1. CASE k = e
      BY <3>1, <1>2, <1>3
    <3>2. CASE k \in recStack
      BY <3>2, <2>2, <2>3
    <3> QED
      BY <3>1, <3>2
  <2> QED
    BY <2>4, <2>5
<1>6. ASSUME NEW i \in 2 .. n, NEW d \in Range(edges[stack[i].key])
      PROVE  d \in Done \/ d \in Rest(i)' \/ d = stack'[i + 1].key
  <2>1. d \in Done \/ d \in Rest(i) \/ (i < n /\ d = stack[i + 1].key)
    BY <1>1 DEF Settled
  <2>2. CASE i < n
    <3>1. Rest(i)' = Rest(i) /\ stack'[i + 1].key = stack[i + 1].key
      BY <2>2, <1>2, <1>3
    <3> QED
      BY <2>1, <3>1
  <2>3. CASE i = n
    <3>1. d \in Rest(i) => d \in Rest(i)' \/ d = e
      BY <1>2, <1>3
    <3>2. stack'[i + 1].key = e
      BY <2>3, <1>2
    <3> QED
      BY <2>1, <2>3, <3>1, <3>2
  <2> QED
    BY <2>2, <2>3, <1>3
<1>7. ASSUME NEW i \in 2 .. n + 1, NEW d \in Range(edges'[stack'[i].key])
      PROVE  d \in Done' \/ d \in Rest(i)' \/ (i < n + 1 /\ d = stack'[i + 1].key)
  <2>1. CASE i \in 2 .. n
    <3>1. i \in 1 .. n /\ i < n + 1
      BY <2>1
    <3>2. stack'[i].key = stack[i].key
      BY <3>1, <1>2
    <3>3. d \in Range(edges[stack[i].key])
      BY <3>2
    <3> QED
      BY <2>1, <3>1, <3>3, <1>4, <1>6
  <2>2. CASE i = n + 1
    BY <2>2, <1>2
  <2> QED
    BY <2>1, <2>2, <1>3
<1>8. \A S \in SUBSET Done' : S # {} => \E k \in S : Range(edges'[k]) \cap S = {}
  BY <1>4 DEF Settled
<1>9. \A k \in Done' : Range(edges'[k]) \subseteq Done'
  BY <1>4 DEF Settled
<1> QED
  BY <1>2, <1>5, <1>7, <1>8, <1>9 DEF Settled

LEMMA PopSettled ==
    ASSUME RequestType, ReachInv, Settled, recStack \subseteq visited, NEW n \in Nat, Returned(n),
           NEW k \in Keys, k = stack[n].key,
           visited' = visited, recStack' = recStack \ {k}, edges' = edges
    PROVE  /\ Settled' /\ k \notin Done /\ Done' = Done \cup {k}
           /\ Range(edges[k]) \subseteq Done
<1>1. n = Len(stack) /\ n > 1
  BY DEF Returned
<1>2. /\ Len(stack') = n - 1 /\ Rest(n) = {}
      /\ \A i \in 1 .. n - 1 : stack'[i] = stack[i] /\ Rest(i)' = Rest(i)
  BY DEF Returned
<1>3. /\ \A i \in 2 .. n - 1 : i \in 1 .. n - 1 /\ i \in 2 .. n /\ i # n /\ i < n
      /\ \A i \in 2 .. n - 1 : i + 1 = n \/ (i < n - 1 /\ i + 1 \in 1 .. n - 1)
      /\ \A i \in 2 .. n : i = n \/ i \in 2 .. n - 1
      /\ n \in 2 .. n
  BY <1>1
<1>4. k \in recStack /\ k \in visited
  BY <1>1, <1>3 DEF Settled
<1>5. k \notin Done /\ Done' = Done \cup {k}
  BY <1>4 DEF Done
<1>6. ASSUME NEW d \in Range(edges[k]) PROVE d \in Done
  <2>1. d \in Done \/ d \in Rest(n) \/ n < n
    BY <1>1, <1>3 DEF Settled
  <2> QED
    BY <2>1, <1>2
<1>7. \A i \in 2 .. n - 1 : stack'[i].key \in recStack'
  <2> TAKE i \in 2 .. n - 1
  <2>1. stack[i].key \in recStack /\ stack[i].key # k
    BY <1>1, <1>3 DEF Settled, ReachInv, Stacked
  <2> QED
    BY <2>1, <1>2, <1>3
<1>8. \A x \in recStack' : \E i \in 2 .. n - 1 : stack'[i].key = x
  <2> TAKE x \in recStack'
  <2>1. PICK i \in 2 .. n : stack[i].key = x
    BY <1>1 DEF Settled
  <2> QED
    BY <2>1, <1>2, <1>3
<1>9. \A i \in 2 .. n - 1 : \A d \in Range(edges'[stack'[i].key]) :
         d \in Done' \/ d \in Rest(i)' \/ (i < n - 1 /\ d = stack'[i + 1].key)
  <2> TAKE i \in 2 .. n - 1
  <2> TAKE d \in Range(edges'[stack'[i].key])
  <2>1. stack'[i] = stack[i] /\ Rest(i)' = Rest(i) /\ i \in 2 .. n
    BY <1>2, <1>3
  <2>2. d \in Done \/ d \in Rest(i) \/ d = stack[i + 1].key
    BY <2>1, <1>1 DEF Settled
  <2>3. i + 1 = n \/ (i < n - 1 /\ stack'[i + 1] = stack[i + 1])
    BY <1>2, <1>3
  <2> QED
    BY <2>1, <2>2, <2>3, <1>5
<1>10. ASSUME NEW S \in SUBSET Done', S # {} PROVE \E x \in S : Range(edges'[x]) \cap S = {}
  <2>1. CASE S = {k}
    BY <2>1, <1>5, <1>6
  <2>2. CASE S # {k}
    <3>1. S \ {k} \subseteq Done /\ S \ {k} # {}
      BY <2>2, <1>5, <1>10
    <3>2. PICK x \in S \ {k} : Range(edges[x]) \cap (S \ {k}) = {}
      BY <3>1 DEF Settled
    <3>3. Range(edges[x]) \subseteq Done
      BY <3>1 DEF Settled
    <3> QED
      BY <3>2, <3>3, <1>5
  <2> QED
    BY <2>1, <2>2
<1>11. \A x \in Done' : Range(edges'[x]) \subseteq Done'
  BY <1>5, <1>6 DEF Settled
<1>12. Settled'
  BY <1>2, <1>7, <1>8, <1>9, <1>10, <1>11 DEF Settled
<1> QED
  BY <1>5, <1>6, <1>12

LEMMA PopSorted ==
    ASSUME RequestType, Sorted, NEW k \in Keys, k \notin Done, Done' = Done \cup {k},
           Range(edges[k]) \subseteq Done, result' = Append(result, k), edges' = edges
    PROVE  Sorted'
<1> PICK m \in Nat : m = Len(result) /\ DOMAIN result = 1 .. m
  BY DEF RequestType
<1>1. /\ DOMAIN result' = 1 .. m + 1 /\ result'[m + 1] = k
      /\ \A i \in 1 .. m : result'[i] = result[i]
  BY DEF RequestType
<1>2. /\ \A i \in 1 .. m : i \in 1 .. m + 1
      /\ \A i \in 1 .. m + 1 : i \in 1 .. m \/ i = m + 1
      /\ m + 1 \in 1 .. m + 1
  OBVIOUS
<1>3. \A i \in 1 .. m : result[i] \in Done
  BY DEF Sorted, Range
<1>4. Range(result') = Done'
  <2>1. \A x \in Done : \E i \in 1 .. m : result[i] = x
    BY DEF Sorted, Range
  <2>2. \A x \in Done' : \E i \in 1 .. m + 1 : result'[i] = x
    BY <2>1, <1>1, <1>2
  <2>3. \A i \in 1 .. m + 1 : result'[i] \in Done'
    BY <1>1, <1>2, <1>3
  <2> QED
    BY <2>2, <2>3, <1>1 DEF Range
<1>5. ASSUME NEW i \in 1 .. m + 1, NEW j \in 1 .. m + 1, result'[i] = result'[j] PROVE i = j
  BY <1>1, <1>2, <1>3, <1>5 DEF Sorted
<1>6. ASSUME NEW i \in 1 .. m + 1, NEW d \in Range(edges'[result'[i]])
      PROVE  \E j \in 1 .. i - 1 : d = result'[j]
  <2>1. CASE i \in 1 .. m
    <3>1. PICK j \in 1 .. i - 1 : d = result[j]
      BY <2>1, <1>1 DEF Sorted
    <3>2. j \in 1 .. m
      BY <2>1
    <3> QED
      BY <3>1, <3>2, <1>1
  <2>2. CASE i = m + 1
    <3>1. d \in Done
      BY <2>2, <1>1
    <3>2. PICK j \in 1 .. m : d = result[j]
      BY <3>1 DEF Sorted, Range
    <3>3. j \in 1 .. i - 1
      BY <2>2
    <3> QED
      BY <3>2, <3>3, <1>1
  <2> QED
    BY <2>1, <2>2, <1>2
<1>7. DOMAIN result' = 1 .. m + 1
  BY <1>1
<1>8. \A i, j \in DOMAIN result' : result'[i] = result'[j] => i = j
  BY <1>5, <1>7
<1>9. \A i \in DOMAIN result' : \A d \in Range(edges'[result'[i]]) : \E j \in 1 .. i - 1 : d = result'[j]
  BY <1>6, <1>7
<1> QED
  BY <1>4, <1>8, <1>9, Zenon DEF Sorted

LEMMA AppendedRange ==
    ASSUME NEW s \in Seq(Keys), NEW e \in Keys
    PROVE  Range(Append(s, e)) = Range(s) \cup {e}
<1> PICK m \in Nat : m = Len(s) /\ DOMAIN s = 1 .. m
  OBVIOUS
<1>1. /\ DOMAIN Append(s, e) = 1 .. m + 1 /\ Append(s, e)[m + 1] = e
      /\ \A i \in 1 .. m : Append(s, e)[i] = s[i]
  OBVIOUS
<1>2. /\ \A i \in 1 .. m : i \in 1 .. m + 1
      /\ \A i \in 1 .. m + 1 : i \in 1 .. m \/ i = m + 1
      /\ m + 1 \in 1 .. m + 1
  OBVIOUS
<1> QED
  BY <1>1, <1>2 DEF Range

\* A dependency that is appended and then skipped or entered.
LEMMA OnListed ==
    ASSUME RequestType, ReachInv, Listed, NEW e \in Keys, NEW n \in Nat, n = Len(stack),
           Len(stack') \in Nat, n <= Len(stack'), e \in Rest(n),
           \A i \in 1 .. n : stack'[i].key = stack[i].key /\ Rest(i) \subseteq Rest(i)' \cup {e},
           \A i \in 1 .. n - 1 : Rest(i)' = Rest(i),
           result' = IF stack[n].key = NoKey THEN result ELSE Append(result, e),
           Steps' = Steps, visited \subseteq visited',
           \A k \in visited' \ visited : \A d \in Steps[k] : Ahead(k, d)'
    PROVE  Listed'
<1>1. n >= 1 /\ stack[1].key = NoKey
  BY DEF ReachInv, Stacked
<1>2. \A i \in 2 .. n : stack[i].key \in visited /\ stack[i].key \in Keys /\ Rest(i) \subseteq Steps[stack[i].key]
  BY DEF ReachInv, Stacked, RequestType
<1>3. /\ n # 1 => n \in 2 .. n
      /\ \A i \in 2 .. n : i \in 1 .. n /\ i \in 2 .. Len(stack') /\ (i = n \/ i \in 1 .. n - 1)
  BY <1>1
<1>4. IF n = 1 THEN result' = result ELSE Range(result') = Range(result) \cup {e}
  <2>1. n # 1 => stack[n].key # NoKey
    BY <1>2, <1>3, ResolverAssumption
  <2> QED
    BY <2>1, <1>1, AppendedRange DEF RequestType
<1>5. ASSUME NEW d \in Range(result') PROVE \E k \in visited' : d \in Steps'[k]
  <2>1. CASE d \in Range(result)
    BY <2>1 DEF Listed
  <2>2. CASE n # 1 /\ d = e
    BY <2>2, <1>2, <1>3
  <2> QED
    BY <2>1, <2>2, <1>4
<1>6. ASSUME NEW k \in visited', NEW d \in Steps'[k] PROVE d \in Range(result') \/ Ahead(k, d)'
  <2>1. CASE k \in visited /\ d \in Range(result)
    BY <2>1, <1>4
  <2>2. CASE k \in visited /\ Ahead(k, d)
    <3>1. PICK i \in 2 .. n : stack[i].key = k /\ d \in Rest(i)
      BY <2>2 DEF Ahead
    <3>2. stack'[i].key = k /\ i \in 2 .. Len(stack') /\ (d \in Rest(i)' \/ (i = n /\ d = e))
      BY <3>1, <1>3
    <3>3. i = n => n # 1
      BY <3>1
    <3> QED
      BY <3>2, <3>3, <1>4 DEF Ahead
  <2>3. CASE k \notin visited
    BY <2>3
  <2> QED
    BY <2>1, <2>2, <2>3 DEF Listed
<1> QED
  BY <1>5, <1>6 DEF Listed

LEMMA PopListed ==
    ASSUME RequestType, ReachInv, Listed, NEW n \in Nat, Returned(n),
           result' = result, Steps' = Steps, visited' = visited
    PROVE  Listed'
<1>1. /\ Len(stack) = n /\ Len(stack') = n - 1 /\ n > 1 /\ Rest(n) = {}
      /\ \A i \in 1 .. n - 1 : stack'[i] = stack[i] /\ Rest(i)' = Rest(i)
  BY DEF Returned
<1>2. \A i \in 2 .. n : i = n \/ (i \in 1 .. n - 1 /\ i \in 2 .. n - 1)
  BY <1>1
<1>3. ASSUME NEW k \in visited, NEW d \in Steps[k] PROVE d \in Range(result) \/ Ahead(k, d)'
  <2>1. d \in Range(result) \/ Ahead(k, d)
    BY DEF Listed
  <2> QED
    BY <2>1, <1>1, <1>2 DEF Ahead
<1> QED
  BY <1>3 DEF Listed

LEMMA OrderFacts ==
    ASSUME NEW S \in SUBSET Keys, NEW list \in Orders(S)
    PROVE  list \in Seq(Keys) /\ Range(list) = S
<1>1. IsFiniteSet(S) /\ Cardinality(S) \in Nat
  BY ResolverAssumption, FS_Subset, FS_CardinalityType
<1>2. list \in [1 .. Cardinality(S) -> S] /\ Range(list) = S
  BY DEF Orders
<1> QED
  BY <1>1, <1>2

-----------------------------------------------------------------------------
(* The inductive invariant.                                                *)
Sorts == op \in {"getLockfile", "getDependencyGraph"}
ResolverIInv ==
    /\ RequestType
    /\ \A k \in Keys :
         /\ k \notin nodes => edges[k] = <<>>
         /\ k \in nodes => edges[k] \in past[k]
         /\ reads[k] <= 1
         /\ phase # "idle" => source[k] \in past[k]
         /\ phase = "build" /\ k \notin visited => reads[k] = 0
    /\ phase \in {"idle", "build"} => visited = nodes /\ recStack = {} /\ result = <<>>
    /\ phase = "idle" => nodes = {} /\ \A k \in Keys : reads[k] = 0
    /\ phase \in {"build", "walk"} => ReachInv
    /\ phase = "walk" =>
        /\ GraphComplete /\ recStack \subseteq visited
        /\ (Sorts => Settled) /\ (op = "getLockfile" => Sorted) /\ (~Sorts => Listed)
    /\ GraphFaithful /\ CycleExact /\ LockfileOrdered /\ ReachComplete

LEMMA StartReach ==
    ASSUME NEW list \in Seq(Keys), stack' = <<Frame(NoKey, list)>>, visited' = {}, Range(list) = Starts'
    PROVE  /\ ReachInv' /\ stack' \in Seq(Frames) /\ Len(stack') = 1
<1>1. Frame(NoKey, list) \in Frames /\ Frame(NoKey, list).key = NoKey /\ Frame(NoKey, list).rest = list
  BY DEF Frame, Frames
<1>2. stack' \in Seq(Frames) /\ Len(stack') = 1 /\ stack'[1] = Frame(NoKey, list)
  BY <1>1
<1>3. Rest(1)' = Starts'
  BY <1>1, <1>2 DEF Rest
<1>4. Stacked'
  BY <1>1, <1>2, <1>3 DEF Stacked
<1>5. NonePassed' /\ Minimal'
  BY <1>3 DEF NonePassed, Minimal
<1> QED
  BY <1>2, <1>4, <1>5 DEF ReachInv

LEMMA PushKeeps ==
    ASSUME ResolverIInv, NEW k \in Keys, PushVersion(k)
    PROVE  ResolverIInv'
<1> USE DEF PushVersion, graphVars
<1>1. PICK list \in DepLists \cup {Unreadable} :
         source' = [source EXCEPT ![k] = list] /\ past' = [past EXCEPT ![k] = @ \cup {list}]
  OBVIOUS
<1>2. RequestType'
  BY <1>1 DEF ResolverIInv, RequestType
<1>3. \A j \in Keys : past[j] \subseteq past'[j] /\ (source'[j] = source[j] \/ source'[j] \in past'[j])
  BY <1>1 DEF ResolverIInv, RequestType
<1>4. \A j \in Keys :
         /\ j \notin nodes' => edges'[j] = <<>>
         /\ j \in nodes' => edges'[j] \in past'[j]
         /\ reads'[j] <= 1
         /\ phase' # "idle" => source'[j] \in past'[j]
         /\ phase' = "build" /\ j \notin visited' => reads'[j] = 0
  BY <1>3 DEF ResolverIInv
<1>5. GraphFaithful'
  <2>1. \A j \in Keys : reads'[j] <= 1 /\ (j \in nodes' => edges'[j] \in past'[j])
    BY <1>4
  <2>2. reply' \in {"ok", "cycle"} => GraphComplete'
    BY DEF ResolverIInv, GraphFaithful, GraphComplete
  <2>3. reply' = "unreadable" =>
          \E d \in Keys \ nodes' :
             Unreadable \in past'[d] /\ (d = root' \/ \E j \in nodes' : d \in Range(edges'[j]))
    BY <1>3 DEF ResolverIInv, GraphFaithful
  <2> QED
    BY <2>1, <2>2, <2>3 DEF GraphFaithful
<1>6. CycleExact' /\ LockfileOrdered' /\ ReachComplete'
  <2>1. CycleExact /\ LockfileOrdered /\ ReachComplete
    BY DEF ResolverIInv
  <2>2. CycleExact' <=> CycleExact
    <3>1. (Acyclic' <=> Acyclic) /\ path' = path
      BY DEF Acyclic, path
    <3> QED
      BY <3>1 DEF CycleExact
  <2>3. LockfileOrdered' <=> LockfileOrdered
    BY DEF LockfileOrdered
  <2>4. ReachComplete' <=> ReachComplete
    BY DEF ReachComplete, Seeds, Successors, GetDependents
  <2> QED
    BY <2>1, <2>2, <2>3, <2>4
<1>7. (ReachInv' <=> ReachInv) /\ (Settled' <=> Settled) /\ (Sorted' <=> Sorted)
  BY DEF ReachInv, Stacked, NonePassed, Minimal, Ahead, Rest, Starts, Steps, Impacting, GetDependents,
         Settled, Done, Sorted
<1>8. (Listed' <=> Listed) /\ (GraphComplete' <=> GraphComplete) /\ (Sorts' <=> Sorts)
  BY DEF Listed, Ahead, Rest, Steps, Impacting, GetDependents, GraphComplete, Sorts
<1>9. \A j \in Keys : reads'[j] = reads[j]
  OBVIOUS
<1> QED
  BY <1>2, <1>4, <1>5, <1>6, <1>7, <1>8, <1>9 DEF ResolverIInv

LEMMA Unanswered ==
    ASSUME reply' \notin {"ok", "cycle"} PROVE CycleExact' /\ LockfileOrdered' /\ ReachComplete'
BY DEF CycleExact, LockfileOrdered, ReachComplete

LEMMA HandleKeeps ==
    ASSUME ResolverIInv, HandleRequest PROVE ResolverIInv'
<1> USE DEF HandleRequest, graphVars
<1>1. /\ root \in Keys /\ <<root>> \in Seq(Keys) /\ Range(<<root>>) = {root}
      /\ nodes = {} /\ visited = {} /\ recStack = {} /\ result = <<>>
      /\ reply = "none" /\ \A k \in Keys : reads[k] = 0
  BY DEF ResolverIInv, RequestType, Range
<1>2. Starts' = {root} /\ visited' = {}
  BY <1>1 DEF Starts, Impacting
<1>3. ReachInv' /\ stack' \in Seq(Frames) /\ Len(stack') = 1
  BY <1>1, <1>2, StartReach
<1>4. RequestType'
  BY <1>3, <1>1 DEF ResolverIInv, RequestType
<1>5. \A k \in Keys : edges'[k] = <<>> /\ reads'[k] = 0 /\ source'[k] \in past'[k]
  BY <1>1 DEF ResolverIInv
<1>6. GraphFaithful'
  BY <1>1, <1>5 DEF GraphFaithful
<1> QED
  BY <1>1, <1>3, <1>4, <1>5, <1>6, Unanswered DEF ResolverIInv

\* The dependency that a loop comes to is one of its version.
LEMMA LoopFacts ==
    ASSUME ResolverIInv, phase \in {"build", "walk"}, Top.rest # <<>>
    PROVE  \E n \in Nat, e \in Keys :
             /\ n = Len(stack) /\ n >= 1 /\ stack # <<>> /\ e = Dep /\ e \in Rest(n)
             /\ n = 1 => e \in Starts
             /\ n # 1 => n \in 2 .. n /\ stack[n].key \in visited /\ e \in Steps[stack[n].key]
<1> PICK n \in Nat : n = Len(stack)
  BY DEF ResolverIInv, RequestType
<1>1. stack \in Seq(Frames) /\ n >= 1 /\ stack # <<>>
  BY DEF ResolverIInv, RequestType, ReachInv, Stacked
<1> PICK e \in Keys : e = Dep
  BY <1>1, AdvancedFacts
<1>2. e \in Rest(n)
  BY <1>1, AdvancedFacts
<1>3. n # 1 => n \in 2 .. n
  BY <1>1
<1>4. /\ n = 1 => e \in Starts
      /\ n # 1 => stack[n].key \in visited /\ e \in Steps[stack[n].key]
  BY <1>2, <1>3 DEF ResolverIInv, ReachInv, Stacked
<1> QED
  BY <1>1, <1>2, <1>3, <1>4

LEMMA BuildCallKeeps ==
    ASSUME ResolverIInv, BuildCall PROVE ResolverIInv'
<1>1. phase = "build" /\ Top.rest # <<>> /\ visited = nodes /\ recStack = {} /\ result = <<>>
      /\ reply = "none"
  BY DEF ResolverIInv, RequestType, BuildCall, Calling
<1> PICK n \in Nat, e \in Keys :
             /\ n = Len(stack) /\ n >= 1 /\ stack # <<>> /\ e = Dep /\ e \in Rest(n)
             /\ n = 1 => e \in Starts
             /\ n # 1 => n \in 2 .. n /\ stack[n].key \in visited /\ e \in Steps[stack[n].key]
  BY <1>1, LoopFacts
<1>2. /\ UNCHANGED <<source, pushes, past, op, root, recStack, result>>
      /\ Advanced \in Seq(Frames) /\ RequestType /\ ReachInv
  BY <1>1, AdvancedFacts DEF ResolverIInv, RequestType, BuildCall, storage
<1>3. \A k \in Keys : Steps[k] = Range(edges[k])
  BY <1>1 DEF Steps, Impacting
<1>4. CASE e \in visited
  <2>1. /\ stack' = Advanced
        /\ UNCHANGED <<phase, reply, visited, nodes, edges, reads>>
    BY <1>4 DEF BuildCall, NotBuilt, graphVars
  <2>2. Starts' = Starts /\ Steps' = Steps
    BY <2>1, <1>2 DEF Starts, Steps, Impacting, GetDependents
  <2>3. ReachInv'
    BY <1>1, <1>2, <1>4, <2>1, <2>2, SkipReach
  <2>4. RequestType'
    BY <1>2, <2>1 DEF RequestType
  <2>5. GraphFaithful'
    BY <1>1, <1>2, <2>1 DEF ResolverIInv, GraphFaithful
  <2> QED
    BY <1>1, <1>2, <2>1, <2>3, <2>4, <2>5, Unanswered DEF ResolverIInv
<1>5. CASE e \notin visited
  <2>1. /\ visited' = visited \cup {e} /\ reads' = [reads EXCEPT ![e] = @ + 1]
        /\ IF source[e] = Unreadable
           THEN Ends("unreadable") /\ stack' = Advanced /\ UNCHANGED <<nodes, edges>>
           ELSE /\ nodes' = nodes \cup {e} /\ edges' = [edges EXCEPT ![e] = source[e]]
                /\ stack' = Append(Advanced, Frame(e, source[e]))
                /\ UNCHANGED <<phase, reply>>
    BY <1>5 DEF BuildCall, NotBuilt
  <2>2. reads[e] = 0 /\ source[e] \in past[e] /\ edges[e] = <<>>
    BY <1>1, <1>5 DEF ResolverIInv
  <2>3. reads' \in [Keys -> Nat] /\ \A k \in Keys : reads'[k] <= 1 /\ (k # e => reads'[k] = reads[k])
    BY <2>1, <2>2 DEF ResolverIInv, RequestType
  <2>4. CASE source[e] = Unreadable
    <3>1. /\ phase' = "answered" /\ reply' = "unreadable" /\ stack' = Advanced
          /\ UNCHANGED <<nodes, edges>>
      BY <2>1, <2>4 DEF Ends
    <3>2. RequestType'
      BY <1>2, <2>1, <2>3, <3>1 DEF RequestType
    <3>3. e = root \/ \E k \in nodes : e \in Range(edges[k])
      <4>1. n = 1 => e = root
        BY <1>1 DEF Starts, Impacting
      <4>2. n # 1 => stack[n].key \in nodes /\ e \in Range(edges[stack[n].key])
        BY <1>1, <1>3 DEF RequestType, ResolverIInv
      <4> QED
        BY <4>1, <4>2
    <3>4. GraphFaithful'
      BY <1>1, <1>2, <1>5, <2>2, <2>3, <2>4, <3>1, <3>3 DEF GraphFaithful, ResolverIInv
    <3>5. \A k \in Keys :
            /\ k \notin nodes' => edges'[k] = <<>>
            /\ k \in nodes' => edges'[k] \in past'[k]
            /\ source'[k] \in past'[k]
      BY <1>1, <1>2, <3>1 DEF ResolverIInv
    <3>6. CycleExact' /\ LockfileOrdered' /\ ReachComplete'
      BY <3>1, Unanswered
    <3> QED
      BY <2>3, <3>1, <3>2, <3>4, <3>5, <3>6 DEF ResolverIInv
  <2>5. CASE source[e] # Unreadable
    <3>1. /\ nodes' = nodes \cup {e} /\ edges' = [edges EXCEPT ![e] = source[e]]
          /\ stack' = Append(Advanced, Frame(e, source[e]))
          /\ UNCHANGED <<phase, reply>>
      BY <2>1, <2>5
    <3>2. source[e] \in Seq(Keys)
      BY <2>5, ResolverAssumption DEF ResolverIInv, RequestType
    <3>3. Entered(e, source[e], n)
      BY <3>1, <3>2, <1>1, EnterFacts DEF ResolverIInv, RequestType
    <3>4. edges' \in [Keys -> Seq(Keys)] /\ edges'[e] = source[e] /\ \A k \in Keys : k # e => edges'[k] = edges[k]
      BY <3>1, <3>2 DEF ResolverIInv, RequestType
    <3>5. /\ Starts' = Starts /\ Range(source[e]) = Steps'[e] /\ Steps[e] \subseteq Steps'[e]
          /\ \A k \in Keys : k # e => Steps'[k] = Steps[k]
      BY <1>1, <1>2, <1>3, <2>2, <3>1, <3>4, EmptyRange DEF Starts, Steps, Impacting
    <3>6. ReachInv'
      BY <1>2, <1>5, <2>1, <3>2, <3>3, <3>5, EnterReach
    <3>7. RequestType'
      <4>1. stack' \in Seq(Frames)
        BY <3>3 DEF Entered
      <4> QED
        BY <1>2, <2>1, <2>3, <3>1, <3>4, <4>1 DEF RequestType
    <3>8. \A k \in Keys : k \in nodes' => edges'[k] \in past'[k]
      BY <1>2, <2>2, <3>1, <3>4 DEF ResolverIInv
    <3>9. GraphFaithful'
      BY <1>1, <2>3, <3>1, <3>8 DEF GraphFaithful
    <3>10. \A k \in Keys :
            /\ k \notin nodes' => edges'[k] = <<>>
            /\ phase' # "idle" => source'[k] \in past'[k]
            /\ phase' = "build" /\ k \notin visited' => reads'[k] = 0
      BY <1>1, <1>2, <2>1, <2>3, <3>1, <3>4 DEF ResolverIInv
    <3>11. visited' = nodes' /\ recStack' = {} /\ result' = <<>> /\ phase' = "build" /\ reply' = "none"
      BY <1>1, <1>2, <2>1, <3>1
    <3> QED
      BY <2>3, <3>6, <3>7, <3>8, <3>9, <3>10, <3>11, Unanswered DEF ResolverIInv
  <2> QED
    BY <2>4, <2>5
<1> QED
  BY <1>4, <1>5

\* At the end of the recursion everything that is reached was gone through.
LEMMA LoopEnd ==
    ASSUME RequestType, ReachInv, Top.rest = <<>>, ~(Len(stack) > 1)
    PROVE  /\ Len(stack) = 1 /\ Starts \subseteq visited
           /\ \A k \in visited : Steps[k] \subseteq visited
           /\ \A S \in SUBSET visited :
                Starts \subseteq S /\ (\A k \in S : Steps[k] \subseteq S) => S = visited
           /\ \A k, d : ~Ahead(k, d)
<1>1. Len(stack) = 1
  <2>1. PICK n \in Nat : n = Len(stack)
    BY DEF RequestType
  <2>2. n >= 1 /\ ~(n > 1)
    BY <2>1 DEF ReachInv, Stacked
  <2> QED
    BY <2>1, <2>2
<1>2. Rest(1) = {}
  BY <1>1, EmptyRange DEF Rest, Top
<1>3. \A i \in 2 .. Len(stack) : FALSE
  BY <1>1
<1>4. \A k, d : ~Ahead(k, d)
  BY <1>3 DEF Ahead
<1>5. Starts \subseteq visited /\ \A k \in visited : Steps[k] \subseteq visited
  BY <1>2, <1>4 DEF ReachInv, NonePassed
<1>6. ASSUME NEW S \in SUBSET visited, Starts \subseteq S, \A k \in S : Steps[k] \subseteq S
      PROVE  S = visited
  <2>1. S \in SUBSET Keys
    BY DEF RequestType
  <2>2. visited \subseteq S
    BY <1>6, <2>1 DEF ReachInv, Minimal
  <2> QED
    BY <2>2
<1> QED
  BY <1>1, <1>4, <1>5, <1>6

LEMMA BuildReturnKeeps ==
    ASSUME ResolverIInv, BuildReturn PROVE ResolverIInv'
<1>1. phase = "build" /\ Top.rest = <<>> /\ visited = nodes /\ recStack = {} /\ result = <<>>
      /\ reply = "none" /\ RequestType /\ ReachInv
  BY DEF ResolverIInv, RequestType, BuildReturn, Leaving
<1>2. UNCHANGED <<source, pushes, past, op, root, reply, recStack, nodes, edges, reads, result>>
  BY DEF BuildReturn, storage, graphVars
<1>3. /\ reply' = "none"
      /\ \A k \in Keys :
            /\ k \notin nodes' => edges'[k] = <<>>
            /\ k \in nodes' => edges'[k] \in past'[k]
            /\ reads'[k] <= 1 /\ source'[k] \in past'[k]
  BY <1>1, <1>2 DEF ResolverIInv
<1>4. GraphFaithful' /\ CycleExact' /\ LockfileOrdered' /\ ReachComplete'
  BY <1>3, Unanswered DEF GraphFaithful
<1>5. \A k \in Keys : Steps[k] = Range(edges[k])
  BY <1>1 DEF Steps, Impacting
<1>6. Starts = {root}
  BY <1>1 DEF Starts, Impacting
<1>7. CASE Len(stack) > 1
  <2>1. stack' = Popped /\ UNCHANGED <<phase, visited>>
    BY <1>7 DEF BuildReturn
  <2>2. Starts' = Starts /\ Steps' = Steps
    BY <1>2, <2>1 DEF Starts, Steps, Impacting, GetDependents
  <2>3. Returned(Len(stack)) /\ Len(stack) \in Nat
    BY <1>1, <1>7, <2>1, PopFacts DEF RequestType
  <2>4. ReachInv'
    BY <1>1, <2>1, <2>2, <2>3, PopReach
  <2>5. stack' \in Seq(Frames)
    BY <2>3 DEF Returned
  <2>6. RequestType'
    BY <1>1, <1>2, <2>1, <2>5 DEF RequestType
  <2>7. \A k \in Keys : k \notin visited' => reads'[k] = 0
    BY <1>1, <1>2, <2>1 DEF ResolverIInv
  <2> QED
    BY <1>1, <1>2, <1>3, <1>4, <2>1, <2>4, <2>6, <2>7 DEF ResolverIInv
<1>8. CASE ~(Len(stack) > 1)
  <2>1. /\ Len(stack) = 1 /\ Starts \subseteq visited
        /\ \A k \in visited : Steps[k] \subseteq visited
        /\ \A S \in SUBSET visited :
              Starts \subseteq S /\ (\A k \in S : Steps[k] \subseteq S) => S = visited
    BY <1>1, <1>8, LoopEnd
  <2>2. GraphComplete
    <3>1. root \in nodes /\ nodes \subseteq Keys
      BY <1>1, <1>6, <2>1 DEF RequestType
    <3>2. \A k \in nodes : Range(edges[k]) \subseteq nodes
      BY <1>1, <1>5, <2>1, <3>1
    <3>3. ASSUME NEW S \in SUBSET nodes, root \in S, \A k \in S : Range(edges[k]) \subseteq S
          PROVE  S = nodes
      <4>1. \A k \in S : Steps[k] \subseteq S
        BY <3>1, <3>3, <1>5
      <4> QED
        BY <3>3, <4>1, <1>1, <1>6, <2>1
    <3> QED
      BY <3>1, <3>2, <3>3 DEF GraphComplete
  <2>3. PICK list \in IF op = "getImpact" THEN Orders(GetDependents(root)) ELSE {<<root>>} : StartWalk(list)
    BY <1>8 DEF BuildReturn
  <2>4. phase' = "walk" /\ visited' = {} /\ stack' = <<Frame(NoKey, list)>>
    BY <2>3 DEF StartWalk
  <2>5. list \in Seq(Keys) /\ Range(list) = Starts'
    <3>1. CASE op = "getImpact"
      <4>1. GetDependents(root) \in SUBSET Keys /\ list \in Orders(GetDependents(root))
        BY <1>1, <2>3, <3>1 DEF GetDependents, RequestType
      <4>2. Starts' = GetDependents(root)
        BY <1>2, <2>4, <3>1 DEF Starts, Impacting, GetDependents
      <4> QED
        BY <4>1, <4>2, OrderFacts
    <3>2. CASE op # "getImpact"
      <4>1. list = <<root>> /\ Starts' = {root}
        BY <1>2, <2>3, <2>4, <3>2 DEF Starts, Impacting
      <4> QED
        BY <4>1, <1>1 DEF Range, RequestType
    <3> QED
      BY <3>1, <3>2
  <2>6. ReachInv' /\ stack' \in Seq(Frames) /\ Len(stack') = 1
    BY <2>4, <2>5, StartReach
  <2>7. RequestType'
    BY <1>1, <1>2, <2>4, <2>6 DEF RequestType
  <2>8. GraphComplete'
    BY <1>2, <2>2 DEF GraphComplete
  <2>9. recStack' = {} /\ result' = <<>> /\ Done' = {} /\ Range(result') = {}
    BY <1>1, <1>2, <2>4, EmptyRange DEF Done
  <2>10. Settled'
    <3>1. \A i \in 2 .. Len(stack') : FALSE
      BY <2>6
    <3> QED
      BY <3>1, <2>9 DEF Settled
  <2>11. Sorted'
    <3>1. DOMAIN result' = {}
      BY <2>9
    <3> QED
      BY <3>1, <2>9 DEF Sorted
  <2>12. Listed'
    BY <2>4, <2>9 DEF Listed
  <2> QED
    BY <1>3, <1>4, <2>4, <2>6, <2>7, <2>8, <2>9, <2>10, <2>11, <2>12 DEF ResolverIInv
<1> QED
  BY <1>7, <1>8

\* What a walk leaves as it is.
WalkFrame ==
    /\ UNCHANGED <<source, pushes, past, op, root, nodes, edges, reads>>
    /\ phase = "walk" /\ reply = "none"
LEMMA WalkGraph ==
    ASSUME ResolverIInv, WalkFrame, reply' # "unreadable"
    PROVE  /\ GraphComplete' /\ GraphFaithful'
           /\ \A k \in Keys :
               /\ k \notin nodes' => edges'[k] = <<>>
               /\ k \in nodes' => edges'[k] \in past'[k]
               /\ reads'[k] <= 1
               /\ phase' # "idle" => source'[k] \in past'[k]
<1>1. GraphComplete
  BY DEF ResolverIInv, WalkFrame
<1>2. GraphComplete' <=> GraphComplete
  BY DEF GraphComplete, WalkFrame
<1>3. \A k \in Keys :
               /\ k \notin nodes' => edges'[k] = <<>>
               /\ k \in nodes' => edges'[k] \in past'[k]
               /\ reads'[k] <= 1
               /\ phase' # "idle" => source'[k] \in past'[k]
  BY DEF ResolverIInv, WalkFrame
<1> QED
  BY <1>1, <1>2, <1>3 DEF GraphFaithful

\* A walk that goes on.
LEMMA WalkKeeps ==
    ASSUME ResolverIInv, WalkFrame, phase' = "walk", reply' = "none", RequestType', ReachInv',
           recStack' \subseteq visited', Sorts => Settled', op = "getLockfile" => Sorted',
           ~Sorts => Listed'
    PROVE  ResolverIInv'
<1>1. (Sorts' <=> Sorts) /\ op' = op
  BY DEF Sorts, WalkFrame
<1>2. GraphComplete' /\ GraphFaithful'
      /\ \A k \in Keys :
               /\ k \notin nodes' => edges'[k] = <<>>
               /\ k \in nodes' => edges'[k] \in past'[k]
               /\ reads'[k] <= 1
               /\ phase' # "idle" => source'[k] \in past'[k]
  BY WalkGraph
<1>3. CycleExact' /\ LockfileOrdered' /\ ReachComplete'
  BY Unanswered
<1> QED
  BY <1>1, <1>2, <1>3 DEF ResolverIInv

\* A sort or a search for cycles runs on the versions of the graph.
LEMMA SortFacts ==
    ASSUME ResolverIInv, WalkFrame, Sorts
    PROVE  /\ visited \subseteq nodes /\ Starts = {root} /\ Starts' = Starts
           /\ \A k \in Keys : Steps[k] = Range(edges[k])
           /\ Steps' = Steps
<1>1. Starts = {root} /\ \A k \in Keys : Steps[k] = Range(edges[k])
  BY DEF Sorts, WalkFrame, Starts, Steps, Impacting
<1>2. Starts' = Starts /\ Steps' = Steps
  BY DEF Sorts, WalkFrame, Starts, Steps, Impacting
<1>3. nodes \in SUBSET Keys /\ root \in nodes /\ \A k \in nodes : Steps[k] \subseteq nodes
  BY <1>1 DEF ResolverIInv, RequestType, GraphComplete, WalkFrame
<1>4. visited \subseteq nodes
  BY <1>1, <1>3 DEF ResolverIInv, WalkFrame, ReachInv, Minimal
<1> QED
  BY <1>1, <1>2, <1>4

\* A call of the sort or of the search that goes on.
LEMMA SortCallKeeps ==
    ASSUME ResolverIInv, WalkFrame, Sorts, Top.rest # <<>>, result' = result,
           phase' = "walk", reply' = "none",
           \/ Dep \in Done /\ Skip /\ recStack' = recStack
           \/ Dep \notin visited /\ Enter(Dep, edges[Dep]) /\ recStack' = recStack \cup {Dep}
    PROVE  ResolverIInv'
<1>1. /\ RequestType /\ ReachInv /\ Settled /\ recStack \subseteq visited
      /\ op = "getLockfile" => Sorted
  BY DEF ResolverIInv, WalkFrame
<1>2. /\ visited \subseteq nodes /\ Starts' = Starts /\ Steps' = Steps
      /\ \A k \in Keys : Steps[k] = Range(edges[k])
  BY SortFacts
<1>3. UNCHANGED <<source, pushes, past, op, root, nodes, edges, reads, result>>
  BY DEF WalkFrame
<1> PICK n \in Nat, e \in Keys : n = Len(stack) /\ stack # <<>> /\ e = Dep
  BY LoopFacts DEF WalkFrame
<1>4. CASE e \in Done /\ Skip /\ recStack' = recStack
  <2>1. stack' = Advanced /\ visited' = visited /\ Done' = Done /\ Dep \in visited /\ Dep \in Done
    BY <1>4 DEF Skip, Done
  <2>2. ReachInv' /\ Settled'
    BY <1>1, <1>2, <1>3, <1>4, <2>1, SkipReach, SkipSettled
  <2>3. RequestType'
    <3>1. stack' \in Seq(Frames)
      BY <2>1, <1>1, AdvancedFacts DEF RequestType
    <3> QED
      BY <1>1, <1>3, <1>4, <2>1, <3>1 DEF RequestType, WalkFrame
  <2>4. op = "getLockfile" => Sorted'
    BY <1>1, <1>3, <2>1 DEF Sorted
  <2> QED
    BY <1>1, <1>4, <2>1, <2>2, <2>3, <2>4, WalkKeeps
<1>5. CASE e \notin visited /\ Enter(e, edges[e]) /\ recStack' = recStack \cup {e}
  <2>1. stack' = Append(Advanced, Frame(e, edges[e])) /\ visited' = visited \cup {e}
    BY <1>5 DEF Enter
  <2>2. Done' = Done /\ recStack' \subseteq visited' /\ edges[e] \in Seq(Keys)
    BY <1>1, <1>5, <2>1 DEF Done, RequestType
  <2>3. Entered(e, edges[e], n)
    BY <1>1, <2>1, <2>2, EnterFacts DEF RequestType
  <2>4. ReachInv'
    BY <1>1, <1>2, <1>5, <2>1, <2>2, <2>3, EnterReach
  <2>5. Settled'
    BY <1>1, <1>3, <1>5, <2>1, <2>3, EnterSettled
  <2>6. RequestType'
    <3>1. stack' \in Seq(Frames)
      BY <2>3 DEF Entered
    <3> QED
      BY <1>1, <1>3, <1>5, <2>1, <3>1 DEF RequestType, WalkFrame
  <2>7. op = "getLockfile" => Sorted'
    BY <1>1, <1>3, <2>2 DEF Sorted
  <2> QED
    BY <2>2, <2>4, <2>5, <2>6, <2>7, WalkKeeps
<1> QED
  BY <1>4, <1>5

\* A call that leads back into a call under way: the calls between the two are
\* a set in which each version needs another one, and the path is theirs.
LEMMA CycleKeeps ==
    ASSUME ResolverIInv, WalkFrame, Sorts, Top.rest # <<>>, Dep \in recStack, Ends("cycle"),
           UNCHANGED <<stack, visited, recStack, result>>
    PROVE  ResolverIInv'
<1>1. /\ RequestType /\ ReachInv /\ Settled
      /\ phase' = "answered" /\ reply' = "cycle"
  BY DEF ResolverIInv, WalkFrame, Ends
<1>2. /\ visited \subseteq nodes /\ Starts = {root} /\ nodes \subseteq Keys
      /\ \A k \in Keys : Steps[k] = Range(edges[k])
  BY SortFacts, <1>1 DEF RequestType
<1>3. UNCHANGED <<source, pushes, past, op, root, nodes, edges, reads>>
  BY DEF WalkFrame
<1> PICK n \in Nat, e \in Keys :
             /\ n = Len(stack) /\ n >= 1 /\ stack # <<>> /\ e = Dep /\ e \in Rest(n)
             /\ n = 1 => e \in Starts
             /\ n # 1 => n \in 2 .. n /\ stack[n].key \in visited /\ e \in Steps[stack[n].key]
  BY LoopFacts DEF WalkFrame
<1>4. PICK j \in 2 .. n : stack[j].key = e
  BY <1>1 DEF Settled
<1>5. n >= 2 /\ e \in Range(edges[stack[n].key]) /\ stack[n].key \in nodes
  BY <1>2, <1>4
<1>6. \A i \in 2 .. n : stack[i].key \in nodes /\ stack[i].key \in Keys
  BY <1>1, <1>2 DEF ReachInv, Stacked
<1>7. \A i \in 3 .. n : stack[i].key \in Range(edges[stack[i - 1].key])
  <2> TAKE i \in 3 .. n
  <2>1. i \in 2 .. n /\ i # 2 /\ i - 1 \in 2 .. n
    OBVIOUS
  <2>2. stack[i].key \in Steps[stack[i - 1].key]
    BY <1>1, <2>1 DEF ReachInv, Stacked
  <2> QED
    BY <1>2, <1>6, <2>1, <2>2
<1>8. ~Acyclic
  <2> DEFINE S == {stack[i].key : i \in j .. n}
  <2>1. \A i \in j .. n : i \in 2 .. n /\ (i = n \/ (i + 1 \in 3 .. n /\ i + 1 \in j .. n /\ i + 1 - 1 = i))
    OBVIOUS
  <2>2. S \in SUBSET nodes
    BY <1>6, <2>1
  <2>3. j \in j .. n
    OBVIOUS
  <2>4. e \in S
    BY <1>4, <2>3
  <2>5. ASSUME NEW k \in S PROVE Range(edges[k]) \cap S # {}
    <3>1. PICK i \in j .. n : k = stack[i].key
      OBVIOUS
    <3>2. CASE i = n
      BY <3>1, <3>2, <1>5, <2>4
    <3>3. CASE i # n
      <4>1. stack[i + 1].key \in S
        BY <2>1, <3>3
      <4>2. stack[i + 1].key \in Range(edges[k])
        BY <1>7, <2>1, <3>1, <3>3
      <4> QED
        BY <4>1, <4>2
    <3> QED
      BY <3>2, <3>3
  <2> HIDE DEF S
  <2> QED
    BY <2>2, <2>4, <2>5 DEF Acyclic
<1>9. /\ DOMAIN path = 1 .. n - 1 /\ Len(path) = n - 1 /\ path # <<>> /\ path[1] = stack[2].key
      /\ path[n - 1] = stack[n].key
      /\ \A i \in 1 .. n - 1 : path[i] = stack[i + 1].key
  BY <1>5 DEF path
<1>10. path[1] = root
  BY <1>1, <1>2, <1>5, <1>9 DEF ReachInv, Stacked
<1>11. ASSUME NEW i \in 1 .. Len(path) - 1 PROVE path[i + 1] \in Range(edges[path[i]])
  <2>1. i \in 1 .. n - 1 /\ i + 1 \in 1 .. n - 1 /\ i + 1 + 1 \in 3 .. n /\ i + 1 + 1 - 1 = i + 1
    BY <1>5, <1>9
  <2>2. path[i] = stack[i + 1].key /\ path[i + 1] = stack[i + 1 + 1].key
    BY <2>1, <1>9
  <2>3. stack[i + 1 + 1].key \in Range(edges[stack[i + 1].key])
    BY <2>1, <1>7
  <2> QED
    BY <2>2, <2>3
<1>12. Range(edges[path[Len(path)]]) \cap Range(path) # {}
  <2>1. j - 1 \in 1 .. n - 1 /\ j - 1 + 1 = j
    OBVIOUS
  <2>2. path[j - 1] = e
    BY <2>1, <1>4, <1>9
  <2>3. e \in Range(path)
    BY <2>1, <2>2, <1>9 DEF Range
  <2> QED
    BY <2>3, <1>5, <1>9
<1>13. CycleExact'
  <2>1. (Acyclic' <=> Acyclic) /\ path' = path
    BY <1>3 DEF Acyclic, path
  <2> QED
    BY <2>1, <1>1, <1>3, <1>8, <1>9, <1>10, <1>11, <1>12 DEF CycleExact
<1>14. LockfileOrdered' /\ ReachComplete'
  BY <1>1 DEF LockfileOrdered, ReachComplete
<1>15. GraphComplete' /\ GraphFaithful'
      /\ \A k \in Keys :
               /\ k \notin nodes' => edges'[k] = <<>>
               /\ k \in nodes' => edges'[k] \in past'[k]
               /\ reads'[k] <= 1
               /\ phase' # "idle" => source'[k] \in past'[k]
  BY <1>1, WalkGraph
<1>16. RequestType'
  BY <1>1, <1>3 DEF RequestType
<1> QED
  BY <1>1, <1>13, <1>14, <1>15, <1>16 DEF ResolverIInv

LEMMA VisitCallKeeps ==
    ASSUME ResolverIInv, VisitCall PROVE ResolverIInv'
<1>1. WalkFrame /\ Sorts /\ op = "getLockfile" /\ Top.rest # <<>> /\ result' = result
  BY DEF VisitCall, Calling, WalkFrame, Sorts, ResolverIInv, RequestType, storage, graphVars
<1>2. CASE Dep \in recStack
  BY <1>1, <1>2, CycleKeeps DEF VisitCall
<1>3. CASE Dep \notin recStack
  BY <1>1, <1>3, SortCallKeeps DEF VisitCall, WalkFrame, Done
<1> QED
  BY <1>2, <1>3

LEMMA HasCycleCallKeeps ==
    ASSUME ResolverIInv, HasCycleCall PROVE ResolverIInv'
<1>1. WalkFrame /\ Sorts /\ Top.rest # <<>> /\ result' = result /\ recStack \subseteq visited
  BY DEF HasCycleCall, Calling, WalkFrame, Sorts, ResolverIInv, RequestType, storage, graphVars
<1>2. CASE Dep \in recStack
  BY <1>1, <1>2, CycleKeeps DEF HasCycleCall
<1>3. CASE Dep \notin recStack
  BY <1>1, <1>3, SortCallKeeps DEF HasCycleCall, WalkFrame, Done
<1> QED
  BY <1>2, <1>3

LEMMA TraverseCallKeeps ==
    ASSUME ResolverIInv, TraverseCall PROVE ResolverIInv'
<1>1. /\ WalkFrame /\ ~Sorts /\ Top.rest # <<>> /\ recStack' = recStack
      /\ phase' = "walk" /\ reply' = "none" /\ RequestType /\ ReachInv /\ Listed
      /\ recStack \subseteq visited /\ op \in {"getTransitiveDependencies", "getImpact"}
  BY DEF TraverseCall, Calling, WalkFrame, Sorts, ResolverIInv, RequestType, storage, graphVars
<1>2. UNCHANGED <<source, pushes, past, op, root, nodes, edges, reads>>
  BY <1>1 DEF WalkFrame
<1>3. Starts' = Starts /\ Steps' = Steps
  BY <1>1, <1>2 DEF Starts, Steps, Impacting, GetDependents, WalkFrame
<1> PICK n \in Nat, e \in Keys :
             /\ n = Len(stack) /\ n >= 1 /\ stack # <<>> /\ e = Dep /\ e \in Rest(n)
             /\ n = 1 => e \in Starts
             /\ n # 1 => n \in 2 .. n /\ stack[n].key \in visited /\ e \in Steps[stack[n].key]
  BY <1>1, LoopFacts DEF WalkFrame
<1>4. result' = IF stack[n].key = NoKey THEN result ELSE Append(result, e)
  BY DEF TraverseCall, Top
<1>5. result' \in Seq(Keys)
  BY <1>1, <1>4 DEF RequestType
<1>6. CASE e \in visited /\ Skip
  <2>1. stack' = Advanced /\ visited' = visited
    BY <1>6 DEF Skip
  <2>2. /\ stack' \in Seq(Frames) /\ Len(stack') = n
        /\ \A i \in 1 .. n : stack'[i].key = stack[i].key /\ Rest(i) \subseteq Rest(i)' \cup {e}
        /\ \A i \in 1 .. n - 1 : Rest(i)' = Rest(i)
    <3>1. /\ stack' \in Seq(Frames) /\ Len(stack') = n
          /\ \A i \in 1 .. n : stack'[i].key = stack[i].key /\ Rest(i) \subseteq Rest(i)' \cup {e}
          /\ \A i \in 1 .. n - 1 : stack'[i] = stack[i]
      BY <1>1, <2>1, AdvancedFacts DEF RequestType, Rest
    <3> QED
      BY <3>1 DEF Rest
  <2>3. ReachInv'
    BY <1>1, <1>3, <1>6, <2>1, SkipReach
  <2>4. Listed'
    BY <1>1, <1>3, <1>4, <2>1, <2>2, OnListed
  <2>5. RequestType'
    BY <1>1, <1>2, <1>5, <2>1, <2>2 DEF RequestType
  <2> QED
    BY <1>1, <2>1, <2>3, <2>4, <2>5, WalkKeeps DEF Sorts
<1>7. CASE /\ e \notin visited
           /\ \E list \in IF op = "getImpact" THEN Orders(GetDependents(e)) ELSE {edges[e]} : Enter(e, list)
  <2>1. PICK list \in IF op = "getImpact" THEN Orders(GetDependents(e)) ELSE {edges[e]} : Enter(e, list)
    BY <1>7
  <2>2. list \in Seq(Keys) /\ Range(list) = Steps[e]
    <3>1. CASE op = "getImpact"
      <4>1. GetDependents(e) \in SUBSET Keys
        BY <1>1 DEF GetDependents, RequestType
      <4>2. Steps[e] = GetDependents(e)
        BY <1>1, <3>1 DEF Steps, Impacting, WalkFrame
      <4> QED
        BY <2>1, <3>1, <4>1, <4>2, OrderFacts
    <3>2. CASE op # "getImpact"
      BY <1>1, <2>1, <3>2 DEF Steps, Impacting, RequestType
    <3> QED
      BY <3>1, <3>2
  <2>3. stack' = Append(Advanced, Frame(e, list)) /\ visited' = visited \cup {e}
    BY <2>1 DEF Enter
  <2>4. Entered(e, list, n)
    BY <1>1, <2>2, <2>3, EnterFacts DEF RequestType
  <2>5. ReachInv'
    BY <1>1, <1>3, <1>7, <2>2, <2>3, <2>4, EnterReach
  <2>6. /\ Len(stack') = n + 1 /\ stack' \in Seq(Frames)
        /\ \A i \in 1 .. n : stack'[i].key = stack[i].key /\ Rest(i) \subseteq Rest(i)' \cup {e}
        /\ \A i \in 1 .. n - 1 : Rest(i)' = Rest(i)
        /\ stack'[n + 1].key = e /\ Rest(n + 1)' = Steps[e]
    BY <2>2, <2>4 DEF Entered
  <2>7. \A k \in visited' \ visited : \A d \in Steps[k] : Ahead(k, d)'
    <3>1. n + 1 \in 2 .. n + 1
      OBVIOUS
    <3>2. \A d \in Steps[e] : Ahead(e, d)'
      BY <2>6, <3>1 DEF Ahead
    <3> QED
      BY <2>3, <3>2
  <2>8. Listed'
    BY <1>1, <1>3, <1>4, <2>3, <2>6, <2>7, OnListed
  <2>9. RequestType'
    BY <1>1, <1>2, <1>5, <2>3, <2>6 DEF RequestType
  <2> QED
    BY <1>1, <2>3, <2>5, <2>8, <2>9, WalkKeeps DEF Sorts
<1> QED
  BY <1>6, <1>7 DEF TraverseCall

\* The walk is over.
LEMMA WalkEnds ==
    ASSUME ResolverIInv, WalkFrame, Top.rest = <<>>, Len(stack) = 1, Ends("ok"),
           UNCHANGED <<stack, visited, recStack, result>>
    PROVE  ResolverIInv'
<1>1. /\ RequestType /\ ReachInv /\ recStack \subseteq visited
      /\ phase' = "answered" /\ reply' = "ok"
  BY DEF ResolverIInv, WalkFrame, Ends
<1>2. UNCHANGED <<source, pushes, past, op, root, nodes, edges, reads>>
  BY DEF WalkFrame
<1>3. /\ Starts \subseteq visited /\ \A k \in visited : Steps[k] \subseteq visited
      /\ \A S \in SUBSET visited : Starts \subseteq S /\ (\A k \in S : Steps[k] \subseteq S) => S = visited
      /\ \A k, d : ~Ahead(k, d)
  BY <1>1, LoopEnd
<1>4. ASSUME Sorts PROVE visited = nodes /\ Done = nodes /\ Settled
  <2>1. /\ visited \subseteq nodes /\ Starts = {root} /\ nodes \subseteq Keys
        /\ \A k \in Keys : Steps[k] = Range(edges[k])
    BY <1>1, <1>4, SortFacts DEF RequestType
  <2>2. root \in visited /\ \A k \in visited : Range(edges[k]) \subseteq visited
    BY <1>3, <2>1
  <2>3. visited = nodes
    BY <2>1, <2>2 DEF ResolverIInv, GraphComplete, WalkFrame
  <2>4. Settled
    BY <1>4 DEF ResolverIInv, WalkFrame
  <2>5. recStack = {}
    <3>1. \A i \in 2 .. Len(stack) : FALSE
      OBVIOUS
    <3> QED
      BY <2>4, <3>1 DEF Settled
  <2> QED
    BY <2>3, <2>4, <2>5 DEF Done
<1>5. CycleExact'
  <2>1. Sorts => Acyclic
    BY <1>4 DEF Settled, Acyclic
  <2>2. Acyclic' <=> Acyclic
    BY <1>2 DEF Acyclic
  <2> QED
    BY <1>1, <1>2, <2>1, <2>2 DEF CycleExact, Sorts
<1>6. LockfileOrdered'
  <2> SUFFICES ASSUME op = "getLockfile" PROVE LockfileOrdered'
    BY <1>2 DEF LockfileOrdered
  <2>1. Sorts /\ Sorted
    BY DEF Sorts, ResolverIInv, WalkFrame
  <2>2. Range(result) = nodes
    BY <1>4, <2>1 DEF Sorted
  <2>3. ASSUME NEW i \in DOMAIN result, NEW j \in DOMAIN result
        PROVE  /\ i # j => result[i] # result[j]
               /\ result[j] \in Range(edges[result[i]]) => j < i
    <3> PICK m \in Nat : DOMAIN result = 1 .. m
      BY <1>1 DEF RequestType
    <3>1. ASSUME result[j] \in Range(edges[result[i]]) PROVE j < i
      <4>1. PICK h \in 1 .. i - 1 : result[j] = result[h]
        BY <2>1, <3>1 DEF Sorted
      <4>2. h \in DOMAIN result
        OBVIOUS
      <4>3. h = j
        BY <2>1, <4>1, <4>2 DEF Sorted
      <4> QED
        BY <4>3
    <3> QED
      BY <2>1, <3>1 DEF Sorted
  <2> QED
    BY <1>2, <2>2, <2>3 DEF LockfileOrdered
<1>7. ReachComplete'
  <2> SUFFICES ASSUME op \in {"getTransitiveDependencies", "getImpact"} PROVE ReachComplete'
    BY <1>2 DEF ReachComplete
  <2>1. Listed /\ visited \subseteq Keys
    BY <1>1 DEF Sorts, ResolverIInv, WalkFrame, RequestType
  <2>2. Seeds = Starts /\ \A k \in Keys : Successors(k) = Steps[k]
    BY DEF Seeds, Starts, Successors, Steps, Impacting, WalkFrame
  <2>3. Seeds \subseteq visited /\ \A k \in visited : Successors(k) \subseteq visited
    BY <1>3, <2>1, <2>2
  <2>4. \A S \in SUBSET visited :
          Seeds \subseteq S /\ (\A k \in S : Successors(k) \subseteq S) => S = visited
    BY <1>3, <2>1, <2>2
  <2>5. Range(result) = UNION {Successors(k) : k \in visited}
    <3>1. \A d \in Range(result) : \E k \in visited : d \in Successors(k)
      BY <2>1, <2>2 DEF Listed
    <3>2. \A k \in visited : \A d \in Successors(k) : d \in Range(result)
      BY <1>3, <2>1, <2>2 DEF Listed
    <3> QED
      BY <3>1, <3>2
  <2>6. Seeds' = Seeds /\ \A k : Successors(k)' = Successors(k)
    BY <1>2 DEF Seeds, Successors, GetDependents
  <2> QED
    BY <2>3, <2>4, <2>5, <2>6 DEF ReachComplete
<1>8. GraphComplete' /\ GraphFaithful'
      /\ \A k \in Keys :
               /\ k \notin nodes' => edges'[k] = <<>>
               /\ k \in nodes' => edges'[k] \in past'[k]
               /\ reads'[k] <= 1
               /\ phase' # "idle" => source'[k] \in past'[k]
  BY <1>1, WalkGraph
<1>9. RequestType'
  BY <1>1, <1>2 DEF RequestType
<1> QED
  BY <1>1, <1>5, <1>6, <1>7, <1>8, <1>9 DEF ResolverIInv

LEMMA WalkReturnKeeps ==
    ASSUME ResolverIInv, WalkReturn PROVE ResolverIInv'
<1>1. /\ WalkFrame /\ Top.rest = <<>> /\ visited' = visited /\ RequestType /\ ReachInv
      /\ recStack \subseteq visited
  BY DEF WalkReturn, Leaving, WalkFrame, ResolverIInv, RequestType, storage, graphVars
<1>2. CASE Len(stack) = 1
  BY <1>1, <1>2, WalkEnds DEF WalkReturn
<1>3. CASE Len(stack) # 1
  <2>1. /\ stack' = Popped
        /\ recStack' = IF Sorts THEN Leave(Top.key) ELSE recStack
        /\ result' = IF op = "getLockfile" THEN List(Top.key) ELSE result
        /\ UNCHANGED <<phase, reply>>
    BY <1>3 DEF WalkReturn, Sorts
  <2>2. UNCHANGED <<source, pushes, past, op, root, nodes, edges, reads>>
    BY <1>1 DEF WalkFrame
  <2>3. Starts' = Starts /\ Steps' = Steps
    BY <2>1, <2>2 DEF Starts, Steps, Impacting, GetDependents
  <2>4. PICK n \in Nat : n = Len(stack) /\ n > 1 /\ Returned(n)
    <3>0. stack \in Seq(Frames)
      BY <1>1 DEF RequestType
    <3>1. PICK n \in Nat : n = Len(stack)
      BY <3>0
    <3>2. n > 1
      BY <1>1, <1>3, <3>1 DEF ReachInv, Stacked
    <3>3. Returned(Len(stack))
      BY <1>1, <2>1, <3>0, <3>1, <3>2, PopFacts
    <3> QED
      BY <3>1, <3>2, <3>3
  <2>5. PICK k \in Keys : k = stack[n].key /\ k = Top.key /\ k \in visited
    <3>1. n \in 2 .. n
      BY <2>4
    <3> QED
      BY <1>1, <2>4, <3>1 DEF ReachInv, Stacked, RequestType, Top
  <2>6. ReachInv'
    BY <1>1, <2>3, <2>4, PopReach
  <2>7. recStack' \subseteq visited'
    BY <1>1, <2>1 DEF Leave
  <2>8. RequestType'
    <3>1. stack' \in Seq(Frames)
      BY <2>4 DEF Returned
    <3>2. result' \in Seq(Keys) /\ recStack' \subseteq Keys
      BY <1>1, <2>1, <2>5 DEF List, Leave, RequestType
    <3> QED
      BY <1>1, <2>1, <2>2, <3>1, <3>2 DEF RequestType
  <2>9. phase' = "walk" /\ reply' = "none"
    BY <1>1, <2>1 DEF WalkFrame
  <2>10. CASE Sorts
    <3>1. Settled /\ (op = "getLockfile" => Sorted)
      BY <1>1, <2>10 DEF ResolverIInv, WalkFrame
    <3>2. Settled' /\ k \notin Done /\ Done' = Done \cup {k} /\ Range(edges[k]) \subseteq Done
      <4>1. recStack' = recStack \ {k}
        BY <2>1, <2>5, <2>10 DEF Leave
      <4> QED
        BY <1>1, <2>2, <2>4, <2>5, <3>1, <4>1, PopSettled
    <3>3. op = "getLockfile" => Sorted'
      <4>1. k \in nodes
        BY <1>1, <2>5, <2>10, SortFacts
      <4>2. op = "getLockfile" => result' = Append(result, k)
        BY <2>1, <2>5, <4>1 DEF List
      <4> QED
        BY <1>1, <2>2, <3>1, <3>2, <4>2, PopSorted
    <3> QED
      BY <1>1, <2>6, <2>7, <2>8, <2>9, <2>10, <3>2, <3>3, WalkKeeps
  <2>11. CASE ~Sorts
    <3>1. Listed /\ result' = result /\ op # "getLockfile"
      BY <1>1, <2>1, <2>11 DEF ResolverIInv, WalkFrame, Sorts
    <3>2. Listed'
      BY <1>1, <2>3, <2>4, <3>1, PopListed
    <3> QED
      BY <1>1, <2>6, <2>7, <2>8, <2>9, <2>11, <3>1, <3>2, WalkKeeps
  <2> QED
    BY <2>10, <2>11
<1> QED
  BY <1>2, <1>3

-----------------------------------------------------------------------------
THEOREM ResolverCorrect == ResolverSpec => []ResolverIInv
<1>1. ASSUME ResolverInit PROVE ResolverIInv
  <2> USE <1>1 DEF ResolverInit
  <2>1. RequestType
    BY DEF RequestType
  <2>2. \A k \in Keys : edges[k] = <<>> /\ reads[k] = 0
    OBVIOUS
  <2>3. GraphFaithful
    BY <2>2 DEF GraphFaithful
  <2>4. CycleExact /\ LockfileOrdered /\ ReachComplete
    BY DEF CycleExact, LockfileOrdered, ReachComplete
  <2> QED
    BY <2>1, <2>2, <2>3, <2>4 DEF ResolverIInv
<1>2. ASSUME ResolverIInv, [ResolverNext]_resolverVars PROVE ResolverIInv'
  <2>1. ASSUME NEW k \in Keys, PushVersion(k) PROVE ResolverIInv'
    BY <1>2, <2>1, PushKeeps
  <2>2. CASE HandleRequest
    BY <1>2, <2>2, HandleKeeps
  <2>3. CASE BuildCall
    BY <1>2, <2>3, BuildCallKeeps
  <2>4. CASE BuildReturn
    BY <1>2, <2>4, BuildReturnKeeps
  <2>5. CASE VisitCall
    BY <1>2, <2>5, VisitCallKeeps
  <2>6. CASE HasCycleCall
    BY <1>2, <2>6, HasCycleCallKeeps
  <2>7. CASE TraverseCall
    BY <1>2, <2>7, TraverseCallKeeps
  <2>8. CASE WalkReturn
    BY <1>2, <2>8, WalkReturnKeeps
  <2>9. CASE UNCHANGED resolverVars
    <3> USE <2>9 DEF resolverVars, storage, graphVars
    <3>1. RequestType'
      BY <1>2 DEF ResolverIInv, RequestType
    <3>2. (ReachInv' <=> ReachInv) /\ (Settled' <=> Settled) /\ (Sorted' <=> Sorted)
      BY DEF ReachInv, Stacked, NonePassed, Minimal, Ahead, Rest, Starts, Steps, Impacting, GetDependents,
             Settled, Done, Sorted
    <3>3. (Listed' <=> Listed) /\ (GraphComplete' <=> GraphComplete) /\ (Sorts' <=> Sorts)
      BY DEF Listed, Ahead, Rest, Steps, Impacting, GetDependents, GraphComplete, Sorts
    <3>4. GraphFaithful' <=> GraphFaithful
      BY <3>3 DEF GraphFaithful
    <3>5. CycleExact' <=> CycleExact
      <4>1. (Acyclic' <=> Acyclic) /\ path' = path
        BY DEF Acyclic, path
      <4> QED
        BY <4>1 DEF CycleExact
    <3>6. (LockfileOrdered' <=> LockfileOrdered) /\ (ReachComplete' <=> ReachComplete)
      BY DEF LockfileOrdered, ReachComplete, Seeds, Successors, GetDependents
    <3> QED
      BY <1>2, <3>1, <3>2, <3>3, <3>4, <3>5, <3>6 DEF ResolverIInv
  <2> QED
    BY <1>2, <2>1, <2>2, <2>3, <2>4, <2>5, <2>6, <2>7, <2>8, <2>9 DEF ResolverNext
<1> QED
  BY <1>1, <1>2, PTL DEF ResolverSpec

\* Whatever is pushed while the graph of a version is being read, the graph that
\* is answered from is complete, and nothing else; see GraphFaithful.
\* BuildDependencyGraph, graph.go:325
THEOREM GraphFaithfulHolds == ResolverSpec => []GraphFaithful
<1>1. ResolverIInv => GraphFaithful
  BY DEF ResolverIInv
<1> QED
  BY <1>1, ResolverCorrect, PTL

\* A lockfile is refused, and a cycle is reported, exactly when the graph has
\* one.  TopologicalSort, DetectCircularDependencies, graph.go:123
THEOREM CycleExactHolds == ResolverSpec => []CycleExact
<1>1. ResolverIInv => CycleExact
  BY DEF ResolverIInv
<1> QED
  BY <1>1, ResolverCorrect, PTL

\* A lockfile has every version of the graph once, after what it needs.
\* TopologicalSort, graph.go:161
THEOREM LockfileOrderedHolds == ResolverSpec => []LockfileOrdered
<1>1. ResolverIInv => LockfileOrdered
  BY DEF ResolverIInv
<1> QED
  BY <1>1, ResolverCorrect, PTL

\* The traversals report exactly what is reached.
\* GetTransitiveDependencies, GetImpactAnalysis, graph.go:70 and 215
THEOREM ReachCompleteHolds == ResolverSpec => []ReachComplete
<1>1. ResolverIInv => ReachComplete
  BY DEF ResolverIInv
<1> QED
  BY <1>1, ResolverCorrect, PTL

\* Cycle, lockfile and what is reached are exact, for any number of versions,
\* any lists and any pushes.  graph.go:70, 123, 161 and 215
THEOREM WalksAreExact == ResolverSpec => []WalksExact
<1>1. CycleExact /\ LockfileOrdered /\ ReachComplete => WalksExact
  BY DEF WalksExact
<1> QED
  BY <1>1, CycleExactHolds, LockfileOrderedHolds, ReachCompleteHolds, PTL
=============================================================================
