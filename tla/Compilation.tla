---------------------------- MODULE Compilation -----------------------------
(***************************************************************************)
(* pkg/codegen: the two engines that compile a version for several         *)
(* languages at once.  CompileAll of the orchestrator has a pool of        *)
(* workers, containers that DockerRunner keeps track of, an S3 copy and an *)
(* LRU cache; GenerateCodeParallel has an errgroup, docker run --rm and a  *)
(* cache that never forgets.  Results are shared by pointer: the cache and *)
(* the callers hold indices into heap.  Module and version are fixed.      *)
(***************************************************************************)
EXTENDS Naturals, SequencesExt

CONSTANTS
    Langs,
    Workers,    \* MaxParallelWorkers goroutines, or the limit of the errgroup
    Contents,   \* what the proto files and dependencies of a request may be
    NoSpec,     \* a language that is not registered, an object that is not there
    MaxCalls, MaxFaults, MaxEdits \* bounds: calls, failures, edits of the registry

ASSUME CompilationAssumption ==
    /\ IsFiniteSet(Langs) /\ IsFiniteSet(Workers) /\ Workers # {}
    /\ NoSpec \notin Contents

Engines == {"orchestrator", "generator"}
NoFiles == "no files"

VARIABLES
    langs,      \* registry of the orchestrator: [Langs -> NoSpec, or version, enabled]
    cached,     \* [engine -> set of <<key, index into heap>>]
    heap,       \* results: lang, version, files, grpc, hit, stored
    bucket,     \* [Langs -> index of the result whose files the object holds, or 0]
    images,     \* imageCache of DockerRunner, a map without a lock
    containers, \* containers that exist
    cleanupIDs, \* the slice of DockerRunner, appended to without a lock
    made,       \* containers made so far
    closing,    \* Close of the orchestrator: "no", "removing", "closed"
    call,       \* the CompileAll or GenerateCodeParallel in progress
    worker,     \* [Workers -> its step]
    calls, faults, edits,
    up,         \* the process runs
    seen,       \* history: [Langs -> plugin versions registered during the call]
    orphans,    \* history: indices whose worker panicked
    raced       \* history: containers whose append met another append or Cleanup
compilationVars == <<langs, cached, heap, bucket, images, containers, cleanupIDs, made, closing,
                     call, worker, calls, faults, edits, up, seen, orphans, raced>>

NoCall == [phase |-> "none", engine |-> "orchestrator", req |-> [files |-> NoFiles, grpc |-> FALSE],
           order |-> <<>>, todo |-> {}, results |-> <<>>, failed |-> FALSE]
Gone == [step |-> "gone", i |-> 0, spec |-> NoSpec, id |-> 0, copy |-> {}, out |-> 0]
CompilationInit ==
    /\ langs \in [Langs -> {NoSpec, [version |-> 1, enabled |-> TRUE],
                              [version |-> 1, enabled |-> FALSE]}]
    /\ cached = [e \in Engines |-> {}] /\ heap = <<>> /\ bucket = [l \in Langs |-> 0]
    /\ images = {} /\ containers = {} /\ cleanupIDs = {} /\ made = 0 /\ closing = "no"
    /\ call = NoCall /\ worker = [w \in Workers |-> Gone]
    /\ calls = 0 /\ faults = 0 /\ edits = 0 /\ up = TRUE
    /\ seen = [l \in Langs |-> {}] /\ orphans = {} /\ raced = {}

docker == <<images, containers, cleanupIDs, made, closing, raced>>
stores == <<cached, heap, bucket>>
Fault == faults < MaxFaults /\ faults' = faults + 1
Counters == UNCHANGED <<calls, edits, up, seen>>
Step(w, s) == worker' = [worker EXCEPT ![w].step = s]
At(w, s) == up /\ worker[w].step = s
Lang(w) == call.order[worker[w].i]

-----------------------------------------------------------------------------
(* The calls.                                                              *)

\* The generator's languages are registered once, by init.
GetLanguageSpec(l) == [version |-> 1, enabled |-> TRUE]
Get(l) == langs[l]
SpecOf(engine, l) == IF engine = "generator" THEN GetLanguageSpec(l) ELSE Get(l)
validateRequest(req) == req.files # NoFiles
\* Every language must be registered and enabled.
Accepts(engine, order) ==
    /\ order # <<>>
    /\ \A i \in DOMAIN order :
          LET spec == SpecOf(engine, order[i]) IN spec # NoSpec /\ (spec # NoSpec => spec.enabled)
Begin(engine) ==
    /\ up /\ call.phase # "running" /\ calls < MaxCalls /\ calls' = calls + 1
    /\ closing # "closed"
    /\ \E files \in Contents \cup {NoFiles}, grpc \in BOOLEAN,
          order \in {<<>>} \cup {<<l>> : l \in Langs} \cup {SetToSeq(Langs)} :
          LET new == [phase |-> "running", engine |-> engine, order |-> order, failed |-> FALSE,
                      req |-> [files |-> files, grpc |-> grpc], todo |-> DOMAIN order,
                      results |-> [i \in DOMAIN order |-> 0]]
          IN  IF Accepts(engine, order)
              THEN /\ call' = new
                   /\ worker' = [w \in Workers |-> [Gone EXCEPT !.step = "idle"]]
              ELSE call' = [new EXCEPT !.phase = "refused", !.todo = {}] /\ UNCHANGED worker
    /\ seen' = [l \in Langs |-> IF langs[l] = NoSpec THEN {} ELSE {langs[l].version}]
    /\ orphans' = {}
    /\ UNCHANGED <<langs, stores, docker, faults, edits, up>>
CompileAll == Begin("orchestrator")
GenerateCodeParallel == Begin("generator")
\* POST compile: the results of a failed call are written after the error.
compileVersion == GenerateCodeParallel
Take(w) ==
    /\ At(w, "idle")
    /\ IF call.todo = {} THEN worker' = [worker EXCEPT ![w] = Gone] /\ UNCHANGED call
       ELSE /\ call' = [call EXCEPT !.todo = @ \ {Min(@)}]
            /\ worker' = [worker EXCEPT ![w] =
                    [Gone EXCEPT !.step = "start", !.i = Min(call.todo)]]
    /\ UNCHANGED <<langs, stores, docker, faults, orphans>> /\ Counters
\* out = 0: no result, only an error.
Send(w, out, failed) ==
    /\ call' = [call EXCEPT !.results = [@ EXCEPT ![worker[w].i] = out], !.failed = @ \/ failed]
    /\ worker' = [worker EXCEPT ![w] = [Gone EXCEPT !.step = "idle"]]
\* When the last worker has gone resultCh is closed and the caller returns.
Return ==
    /\ up /\ call.phase = "running" /\ \A w \in Workers : worker[w].step = "gone"
    /\ call' = [call EXCEPT !.phase = "returned"]
    /\ UNCHANGED <<langs, stores, docker, worker, faults, orphans>> /\ Counters

-----------------------------------------------------------------------------
(* One language: CompileSingle and GenerateCode.                           *)

\* The gRPC flag is in neither key, the plugin version only in the first.
hashProtoFiles(req) == req.files
generateProtoHash(req) == req.files
Hash == IF call.engine = "generator" THEN hashProtoFiles(call.req) ELSE generateProtoHash(call.req)
FormatCacheKey(engine, lang, version, hash) ==
    <<lang, IF engine = "orchestrator" THEN version ELSE 0, hash>>
KeyWithoutVersion(w) == FormatCacheKey(call.engine, Lang(w), 0, Hash)
GenerateCacheKey(w) ==
    FormatCacheKey(call.engine, Lang(w), worker[w].spec.version, Hash)
CacheGet(w) == {e[2] : e \in {x \in cached[call.engine] : x[1] = GenerateCacheKey(w)}}
\* The language may have been removed or disabled since the call was accepted.
CompileSingle(w) ==
    LET spec == SpecOf(call.engine, Lang(w)) IN
    /\ At(w, "start")
    /\ IF ~validateRequest(call.req) \/ spec = NoSpec \/ (spec # NoSpec /\ ~spec.enabled)
       THEN Send(w, 0, TRUE)
       ELSE worker' = [worker EXCEPT ![w].step = "cache", ![w].spec = spec] /\ UNCHANGED call
    /\ UNCHANGED <<langs, stores, docker, faults, orphans>> /\ Counters
\* A hit marks the shared result, also for those who hold it already.
CacheLookup(w) ==
    /\ At(w, "cache")
    /\ IF CacheGet(w) # {}
       THEN \E k \in CacheGet(w) : heap' = [heap EXCEPT ![k].hit = TRUE] /\ Send(w, k, FALSE)
       ELSE /\ Step(w, IF call.engine = "orchestrator" THEN "pull" ELSE "run")
            /\ UNCHANGED <<heap, call>>
    /\ UNCHANGED <<langs, cached, bucket, docker, faults, orphans>> /\ Counters
buildProtocFlags(w) ==
    [lang |-> Lang(w), version |-> worker[w].spec.version, files |-> call.req.files,
     grpc |-> call.req.grpc, hit |-> FALSE, stored |-> FALSE]

\* imageCache is read, and written after a pull: a read beside a write may
\* make the runtime stop the process.
PullImage(w) ==
    /\ At(w, "pull")
    /\ \/ Lang(w) \in images /\ Step(w, "create") /\ UNCHANGED <<call, faults>>
       \/ Lang(w) \notin images /\ Step(w, "mark") /\ UNCHANGED <<call, faults>>
       \/ Lang(w) \notin images /\ Fault /\ Send(w, 0, TRUE)
    /\ UNCHANGED <<langs, stores, docker, orphans>> /\ Counters
MarkImage(w) ==
    /\ At(w, "mark") /\ images' = images \cup {Lang(w)} /\ Step(w, "create")
    /\ UNCHANGED <<langs, stores, containers, cleanupIDs, made, closing, raced, call, faults,
                   orphans>> /\ Counters
ConcurrentMap ==
    /\ up /\ \E w, v \in Workers : w # v /\ At(w, "mark") /\ worker[v].step \in {"pull", "mark"}
    /\ up' = FALSE /\ UNCHANGED <<langs, stores, docker, call, worker, calls, faults, edits, seen,
                                  orphans>>
\* The container is made; append reads the slice now and stores it in the next step.
createContainer(w) ==
    /\ At(w, "create")
    /\ \/ /\ made' = made + 1 /\ containers' = containers \cup {made + 1}
          /\ worker' = [worker EXCEPT ![w].step = "append", ![w].id = made + 1,
                                      ![w].copy = cleanupIDs]
          /\ raced' = IF closing = "removing" \/ \E v \in Workers \ {w} : worker[v].step = "append"
                      THEN raced \cup {made + 1}
                               \cup {worker[v].id : v \in {x \in Workers : worker[x].step = "append"}}
                      ELSE raced
          /\ UNCHANGED <<call, faults>>
       \/ Fault /\ Send(w, 0, TRUE) /\ UNCHANGED <<made, containers, raced>>
    /\ UNCHANGED <<langs, stores, images, cleanupIDs, closing, orphans>> /\ Counters
AppendLate(w) ==
    /\ At(w, "append")
    /\ \/ cleanupIDs' = worker[w].copy \cup {worker[w].id} /\ Step(w, "run")
          /\ UNCHANGED <<call, faults>>
       \/ Fault /\ Send(w, 0, TRUE) /\ UNCHANGED cleanupIDs
    /\ UNCHANGED <<langs, stores, images, containers, made, closing, raced, orphans>> /\ Counters
AppendCleanup(w) ==
    /\ At(w, "append") /\ cleanupIDs' = worker[w].copy \cup {worker[w].id} /\ Step(w, "run")
    /\ UNCHANGED <<langs, stores, images, containers, made, closing, raced, call, faults,
                   orphans>> /\ Counters
Produced(w, next) ==
    /\ heap' = Append(heap, buildProtocFlags(w))
    /\ worker' = [worker EXCEPT ![w].step = next, ![w].out = Len(heap) + 1]
    /\ UNCHANGED <<call, faults>>
\* Start, wait, logs and files; a timeout, an exit code or no files fail.
Execute(w) ==
    /\ At(w, "run") /\ call.engine = "orchestrator"
    /\ Produced(w, "store") \/ (Fault /\ Send(w, 0, TRUE) /\ UNCHANGED heap)
    /\ UNCHANGED <<langs, cached, bucket, docker, orphans>> /\ Counters
\* docker run of the generator leaves no container, and fails for every
\* language once one of them has failed: the errgroup's context is cancelled.
ExecuteDocker(w) ==
    /\ At(w, "run") /\ call.engine = "generator"
    /\ IF call.failed THEN Send(w, 0, TRUE) /\ UNCHANGED <<heap, faults>>
       ELSE Produced(w, "keep") \/ (Fault /\ Send(w, 0, TRUE) /\ UNCHANGED heap)
    /\ UNCHANGED <<langs, cached, bucket, docker, orphans>> /\ Counters
\* A failed upload is logged and the compilation succeeds.
Store(w) ==
    /\ At(w, "store") /\ Step(w, "keep")
    /\ \/ /\ bucket' = [bucket EXCEPT ![Lang(w)] = worker[w].out]
          /\ heap' = [heap EXCEPT ![worker[w].out].stored = TRUE] /\ UNCHANGED faults
       \/ Fault /\ UNCHANGED <<bucket, heap>>
    /\ UNCHANGED <<langs, cached, docker, call, orphans>> /\ Counters
CacheSet(w) ==
    /\ At(w, "keep") /\ Send(w, worker[w].out, FALSE)
    /\ cached' = [cached EXCEPT ![call.engine] =
            {e \in @ : e[1] # GenerateCacheKey(w)} \cup {<<GenerateCacheKey(w), worker[w].out>>}]
    /\ UNCHANGED <<langs, heap, bucket, docker, faults, orphans>> /\ Counters
\* RecoverPanic: the worker leaves without a result for its language.
WorkerPanic(w) ==
    /\ up /\ call.engine = "orchestrator" /\ Fault
    /\ worker[w].step \in {"cache", "pull", "create", "run", "store"}
    /\ worker' = [worker EXCEPT ![w] = Gone] /\ orphans' = orphans \cup {worker[w].i}
    /\ UNCHANGED <<langs, stores, docker, call>> /\ Counters

\* The LRU drops an entry for its age or its size; Invalidate drops them all.
CacheEvict ==
    /\ up /\ \E e \in cached["orchestrator"] :
          cached' = [cached EXCEPT !["orchestrator"] = @ \ {e}]
    /\ UNCHANGED <<langs, heap, bucket, docker, call, worker, faults, orphans>> /\ Counters
CacheInvalidate ==
    /\ up /\ cached["orchestrator"] # {} /\ cached' = [cached EXCEPT !["orchestrator"] = {}]
    /\ UNCHANGED <<langs, heap, bucket, docker, call, worker, faults, orphans>> /\ Counters
\* Close of the orchestrator: the runner removes the containers of the slice
\* and then empties it; the cache is purged.
Cleanup ==
    /\ up /\ closing = "no" /\ calls > 0 /\ closing' = "removing"
    /\ containers' = containers \ cleanupIDs
    /\ raced' = raced \cup {worker[w].id : w \in {x \in Workers : worker[x].step = "append"}}
    /\ UNCHANGED <<langs, stores, images, cleanupIDs, made, call, worker, faults, orphans>>
    /\ Counters
Close ==
    /\ up /\ closing = "removing" /\ closing' = "closed" /\ cleanupIDs' = {}
    /\ cached' = [cached EXCEPT !["orchestrator"] = {}]
    /\ UNCHANGED <<langs, heap, bucket, images, containers, made, raced, call, worker, faults,
                   orphans>> /\ Counters

\* The artifacts manager, and the registry of languages.
Delete ==
    /\ up /\ \E l \in Langs : bucket[l] # 0 /\ bucket' = [bucket EXCEPT ![l] = 0]
    /\ UNCHANGED <<langs, cached, heap, docker, call, worker, faults, orphans>> /\ Counters
EditLanguage(l, spec) ==
    /\ up /\ edits < MaxEdits /\ edits' = edits + 1
    /\ langs' = [langs EXCEPT ![l] = spec]
    /\ seen' = IF spec = NoSpec THEN seen ELSE [seen EXCEPT ![l] = @ \cup {spec.version}]
    /\ UNCHANGED <<stores, docker, call, worker, calls, faults, up, orphans>>
UpdateLanguage(l) ==
    langs[l] # NoSpec /\ EditLanguage(l, [version |-> langs[l].version + 1, enabled |-> TRUE])
DisableLanguage(l) == langs[l] # NoSpec /\ EditLanguage(l, [langs[l] EXCEPT !.enabled = FALSE])
EnableLanguage(l) ==
    /\ langs[l] # NoSpec /\ ~langs[l].enabled
    /\ EditLanguage(l, [langs[l] EXCEPT !.enabled = TRUE])
DeleteLanguage(l) == langs[l] # NoSpec /\ EditLanguage(l, NoSpec)
RegisterLanguage(l) == langs[l] = NoSpec /\ EditLanguage(l, [version |-> 1, enabled |-> TRUE])

WorkerStep(w) ==
    \/ Take(w) \/ CompileSingle(w) \/ CacheLookup(w) \/ PullImage(w) \/ MarkImage(w)
    \/ createContainer(w) \/ AppendCleanup(w) \/ Execute(w) \/ ExecuteDocker(w)
    \/ Store(w) \/ CacheSet(w)
CompilationNext ==
    \/ CompileAll \/ compileVersion \/ Return \/ ConcurrentMap
    \/ \E w \in Workers : WorkerStep(w) \/ WorkerPanic(w)
    \/ CacheEvict \/ CacheInvalidate \/ Cleanup \/ Close \/ Delete
    \/ \E l \in Langs : UpdateLanguage(l) \/ DisableLanguage(l) \/ EnableLanguage(l)
                        \/ DeleteLanguage(l) \/ RegisterLanguage(l)

-----------------------------------------------------------------------------
(* A call that returns without an error has, for every language, a result  *)
(* of these proto files, by the orchestrator made with a plugin version    *)
(* that was registered during the call.  A language has no result only     *)
(* where the worker that held it panicked, or every worker did.            *)
ResultsFaithful ==
    call.phase = "returned" /\ ~call.failed =>
        \A i \in DOMAIN call.order : LET k == call.results[i] IN
            IF k = 0 THEN i \in orphans \/ Cardinality(orphans) = Cardinality(Workers)
            ELSE /\ heap[k].lang = call.order[i] /\ heap[k].files = call.req.files
                 /\ call.engine = "orchestrator" => heap[k].version \in seen[call.order[i]]
(* Every container is in the list that Cleanup removes, or about to be put *)
(* there, whatever step of its compilation failed: it is forgotten only    *)
(* where the append raced with another one or with Cleanup.                *)
ContainersTracked ==
    containers \subseteq
        cleanupIDs \cup raced \cup {worker[w].id : w \in {x \in Workers : worker[x].step = "append"}}
=============================================================================
