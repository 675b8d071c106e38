------------------------------ MODULE Sprocket ------------------------------
(***************************************************************************)
(* cmd/sprocket: the service that watches the storage directory and        *)
(* compiles changed module versions.  Four actors: pushers (the registry   *)
(* writing files), the main goroutine (startup scan, then watcher events), *)
(* the queue goroutine (checkQueue and compile) and the clean-up ticker.   *)
(* Time advances in units of 500 ms, the small stagger of compile; queue   *)
(* and processedSet hold the age of an entry instead of its timestamp.     *)
(***************************************************************************)
EXTENDS Naturals, FiniteSets

CONSTANTS
    Keys,        \* "module@version" keys
    ModuleOf,    \* [Keys -> module]
    DepSets,     \* dependency lists a pushed version may declare
    Existing,    \* versions already in the store when sprocket starts
    Delay,       \* -delay, in units of 500 ms
    CleanAfter,  \* age at which cleanProcessedSet drops an entry
    MayFail,     \* whether code generation may fail
    NoKey, NoEntry,
    MaxPushes    \* bound: pushes

Modules == {ModuleOf[k] : k \in Keys}

\* Directories: <module>, <module>/versions and <module>/versions/<version>.
VersionsDir(m) == <<m>>
Dirs == Modules \cup {VersionsDir(m) : m \in Modules} \cup Keys
Found == {ModuleOf[k] : k \in Existing}

MaxAge == IF 2 * Delay > CleanAfter + 1 THEN 2 * Delay ELSE CleanAfter + 1

ASSUME SprocketAssumption ==
    /\ Existing \subseteq Keys /\ IsFiniteSet(Keys) /\ Keys \cap Modules = {}
    /\ DepSets \subseteq SUBSET Keys /\ DepSets # {}
    /\ Delay \in Nat \ {0} /\ CleanAfter \in Nat /\ MaxPushes \in Nat
    /\ MayFail \in BOOLEAN
    /\ NoKey \notin Keys /\ NoEntry \notin Nat

VARIABLES
    content,   \* [Keys -> number of the push in version.json, 0 if none]
    declared,  \* [Keys -> dependencies in version.json]
    dirs,      \* directories that exist
    pushing,   \* [Keys -> step of the push that is writing the version]
    pushes,
    watched,   \* directories the watcher was added to
    created,   \* Create events of directories not handled yet
    written,   \* [Keys -> Write events of proto files not handled yet]
    main,      \* phase of the main goroutine
    todo,      \* modules and versions the current phase has still to visit
    leaves,    \* modulesToCompile
    queue,     \* [Keys -> age of the request, NoEntry when not queued]
    processed, \* processedSet: [Keys -> age of the entry, NoEntry when none]
    ready,     \* readyItems of the running checkQueue
    job,       \* the version being compiled and where compile is
    nodes, deps, dependents, \* DependencyGraph
    built,     \* [Keys -> what the last successful compilation was made of]
    lost       \* history: [Keys -> why a change was dropped]

store == <<content, declared, dirs, pushing, pushes>>
watch == <<watched, created, written>>
scan == <<main, todo, leaves>>
graph == <<nodes, deps, dependents>>
vars == <<store, watch, scan, queue, processed, ready, job, graph, built, lost>>

Phases == {"graph", "leaves", "enqueue", "watch"}
Idle == [key |-> NoKey, at |-> "idle", own |-> 0, decl |-> {}, saw |-> {}, tell |-> {}]
Reasons == {"skipped", "unwatched", "notLeaf", "failed", "overwritten"}
NotBuilt == [own |-> 0, saw |-> {}]

Init ==
    /\ content = [k \in Keys |-> IF k \in Existing THEN 1 ELSE 0]
    /\ declared \in [Keys -> DepSets \cup {{}}]
    /\ \A k \in Existing : declared[k] \in DepSets
    /\ \A k \in Keys \ Existing : declared[k] = {}
    /\ dirs = Found \cup {VersionsDir(m) : m \in Found} \cup Existing
    /\ pushing = [k \in Keys |-> "none"] /\ pushes = 1
    /\ watched = dirs   \* setupWatcher
    /\ created = {} /\ written = [k \in Keys |-> 0]
    /\ main = "graph" /\ todo = Found /\ leaves = {}
    /\ queue = [k \in Keys |-> NoEntry]
    /\ processed = [k \in Keys |-> NoEntry]
    /\ ready = {} /\ job = Idle
    /\ nodes = {} /\ deps = [k \in Keys |-> {}] /\ dependents = [k \in Keys |-> {}]
    /\ built = [k \in Keys |-> NotBuilt]
    /\ lost = [k \in Keys |-> {}]
-----------------------------------------------------------------------------
(* DependencyGraph.  Every method takes g.mu, so each is one step.         *)
\* Mutant: edges to dependencies the version no longer has are kept.
AddNodeKeepsEdges(k, ds) ==
    /\ nodes' = nodes \cup {k} \cup ds
    /\ deps' = [deps EXCEPT ![k] = ds]
    /\ dependents' = [d \in Keys |-> IF d \in ds THEN dependents[d] \cup {k} ELSE dependents[d]]

AddNode(k, ds) ==
    /\ nodes' = nodes \cup {k} \cup ds
    /\ deps' = [deps EXCEPT ![k] = ds]
    /\ dependents' = [d \in Keys |-> IF d \in ds THEN dependents[d] \cup {k}
                                     ELSE IF d \in deps[k] THEN dependents[d] \ {k}
                                     ELSE dependents[d]]

\* collectDependents: everything reachable over Dependents, the smallest set
\* that has the dependents of k and of each of its members.
GetDependentsTree(k) ==
    LET Closed(s) == dependents[k] \subseteq s /\ \A d \in s : dependents[d] \subseteq s
    IN  {d \in Keys : \A s \in SUBSET Keys : Closed(s) => d \in s}
-----------------------------------------------------------------------------
(* QueueRecompilationWithDelay: one critical section of pendingMutex.  A   *)
(* version processed less than 2*delay ago is skipped.  The delay is       *)
(* subtracted from the timestamp: a larger one makes the request older.    *)
RecentlyProcessed(k) == processed[k] # NoEntry /\ processed[k] < 2 * Delay

QueueRecompilation(k, additional) ==
    IF RecentlyProcessed(k)
    THEN /\ lost' = [lost EXCEPT ![k] = @ \cup {"skipped"}]
         /\ UNCHANGED queue
    ELSE /\ queue' = [queue EXCEPT ![k] = additional]
         /\ UNCHANGED lost
-----------------------------------------------------------------------------
(* The registry.  CreateVersion makes the missing directories one by one,  *)
(* writes version.json and then the proto file.  A new directory, and a    *)
(* written file, reach the watcher only if the parent is watched already.  *)
Mkdir(d, parentWatched) ==
    /\ dirs' = dirs \cup {d}
    /\ created' = IF parentWatched THEN created \cup {d} ELSE created

\* POST /modules; the root directory is watched from the start.
CreateModule(m) ==
    /\ m \notin dirs
    /\ Mkdir(m, TRUE)
    /\ UNCHANGED <<content, declared, pushing, pushes, watched, written, scan, queue,
                   processed, ready, job, graph, built, lost>>

PushStart(k) ==
    /\ pushing[k] = "none" /\ pushes < MaxPushes
    /\ pushes' = pushes + 1
    /\ pushing' = [pushing EXCEPT ![k] = IF k \in dirs THEN "json" ELSE "mkdir"]
    /\ UNCHANGED <<content, declared, dirs, watch, scan, queue, processed, ready, job,
                   graph, built, lost>>

PushMkdir(k) ==
    /\ pushing[k] = "mkdir"
    /\ LET m == ModuleOf[k] IN
         IF m \notin dirs THEN Mkdir(m, TRUE) /\ UNCHANGED pushing
         ELSE IF VersionsDir(m) \notin dirs
         THEN Mkdir(VersionsDir(m), m \in watched) /\ UNCHANGED pushing
         ELSE /\ Mkdir(k, VersionsDir(m) \in watched)
              /\ pushing' = [pushing EXCEPT ![k] = "json"]
    /\ UNCHANGED <<content, declared, pushes, watched, written, scan, queue, processed,
                   ready, job, graph, built, lost>>

PushJson(k) ==
    /\ pushing[k] = "json"
    /\ \E ds \in DepSets :
         /\ content' = [content EXCEPT ![k] = pushes]
         /\ declared' = [declared EXCEPT ![k] = ds]
    /\ pushing' = [pushing EXCEPT ![k] = "proto"]
    /\ UNCHANGED <<dirs, pushes, watch, scan, queue, processed, ready, job, graph, built, lost>>

PushProto(k) ==
    /\ pushing[k] = "proto"
    /\ pushing' = [pushing EXCEPT ![k] = "none"]
    /\ IF k \in watched
       THEN written' = [written EXCEPT ![k] = @ + 1] /\ UNCHANGED lost
       ELSE lost' = [lost EXCEPT ![k] = @ \cup {"unwatched"}] /\ UNCHANGED written
    /\ UNCHANGED <<content, declared, dirs, pushes, watched, created, scan, queue,
                   processed, ready, job, graph, built>>
-----------------------------------------------------------------------------
(* The main goroutine: scanExistingModules, then the event loop.  The scan *)
(* visits twice the modules the first ReadDir found, one ReadDir of        *)
(* versions/ per visit.                                                    *)
ScanReadDir ==
    /\ main \in {"graph", "leaves"} /\ todo \subseteq Modules
    /\ \E m \in todo :
         todo' = (todo \ {m}) \cup {k \in dirs \cap Keys : ModuleOf[k] = m}
    /\ UNCHANGED <<store, watch, main, leaves, queue, processed, ready, job, graph, built, lost>>

\* A version.json that is not there yet is skipped.
ScanAddNode ==
    /\ main = "graph"
    /\ \E k \in todo \cap Keys :
         /\ todo' = todo \ {k}
         /\ IF content[k] = 0 THEN UNCHANGED graph ELSE AddNode(k, declared[k])
    /\ UNCHANGED <<store, watch, main, leaves, queue, processed, ready, job, built, lost>>

ScanGraphDone ==
    /\ main = "graph" /\ todo = {}
    /\ main' = "leaves" /\ todo' = Found
    /\ UNCHANGED <<store, watch, leaves, queue, processed, ready, job, graph, built, lost>>

\* Only versions nothing depends on are picked.
ScanLeaf ==
    /\ main = "leaves"
    /\ \E k \in todo \cap Keys :
         /\ todo' = todo \ {k}
         /\ IF GetDependentsTree(k) = {}
            THEN leaves' = leaves \cup {k} /\ UNCHANGED lost
            ELSE lost' = [lost EXCEPT ![k] = @ \cup {"notLeaf"}] /\ UNCHANGED leaves
    /\ UNCHANGED <<store, watch, main, queue, processed, ready, job, graph, built>>

ScanLeavesDone ==
    /\ main = "leaves" /\ todo = {}
    /\ main' = "enqueue" /\ todo' = leaves
    /\ UNCHANGED <<store, watch, leaves, queue, processed, ready, job, graph, built, lost>>

\* The i-th leaf, in map order, is queued with an additional delay of i units.
ScanEnqueue ==
    /\ main = "enqueue" /\ todo # {}
    /\ \E k \in todo :
         /\ todo' = todo \ {k}
         /\ LET i == Cardinality(leaves \ todo)
            IN  QueueRecompilation(k, IF i < MaxAge THEN i ELSE MaxAge)
    /\ UNCHANGED <<store, watch, main, leaves, processed, ready, job, graph, built>>

ScanDone ==
    /\ main = "enqueue" /\ todo = {}
    /\ main' = "watch"
    /\ UNCHANGED <<store, watch, todo, leaves, queue, processed, ready, job, graph, built, lost>>

HandleWrite(k) ==
    /\ main = "watch" /\ written[k] > 0
    /\ written' = [written EXCEPT ![k] = @ - 1]
    /\ QueueRecompilation(k, 0)
    /\ UNCHANGED <<store, watched, created, scan, processed, ready, job, graph, built>>

HandleCreate ==
    /\ main = "watch"
    /\ \E d \in created : created' = created \ {d} /\ watched' = watched \cup {d}
    /\ UNCHANGED <<store, written, scan, queue, processed, ready, job, graph, built, lost>>
-----------------------------------------------------------------------------
(* The queue goroutine.                                                    *)
\* Mutant: the whole queue is emptied, not only what is due.
CheckQueueClears ==
    /\ ready = {} /\ job = Idle
    /\ LET due == {k \in Keys : queue[k] # NoEntry /\ queue[k] >= Delay}
       IN  /\ due # {}
           /\ ready' = due
           /\ queue' = [k \in Keys |-> NoEntry]
           /\ processed' = [k \in Keys |-> IF k \in due THEN 0 ELSE processed[k]]
    /\ UNCHANGED <<store, watch, scan, job, graph, built, lost>>

CheckQueue ==
    /\ ready = {} /\ job = Idle
    /\ LET due == {k \in Keys : queue[k] # NoEntry /\ queue[k] >= Delay}
       IN  /\ due # {}
           /\ ready' = due
           /\ queue' = [k \in Keys |-> IF k \in due THEN NoEntry ELSE queue[k]]
           /\ processed' = [k \in Keys |-> IF k \in due THEN 0 ELSE processed[k]]
    /\ UNCHANGED <<store, watch, scan, job, graph, built, lost>>

\* Mutant: the error of GetVersion is tested the wrong way round.
CompileReadInverted ==
    /\ job = Idle
    /\ \E k \in ready :
         /\ ready' = ready \ {k}
         /\ IF content[k] # 0
            THEN UNCHANGED <<job, lost>>
            ELSE /\ job' = [Idle EXCEPT !.key = k, !.at = "graph", !.own = content[k],
                                        !.decl = declared[k]]
                 /\ lost' = [lost EXCEPT ![k] = {}]
    /\ UNCHANGED <<store, watch, scan, queue, processed, graph, built>>

\* compile begins with GetVersion; a version that cannot be read is dropped.
CompileRead ==
    /\ job = Idle
    /\ \E k \in ready :
         /\ ready' = ready \ {k}
         /\ IF content[k] = 0
            THEN UNCHANGED <<job, lost>>
            ELSE /\ job' = [Idle EXCEPT !.key = k, !.at = "graph", !.own = content[k],
                                        !.decl = declared[k]]
                 /\ lost' = [lost EXCEPT ![k] = {}]
    /\ UNCHANGED <<store, watch, scan, queue, processed, graph, built>>

CompileAddNode ==
    /\ job.at = "graph"
    /\ AddNode(job.key, job.decl)
    /\ job' = [job EXCEPT !.at = "generate"]
    /\ UNCHANGED <<store, watch, scan, queue, processed, ready, built, lost>>

\* compileWithGenerator reads the dependencies from the store; one that is
\* missing is left out.  A failed generation is logged and not saved.  One
\* language stands for the loop over all of them.
CompileGenerate ==
    /\ job.at = "generate"
    /\ \/ /\ job' = [job EXCEPT !.at = "save", !.saw = {<<d, content[d]>> : d \in {d \in job.decl : content[d] # 0}}]
          /\ UNCHANGED lost
       \/ /\ MayFail
          /\ job' = [job EXCEPT !.at = "tree"]
          /\ lost' = [lost EXCEPT ![job.key] = @ \cup {"failed"}]
    /\ UNCHANGED <<store, watch, scan, queue, processed, ready, graph, built>>

\* UpdateVersion writes back the version read by CompileRead, whatever was
\* pushed since.
CompileSave ==
    /\ job.at = "save"
    /\ content' = [content EXCEPT ![job.key] = job.own]
    /\ declared' = [declared EXCEPT ![job.key] = job.decl]
    /\ built' = [built EXCEPT ![job.key] = [own |-> job.own, saw |-> job.saw]]
    /\ lost' = IF content[job.key] # job.own
               THEN [lost EXCEPT ![job.key] = @ \cup {"overwritten"}] ELSE lost
    /\ job' = [job EXCEPT !.at = "tree"]
    /\ UNCHANGED <<dirs, pushing, pushes, watch, scan, queue, processed, ready, graph>>

CompileTree ==
    /\ job.at = "tree"
    /\ job' = [job EXCEPT !.at = "notify", !.tell = GetDependentsTree(job.key)]
    /\ UNCHANGED <<store, watch, scan, queue, processed, ready, graph, built, lost>>

\* Mutants: a dependent compiled a moment ago is not told; the job is not reset.
CompileNotifySkips ==
    /\ job.at = "notify"
    /\ IF job.tell = {}
       THEN job' = Idle /\ UNCHANGED queue
       ELSE \E d \in job.tell :
              /\ job' = [job EXCEPT !.tell = @ \ {d}]
              /\ queue' = IF RecentlyProcessed(d) THEN queue ELSE [queue EXCEPT ![d] = Delay - 1]
    /\ UNCHANGED <<store, watch, scan, processed, ready, graph, built, lost>>

\* Dependents bypass processedSet: due in one unit, replacing any request.
CompileNotify ==
    /\ job.at = "notify"
    /\ IF job.tell = {}
       THEN job' = Idle /\ UNCHANGED queue
       ELSE \E d \in job.tell :
              /\ job' = [job EXCEPT !.tell = @ \ {d}]
              /\ queue' = [queue EXCEPT ![d] = Delay - 1]
    /\ UNCHANGED <<store, watch, scan, processed, ready, graph, built, lost>>
-----------------------------------------------------------------------------
CleanProcessedSet ==
    /\ \E k \in Keys : processed[k] # NoEntry /\ processed[k] > CleanAfter
    /\ processed' = [k \in Keys |-> IF processed[k] # NoEntry /\ processed[k] > CleanAfter
                                    THEN NoEntry ELSE processed[k]]
    /\ UNCHANGED <<store, watch, scan, queue, ready, job, graph, built, lost>>

Older(age) == IF age = NoEntry THEN NoEntry ELSE IF age < MaxAge THEN age + 1 ELSE age

\* 500 ms pass.  The notify loop takes far less than that.
Tick ==
    /\ job.at # "notify"
    /\ \E k \in Keys : Older(queue[k]) # queue[k] \/ Older(processed[k]) # processed[k]
    /\ queue' = [k \in Keys |-> Older(queue[k])]
    /\ processed' = [k \in Keys |-> Older(processed[k])]
    /\ UNCHANGED <<store, watch, scan, ready, job, graph, built, lost>>

Push(k) == PushStart(k) \/ PushMkdir(k) \/ PushJson(k) \/ PushProto(k)
Main == \/ ScanReadDir \/ ScanAddNode \/ ScanGraphDone \/ ScanLeaf \/ ScanLeavesDone \/ ScanEnqueue
        \/ ScanDone \/ HandleCreate \/ \E k \in Keys : HandleWrite(k)
Compile == \/ CompileRead \/ CompileAddNode \/ CompileGenerate \/ CompileSave
           \/ CompileTree \/ CompileNotify

Next ==
    \/ \E m \in Modules : CreateModule(m)
    \/ \E k \in Keys : Push(k)
    \/ Main \/ CheckQueue \/ Compile \/ CleanProcessedSet \/ Tick

\* The Go scheduler runs every ready goroutine, and time passes.
Fairness ==
    /\ WF_vars(Main) /\ WF_vars(CheckQueue) /\ WF_vars(Compile) /\ WF_vars(Tick)
    /\ \A k \in Keys : WF_vars(PushMkdir(k) \/ PushJson(k) \/ PushProto(k))

Spec == Init /\ [][Next]_vars
FairSpec == Spec /\ Fairness
-----------------------------------------------------------------------------
TypeOK ==
    /\ content \in [Keys -> Nat] /\ declared \in [Keys -> SUBSET Keys]
    /\ pushing \in [Keys -> {"none", "mkdir", "json", "proto"}]
    /\ pushes \in Nat
    /\ dirs \subseteq Dirs /\ watched \subseteq dirs /\ created \subseteq dirs
    /\ written \in [Keys -> Nat]
    /\ main \in Phases /\ todo \subseteq Keys \cup Modules /\ leaves \subseteq Keys
    /\ main \in {"enqueue", "watch"} => todo \subseteq Keys
    /\ queue \in [Keys -> Nat \cup {NoEntry}]
    /\ processed \in [Keys -> Nat \cup {NoEntry}]
    /\ ready \subseteq Keys
    /\ job \in [key : Keys \cup {NoKey}, own : Nat, decl : SUBSET Keys,
                at : {"idle", "graph", "generate", "save", "tree", "notify"},
                saw : SUBSET (Keys \X Nat), tell : SUBSET Keys]
    /\ job.at # "idle" => job.key \in Keys
    /\ nodes \subseteq Keys
    /\ deps \in [Keys -> SUBSET Keys] /\ dependents \in [Keys -> SUBSET Keys]
    /\ built \in [Keys -> [own : Nat, saw : SUBSET (Keys \X Nat)]]
    /\ lost \in [Keys -> SUBSET Reasons]

\* The two directions of every edge agree, whatever sequence of AddNode calls
\* the scan and the compile loop made: re-adding a version drops it from the
\* dependents of every dependency it no longer has.
GraphConsistent ==
    /\ \A k, d \in Keys : d \in deps[k] <=> k \in dependents[d]
    /\ \A k \in Keys : deps[k] \cup dependents[k] # {} => k \in nodes

Fresh(k) == content[k] # 0 /\ built[k].own = content[k]

\* The change in version.json is still on its way to the compiler.
UnderWay(k) ==
    \/ pushing[k] # "none" \/ written[k] > 0
    \/ main = "graph" /\ ModuleOf[k] \in Found
    \/ main = "leaves" /\ (k \in todo \cup leaves \/ ModuleOf[k] \in todo)
    \/ main = "enqueue" /\ k \in todo
    \/ queue[k] # NoEntry \/ k \in ready
    \/ job.key = k /\ job.at \in {"graph", "generate", "save"} /\ job.own = content[k]

\* A version that is not compiled as it stands is on its way to compile, or
\* was dropped at one of five known places: skipped as recently processed,
\* written in a directory not watched yet, not a leaf of the startup scan, a
\* failed generation, or overwritten by UpdateVersion.
NoSilentLoss ==
    \A k \in Keys : content[k] # 0 /\ ~Fresh(k) => UnderWay(k) \/ lost[k] # {}

\* Once a version and a dependent of it are both compiled as they stand and
\* nothing is pending for either, the dependent was compiled against the
\* current content of its dependency.
DependentsFollow ==
    \A k, d \in Keys :
        /\ Fresh(k) /\ Fresh(d) /\ k \in declared[d]
        /\ queue[d] = NoEntry /\ d \notin ready /\ job.key \notin {k, d} /\ lost[d] = {}
        => <<k, content[k]>> \in built[d].saw

\* A queued version reaches compile: requests are replaced and re-dated by
\* later events and by dependency cycles, never dropped.
QueuedIsCompiled ==
    \A k \in Keys : (queue[k] # NoEntry) ~> (job.key = k \/ content[k] = 0)

=============================================================================
