--------------------------- MODULE SprocketProofs ---------------------------
(***************************************************************************)
(* Sprocket for any set of module versions, dependency lists, delays and   *)
(* number of pushes: type correctness, the two directions of the           *)
(* dependency graph agree, no change is dropped silently, and dependents   *)
(* are compiled against what their dependencies are.                       *)
(***************************************************************************)
EXTENDS Sprocket, FiniteSetTheorems, TLAPS

\* A version with a version.json, or about to get one, has its directory.
ContentHasDir ==
    /\ \A k \in Keys : content[k] # 0 \/ pushing[k] \in {"json", "proto"} => k \in dirs
    /\ job.at # "idle" => job.key \in dirs

LossInv == TypeOK /\ ContentHasDir /\ NoSilentLoss

JobType == [key : Keys \cup {NoKey}, own : Nat, decl : SUBSET Keys,
            at : {"idle", "graph", "generate", "save", "tree", "notify"},
            saw : SUBSET (Keys \X Nat), tell : SUBSET Keys]
-----------------------------------------------------------------------------
\* The ages a request may be queued with are natural numbers.
LEMMA AgeFacts ==
    /\ MaxAge \in Nat /\ Delay \in Nat /\ Delay - 1 \in Nat
    /\ \A age \in Nat : Older(age) \in Nat
    /\ Older(NoEntry) = NoEntry
    /\ NoEntry \notin Nat
<1>1. MaxAge \in Nat
  BY SprocketAssumption DEF MaxAge
<1> QED
  BY <1>1, SprocketAssumption DEF Older

\* The initial state, after setupWatcher, is well typed.
LEMMA InitTypeOK == Init => TypeOK
<1> SUFFICES ASSUME Init PROVE TypeOK
  OBVIOUS
<1>1. Idle \in JobType
  BY DEF Idle, JobType
<1>2. declared \in [Keys -> SUBSET Keys]
  BY SprocketAssumption DEF Init
<1>3. Found \subseteq Modules /\ dirs \subseteq Dirs
  BY SprocketAssumption DEF Init, Found, Modules, Dirs
<1>4. built \in [Keys -> [own : Nat, saw : SUBSET (Keys \X Nat)]]
  BY DEF Init, NotBuilt
<1>5. /\ content \in [Keys -> Nat] /\ written \in [Keys -> Nat]
      /\ pushing \in [Keys -> {"none", "mkdir", "json", "proto"}]
      /\ queue \in [Keys -> Nat \cup {NoEntry}]
      /\ processed \in [Keys -> Nat \cup {NoEntry}]
      /\ deps \in [Keys -> SUBSET Keys] /\ dependents \in [Keys -> SUBSET Keys]
      /\ lost \in [Keys -> SUBSET Reasons]
  BY DEF Init
<1>6. job \in JobType /\ job.at = "idle"
  BY <1>1 DEF Init, Idle
<1> QED
  BY <1>2, <1>3, <1>4, <1>5, <1>6 DEF Init, TypeOK, JobType, Phases

\* AddNode keeps the maps of the graph well typed.
LEMMA AddNodeType ==
    ASSUME TypeOK, NEW k \in Keys, NEW ds \in SUBSET Keys, AddNode(k, ds)
    PROVE  /\ nodes' \subseteq Keys
           /\ deps' \in [Keys -> SUBSET Keys] /\ dependents' \in [Keys -> SUBSET Keys]
  BY DEF TypeOK, AddNode

\* A request enters the queue with a natural age, or is recorded as skipped.
LEMMA QueueType ==
    ASSUME TypeOK, NEW k \in Keys, NEW n \in Nat, QueueRecompilation(k, n)
    PROVE  /\ queue' \in [Keys -> Nat \cup {NoEntry}]
           /\ lost' \in [Keys -> SUBSET Reasons]
<1>1. lost[k] \cup {"skipped"} \in SUBSET Reasons
  BY DEF TypeOK, Reasons
<1>2. CASE RecentlyProcessed(k)
  <2>1. lost' = [lost EXCEPT ![k] = lost[k] \cup {"skipped"}] /\ queue' = queue
    BY <1>2 DEF QueueRecompilation
  <2> QED
    BY <1>1, <2>1 DEF TypeOK
<1>3. CASE ~RecentlyProcessed(k)
  <2>1. queue' = [queue EXCEPT ![k] = n] /\ lost' = lost
    BY <1>3 DEF QueueRecompilation
  <2> QED
    BY <2>1 DEF TypeOK
<1> QED
  BY <1>2, <1>3

\* The steps of the registry keep the types.
LEMMA PushTypeOK ==
    ASSUME TypeOK, (\E m \in Modules : CreateModule(m)) \/ \E k \in Keys : Push(k)
    PROVE  TypeOK'
<1> USE DEF TypeOK, store, watch, scan, graph
<1>1. ASSUME NEW m \in Modules, CreateModule(m) PROVE TypeOK'
  BY <1>1 DEF CreateModule, Mkdir, Dirs
<1>2. ASSUME NEW k \in Keys, PushStart(k) PROVE TypeOK'
  BY <1>2 DEF PushStart
<1>3. ASSUME NEW k \in Keys, PushMkdir(k) PROVE TypeOK'
  <2>1. ModuleOf[k] \in Dirs /\ VersionsDir(ModuleOf[k]) \in Dirs /\ k \in Dirs
    BY DEF Dirs, Modules
  <2>2. /\ dirs' \subseteq Dirs /\ dirs \subseteq dirs' /\ created' \subseteq dirs'
        /\ pushing' \in [Keys -> {"none", "mkdir", "json", "proto"}]
    BY <1>3, <2>1 DEF PushMkdir, Mkdir
  <2> QED
    BY <1>3, <2>2 DEF PushMkdir
<1>4. ASSUME NEW k \in Keys, PushJson(k) PROVE TypeOK'
  BY <1>4, SprocketAssumption DEF PushJson
<1>5. ASSUME NEW k \in Keys, PushProto(k) PROVE TypeOK'
  <2>1. lost[k] \cup {"unwatched"} \in SUBSET Reasons
    BY DEF Reasons
  <2>2. \/ lost' = lost /\ written' = [written EXCEPT ![k] = written[k] + 1]
        \/ lost' = [lost EXCEPT ![k] = lost[k] \cup {"unwatched"}] /\ written' = written
    BY <1>5 DEF PushProto
  <2>3. lost' \in [Keys -> SUBSET Reasons]
    <3>1. lost' = lost \/ lost' = [lost EXCEPT ![k] = lost[k] \cup {"unwatched"}]
      BY <2>2
    <3> QED
      BY <2>1, <3>1
  <2>5. written' \in [Keys -> Nat]
    <3>1. written' = written \/ written' = [written EXCEPT ![k] = written[k] + 1]
      BY <2>2
    <3> QED
      BY <3>1
  <2>4. pushing' \in [Keys -> {"none", "mkdir", "json", "proto"}]
    BY <1>5 DEF PushProto
  <2> QED
    BY <1>5, <2>3, <2>4, <2>5 DEF PushProto
<1> QED
  BY <1>1, <1>2, <1>3, <1>4, <1>5 DEF Push

\* The startup scan and the event loop keep the types.
LEMMA MainTypeOK == ASSUME TypeOK, Main PROVE TypeOK'
<1> USE DEF store, watch, scan, graph
<1>0. Found \subseteq Modules
  BY SprocketAssumption DEF Found, Modules
<1>1. CASE ScanReadDir
  BY <1>1 DEF ScanReadDir, TypeOK
<1>2. CASE ScanAddNode
  <2> PICK k \in todo \cap Keys :
         /\ todo' = todo \ {k}
         /\ IF content[k] = 0 THEN UNCHANGED graph ELSE AddNode(k, declared[k])
    BY <1>2 DEF ScanAddNode
  <2>1. declared[k] \in SUBSET Keys
    BY DEF TypeOK
  <2>2. /\ nodes' \subseteq Keys
        /\ deps' \in [Keys -> SUBSET Keys] /\ dependents' \in [Keys -> SUBSET Keys]
    <3>1. CASE content[k] = 0
      BY <3>1 DEF TypeOK
    <3>2. CASE content[k] # 0
      BY <2>1, <3>2, AddNodeType
    <3> QED
      BY <3>1, <3>2
  <2> QED
    BY <1>2, <2>2 DEF ScanAddNode, TypeOK
<1>3. CASE ScanGraphDone
  BY <1>0, <1>3 DEF ScanGraphDone, TypeOK, Phases
<1>4. CASE ScanLeaf
  BY <1>4 DEF ScanLeaf, TypeOK, Reasons
<1>5. CASE ScanLeavesDone
  BY <1>5 DEF ScanLeavesDone, TypeOK, Phases
<1>6. CASE ScanEnqueue
  <2> DEFINE i == Cardinality(leaves \ todo)
             age == IF i < MaxAge THEN i ELSE MaxAge
  <2> PICK k \in todo : todo' = todo \ {k} /\ QueueRecompilation(k, age)
    BY <1>6 DEF ScanEnqueue
  <2>1. i \in Nat
    <3>1. IsFiniteSet(leaves \ todo)
      BY SprocketAssumption, FS_Subset DEF TypeOK
    <3> QED
      BY <3>1, FS_CardinalityType
  <2>2. age \in Nat
    BY <2>1, AgeFacts
  <2> HIDE DEF age
  <2>3. k \in Keys
    BY <1>6 DEF ScanEnqueue, TypeOK
  <2>4. /\ queue' \in [Keys -> Nat \cup {NoEntry}]
        /\ lost' \in [Keys -> SUBSET Reasons]
    BY <2>2, <2>3, QueueType
  <2> QED
    BY <1>6, <2>4 DEF ScanEnqueue, TypeOK
<1>7. CASE ScanDone
  BY <1>7 DEF ScanDone, TypeOK, Phases
<1>8. CASE HandleCreate
  BY <1>8 DEF HandleCreate, TypeOK
<1>9. ASSUME NEW k \in Keys, HandleWrite(k) PROVE TypeOK'
  <2>1. /\ queue' \in [Keys -> Nat \cup {NoEntry}]
        /\ lost' \in [Keys -> SUBSET Reasons]
    BY <1>9, QueueType DEF HandleWrite
  <2>2. written' \in [Keys -> Nat]
    BY <1>9 DEF HandleWrite, TypeOK
  <2> QED
    BY <1>9, <2>1, <2>2 DEF HandleWrite, TypeOK
<1> QED
  BY <1>1, <1>2, <1>3, <1>4, <1>5, <1>6, <1>7, <1>8, <1>9 DEF Main

\* The queue goroutine, the clean-up ticker and the clock keep the types.
LEMMA QueueLoopTypeOK ==
    ASSUME TypeOK, CheckQueue \/ Compile \/ CleanProcessedSet \/ Tick PROVE TypeOK'
<1> USE DEF store, watch, scan, graph
<1>0. job \in JobType /\ (job.at # "idle" => job.key \in Keys)
  BY DEF TypeOK, JobType
<1>1. CASE CheckQueue
  BY <1>1 DEF CheckQueue, TypeOK
<1>2. CASE CompileRead
  <2> PICK k \in ready :
         /\ ready' = ready \ {k}
         /\ IF content[k] = 0
            THEN UNCHANGED <<job, lost>>
            ELSE /\ job' = [Idle EXCEPT !.key = k, !.at = "graph", !.own = content[k],
                                        !.decl = declared[k]]
                 /\ lost' = [lost EXCEPT ![k] = {}]
    BY <1>2 DEF CompileRead
  <2>1. k \in Keys /\ content[k] \in Nat /\ declared[k] \in SUBSET Keys
    BY DEF TypeOK
  <2>2. job' \in JobType /\ (job'.at # "idle" => job'.key \in Keys)
    BY <1>0, <2>1 DEF JobType, Idle
  <2>3. lost' \in [Keys -> SUBSET Reasons]
    BY <2>1 DEF TypeOK
  <2> QED
    BY <1>2, <2>2, <2>3 DEF CompileRead, TypeOK, JobType
<1>3. CASE CompileAddNode
  <2>1. job.key \in Keys /\ job.decl \in SUBSET Keys
    BY <1>0, <1>3 DEF CompileAddNode, JobType
  <2>2. /\ nodes' \subseteq Keys
        /\ deps' \in [Keys -> SUBSET Keys] /\ dependents' \in [Keys -> SUBSET Keys]
    BY <1>3, <2>1, AddNodeType DEF CompileAddNode
  <2>3. job' \in JobType /\ job'.key \in Keys
    BY <1>0, <1>3, <2>1 DEF CompileAddNode, JobType
  <2> QED
    BY <1>3, <2>2, <2>3 DEF CompileAddNode, TypeOK, JobType
<1>4. CASE CompileGenerate
  <2>1. job.key \in Keys /\ job.decl \in SUBSET Keys
    BY <1>0, <1>4 DEF CompileGenerate, JobType
  <2>2. {<<d, content[d]>> : d \in {d \in job.decl : content[d] # 0}} \in SUBSET (Keys \X Nat)
    BY <2>1 DEF TypeOK
  <2>3. lost[job.key] \cup {"failed"} \in SUBSET Reasons
    BY <2>1 DEF TypeOK, Reasons
  <2>4. job' \in JobType /\ job'.key \in Keys
    BY <1>0, <1>4, <2>1, <2>2 DEF CompileGenerate, JobType
  <2>5. lost' = lost \/ lost' = [lost EXCEPT ![job.key] = lost[job.key] \cup {"failed"}]
    BY <1>4 DEF CompileGenerate
  <2>6. lost' \in [Keys -> SUBSET Reasons]
    BY <2>3, <2>5 DEF TypeOK
  <2> QED
    BY <1>4, <2>4, <2>6 DEF CompileGenerate, TypeOK, JobType
<1>5. CASE CompileSave
  <2>1. /\ job.key \in Keys /\ job.own \in Nat /\ job.decl \in SUBSET Keys
        /\ job.saw \in SUBSET (Keys \X Nat)
    BY <1>0, <1>5 DEF CompileSave, JobType
  <2>2. job' \in JobType /\ job'.key \in Keys
    BY <1>0, <1>5, <2>1 DEF CompileSave, JobType
  <2>3. content' \in [Keys -> Nat] /\ declared' \in [Keys -> SUBSET Keys]
    BY <1>5, <2>1 DEF CompileSave, TypeOK
  <2>4. built' \in [Keys -> [own : Nat, saw : SUBSET (Keys \X Nat)]]
    BY <1>5, <2>1 DEF CompileSave, TypeOK
  <2>5. lost' \in [Keys -> SUBSET Reasons]
    <3>1. lost[job.key] \cup {"overwritten"} \in SUBSET Reasons
      BY <2>1 DEF TypeOK, Reasons
    <3>2. lost' = lost \/ lost' = [lost EXCEPT ![job.key] = lost[job.key] \cup {"overwritten"}]
      BY <1>5 DEF CompileSave
    <3> QED
      BY <3>1, <3>2 DEF TypeOK
  <2> QED
    BY <1>5, <2>2, <2>3, <2>4, <2>5 DEF CompileSave, TypeOK, JobType
<1>6. CASE CompileTree
  <2>1. job.key \in Keys /\ GetDependentsTree(job.key) \in SUBSET Keys
    BY <1>0, <1>6 DEF CompileTree, GetDependentsTree
  <2>2. job' \in JobType /\ job'.key \in Keys
    BY <1>0, <1>6, <2>1 DEF CompileTree, JobType
  <2> QED
    BY <1>6, <2>2 DEF CompileTree, TypeOK, JobType
<1>7. CASE CompileNotify
  <2>1. job' \in JobType /\ (job'.at # "idle" => job'.key \in Keys)
    BY <1>0, <1>7 DEF CompileNotify, JobType, Idle
  <2>2. queue' \in [Keys -> Nat \cup {NoEntry}]
    BY <1>0, <1>7, AgeFacts DEF CompileNotify, JobType, TypeOK
  <2> QED
    BY <1>7, <2>1, <2>2 DEF CompileNotify, TypeOK, JobType
<1>8. CASE CleanProcessedSet
  BY <1>8 DEF CleanProcessedSet, TypeOK
<1>9. CASE Tick
  <2>1. /\ queue' \in [Keys -> Nat \cup {NoEntry}]
        /\ processed' \in [Keys -> Nat \cup {NoEntry}]
    BY <1>9, AgeFacts DEF Tick, TypeOK
  <2> QED
    BY <1>9, <2>1 DEF Tick, TypeOK
<1> QED
  BY <1>1, <1>2, <1>3, <1>4, <1>5, <1>6, <1>7, <1>8, <1>9 DEF Compile

\* Every step keeps the types.
LEMMA NextTypeOK == TypeOK /\ [Next]_vars => TypeOK'
<1> SUFFICES ASSUME TypeOK, [Next]_vars PROVE TypeOK'
  OBVIOUS
<1>1. CASE Next
  BY <1>1, PushTypeOK, MainTypeOK, QueueLoopTypeOK DEF Next
<1>2. CASE UNCHANGED vars
  BY <1>2 DEF vars, store, watch, scan, graph, TypeOK
<1> QED
  BY <1>1, <1>2

\* Whatever the pushers, the scan, the watcher and the compile loop do in
\* whatever order, queue, processedSet and graph hold only known versions, and
\* a running compile has a version.
THEOREM TypeCorrect == Spec => []TypeOK
<1>1. Init => TypeOK
  BY InitTypeOK
<1>2. TypeOK /\ [Next]_vars => TypeOK'
  BY NextTypeOK
<1> QED
  BY <1>1, <1>2, PTL DEF Spec
-----------------------------------------------------------------------------
\* AddNode keeps the two directions of every edge together.
LEMMA AddNodeConsistent ==
    ASSUME TypeOK, GraphConsistent, NEW k \in Keys, NEW ds \in SUBSET Keys, AddNode(k, ds)
    PROVE  GraphConsistent'
<1>1. ASSUME NEW x \in Keys, NEW d \in Keys
      PROVE  d \in deps'[x] <=> x \in dependents'[d]
  <2>1. CASE x = k
    BY <2>1 DEF TypeOK, GraphConsistent, AddNode
  <2>2. CASE x # k
    BY <2>2 DEF TypeOK, GraphConsistent, AddNode
  <2> QED
    BY <2>1, <2>2
<1>2. ASSUME NEW x \in Keys, deps'[x] \cup dependents'[x] # {}
      PROVE  x \in nodes'
  <2>1. CASE x = k \/ x \in ds
    BY <2>1 DEF AddNode
  <2>2. CASE x # k /\ x \notin ds
    BY <1>2, <2>2 DEF TypeOK, GraphConsistent, AddNode
  <2> QED
    BY <2>1, <2>2
<1> QED
  BY <1>1, <1>2 DEF GraphConsistent

\* Only the scan and CompileAddNode touch the graph, both through AddNode.
LEMMA NextConsistent == TypeOK /\ GraphConsistent /\ [Next]_vars => GraphConsistent'
<1> SUFFICES ASSUME TypeOK, GraphConsistent, [Next]_vars PROVE GraphConsistent'
  OBVIOUS
<1>1. CASE ScanAddNode
  <2> PICK k \in todo \cap Keys :
         IF content[k] = 0 THEN UNCHANGED graph ELSE AddNode(k, declared[k])
    BY <1>1 DEF ScanAddNode
  <2>1. declared[k] \in SUBSET Keys
    BY DEF TypeOK
  <2>2. CASE content[k] = 0
    BY <2>2 DEF graph, GraphConsistent
  <2>3. CASE content[k] # 0
    BY <2>1, <2>3, AddNodeConsistent
  <2> QED
    BY <2>2, <2>3
<1>2. CASE CompileAddNode
  <2>1. job.key \in Keys /\ job.decl \in SUBSET Keys
    BY <1>2 DEF CompileAddNode, TypeOK
  <2> QED
    BY <1>2, <2>1, AddNodeConsistent DEF CompileAddNode
<1>3. CASE UNCHANGED graph
  BY <1>3 DEF graph, GraphConsistent
<1>4. ScanAddNode \/ CompileAddNode \/ UNCHANGED graph
  BY DEF Next, vars, graph, CreateModule, Push, PushStart, PushMkdir, PushJson, PushProto,
         Main, ScanReadDir, ScanGraphDone, ScanLeaf, ScanLeavesDone, ScanEnqueue, ScanDone,
         HandleCreate, HandleWrite, CheckQueue, Compile, CompileRead, CompileGenerate,
         CompileSave, CompileTree, CompileNotify, CleanProcessedSet, Tick
<1> QED
  BY <1>1, <1>2, <1>3, <1>4

\* For any sequence of AddNode calls, by the startup scan and the compile loop
\* running beside it, a version is among the dependents of another exactly when
\* it depends on it: compile never notifies a former dependent.
THEOREM GraphStaysConsistent == Spec => []GraphConsistent
<1>1. Init => GraphConsistent
  BY DEF Init, GraphConsistent
<1>2. TypeOK /\ GraphConsistent /\ [Next]_vars => GraphConsistent'
  BY NextConsistent
<1> QED
  BY <1>1, <1>2, TypeCorrect, PTL DEF Spec
-----------------------------------------------------------------------------
\* Directories are never removed, and version.json is written into one.
LEMMA NextContentHasDir == TypeOK /\ ContentHasDir /\ [Next]_vars => ContentHasDir'
<1> SUFFICES ASSUME TypeOK, ContentHasDir, [Next]_vars PROVE ContentHasDir'
  OBVIOUS
<1> USE DEF ContentHasDir, store, watch, scan, graph
<1>1. ASSUME NEW m \in Modules, CreateModule(m) PROVE ContentHasDir'
  BY <1>1 DEF CreateModule, Mkdir
<1>2. ASSUME NEW k \in Keys, PushStart(k) PROVE ContentHasDir'
  BY <1>2 DEF PushStart, TypeOK
<1>3. ASSUME NEW k \in Keys, PushMkdir(k) PROVE ContentHasDir'
  BY <1>3 DEF PushMkdir, Mkdir, TypeOK
<1>4. ASSUME NEW k \in Keys, PushJson(k) PROVE ContentHasDir'
  BY <1>4 DEF PushJson, TypeOK
<1>5. ASSUME NEW k \in Keys, PushProto(k) PROVE ContentHasDir'
  BY <1>5 DEF PushProto, TypeOK
<1>6. CASE CompileRead
  <2>1. job' = job \/ \E k \in ready : content[k] # 0 /\ job'.key = k
    BY <1>6 DEF CompileRead, Idle
  <2>2. job'.at # "idle" => job'.key \in dirs
    BY <2>1 DEF TypeOK
  <2> QED
    BY <1>6, <2>2 DEF CompileRead
<1>7. CASE CompileSave
  BY <1>7 DEF CompileSave, TypeOK
<1>8. CASE CompileNotify
  BY <1>8 DEF CompileNotify, TypeOK, Idle
<1>9. CASE CompileAddNode \/ CompileGenerate \/ CompileTree
  BY <1>9 DEF CompileAddNode, CompileGenerate, CompileTree, TypeOK
<1>10. CASE Main \/ CheckQueue \/ CleanProcessedSet \/ Tick \/ UNCHANGED vars
  BY <1>10 DEF vars, Main, ScanReadDir, ScanAddNode, ScanGraphDone, ScanLeaf, ScanLeavesDone,
       ScanEnqueue, ScanDone, HandleCreate, HandleWrite, CheckQueue, CleanProcessedSet, Tick
<1> QED
  BY <1>1, <1>2, <1>3, <1>4, <1>5, <1>6, <1>7, <1>8, <1>9, <1>10 DEF Next, Push, Compile

\* The steps of the registry lose nothing silently: a change is on its way
\* until its Write event is delivered, or is recorded as unwatched.
LEMMA PushNoLoss ==
    ASSUME TypeOK, NoSilentLoss, (\E m \in Modules : CreateModule(m)) \/ \E k \in Keys : Push(k)
    PROVE  NoSilentLoss'
<1> SUFFICES ASSUME NEW x \in Keys, (content[x] # 0 /\ ~Fresh(x))'
             PROVE  (UnderWay(x) \/ lost[x] # {})'
  BY DEF NoSilentLoss
<1> USE DEF NoSilentLoss, Fresh, UnderWay, store, watch, scan, graph
<1>1. ASSUME NEW m \in Modules, CreateModule(m) PROVE (UnderWay(x) \/ lost[x] # {})'
  BY <1>1 DEF CreateModule
<1>2. ASSUME NEW k \in Keys, PushStart(k) PROVE (UnderWay(x) \/ lost[x] # {})'
  BY <1>2 DEF PushStart, TypeOK
<1>3. ASSUME NEW k \in Keys, PushMkdir(k) PROVE (UnderWay(x) \/ lost[x] # {})'
  <2>1. pushing'[x] # "none" <=> pushing[x] # "none"
    BY <1>3 DEF PushMkdir, TypeOK
  <2> QED
    BY <1>3, <2>1 DEF PushMkdir
<1>4. ASSUME NEW k \in Keys, PushJson(k) PROVE (UnderWay(x) \/ lost[x] # {})'
  <2>1. CASE x = k
    BY <1>4, <2>1 DEF PushJson, TypeOK
  <2>2. CASE x # k
    <3>1. content'[x] = content[x] /\ pushing'[x] = pushing[x]
      BY <1>4, <2>2 DEF PushJson, TypeOK
    <3> QED
      BY <1>4, <3>1 DEF PushJson
  <2> QED
    BY <2>1, <2>2
<1>5. ASSUME NEW k \in Keys, PushProto(k) PROVE (UnderWay(x) \/ lost[x] # {})'
  <2>1. CASE x = k
    <3>1. written'[k] > 0 \/ "unwatched" \in lost'[k]
      BY <1>5 DEF PushProto, TypeOK
    <3> QED
      BY <2>1, <3>1
  <2>2. CASE x # k
    <3>1. pushing'[x] = pushing[x] /\ written'[x] = written[x] /\ lost'[x] = lost[x]
      BY <1>5, <2>2 DEF PushProto, TypeOK
    <3> QED
      BY <1>5, <3>1 DEF PushProto
  <2> QED
    BY <2>1, <2>2
<1> QED
  BY <1>1, <1>2, <1>3, <1>4, <1>5 DEF Push

\* QueueRecompilation queues the version or records that it was skipped, and
\* leaves the other versions alone.
LEMMA QueueNoLoss ==
    ASSUME TypeOK, NEW k \in Keys, NEW n \in Nat, QueueRecompilation(k, n)
    PROVE  /\ queue'[k] # NoEntry \/ lost'[k] # {}
           /\ \A x \in Keys : queue[x] # NoEntry => queue'[x] # NoEntry
           /\ \A x \in Keys : lost[x] # {} => lost'[x] # {}
<1>1. CASE RecentlyProcessed(k)
  <2>1. lost' = [lost EXCEPT ![k] = lost[k] \cup {"skipped"}] /\ queue' = queue
    BY <1>1 DEF QueueRecompilation
  <2> QED
    BY <2>1 DEF TypeOK
<1>2. CASE ~RecentlyProcessed(k)
  <2>1. queue' = [queue EXCEPT ![k] = n] /\ lost' = lost
    BY <1>2 DEF QueueRecompilation
  <2> QED
    BY <2>1, AgeFacts DEF TypeOK
<1> QED
  BY <1>1, <1>2

\* The startup scan hands every version it found from phase to phase, up to
\* the queue; what is not a leaf is recorded.
LEMMA MainNoLoss == ASSUME TypeOK, ContentHasDir, NoSilentLoss, Main PROVE NoSilentLoss'
<1> SUFFICES ASSUME NEW x \in Keys, (content[x] # 0 /\ ~Fresh(x))'
             PROVE  (UnderWay(x) \/ lost[x] # {})'
  BY DEF NoSilentLoss
<1>0. content' = content /\ pushing' = pushing /\ built' = built /\ job' = job /\ ready' = ready
  BY DEF Main, ScanReadDir, ScanAddNode, ScanGraphDone, ScanLeaf, ScanLeavesDone, ScanEnqueue,
         ScanDone, HandleCreate, HandleWrite, store
<1>a. content[x] # 0 /\ (UnderWay(x) \/ lost[x] # {})
  BY <1>0 DEF NoSilentLoss, Fresh
<1>b. ModuleOf[x] \in Modules /\ x \notin Modules
  BY SprocketAssumption DEF Modules
<1> USE DEF UnderWay, store, watch, scan, graph
<1>1. CASE ScanReadDir
  <2>1. x \in dirs
    BY <1>a DEF ContentHasDir
  <2>2. ModuleOf[x] \in todo => ModuleOf[x] \in todo' \/ x \in todo'
    BY <1>1, <2>1 DEF ScanReadDir
  <2>3. x \notin todo
    BY <1>1, <1>b DEF ScanReadDir
  <2> QED
    BY <1>0, <1>1, <1>a, <2>2, <2>3 DEF ScanReadDir
<1>2. CASE ScanAddNode
  BY <1>0, <1>2, <1>a DEF ScanAddNode
<1>3. CASE ScanGraphDone
  BY <1>0, <1>3, <1>a DEF ScanGraphDone
<1>4. CASE ScanLeaf
  <2> PICK k \in todo \cap Keys :
         /\ todo' = todo \ {k}
         /\ IF GetDependentsTree(k) = {}
            THEN leaves' = leaves \cup {k} /\ UNCHANGED lost
            ELSE lost' = [lost EXCEPT ![k] = @ \cup {"notLeaf"}] /\ UNCHANGED leaves
    BY <1>4 DEF ScanLeaf
  <2>1. k \notin Modules
    BY SprocketAssumption
  <2>a. \/ leaves' = leaves \cup {k} /\ lost' = lost
        \/ lost' = [lost EXCEPT ![k] = lost[k] \cup {"notLeaf"}] /\ leaves' = leaves
    OBVIOUS
  <2>b. lost' = [lost EXCEPT ![k] = lost[k] \cup {"notLeaf"}] =>
          lost'[x] = IF x = k THEN lost[k] \cup {"notLeaf"} ELSE lost[x]
    BY DEF TypeOK
  <2>2. x = k => x \in leaves' \/ lost'[x] # {}
    BY <2>a, <2>b
  <2>3. lost[x] # {} => lost'[x] # {}
    BY <2>a, <2>b
  <2>4. leaves \subseteq leaves'
    OBVIOUS
  <2>5. x # k => (x \in todo => x \in todo')
    OBVIOUS
  <2>6. ModuleOf[x] \in todo => ModuleOf[x] \in todo'
    BY <1>b, <2>1
  <2> QED
    BY <1>0, <1>4, <1>a, <2>2, <2>3, <2>4, <2>5, <2>6 DEF ScanLeaf
<1>5. CASE ScanLeavesDone
  BY <1>0, <1>5, <1>a DEF ScanLeavesDone
<1>6. CASE ScanEnqueue
  <2> DEFINE i == Cardinality(leaves \ todo)
             age == IF i < MaxAge THEN i ELSE MaxAge
  <2> PICK k \in todo : todo' = todo \ {k} /\ QueueRecompilation(k, age)
    BY <1>6 DEF ScanEnqueue
  <2>1. IsFiniteSet(leaves \ todo)
    BY SprocketAssumption, FS_Subset DEF TypeOK
  <2>2. age \in Nat
    BY <2>1, FS_CardinalityType, AgeFacts
  <2> HIDE DEF age
  <2>3. k \in Keys
    BY <1>6 DEF ScanEnqueue, TypeOK
  <2>4. /\ queue'[k] # NoEntry \/ lost'[k] # {}
        /\ queue[x] # NoEntry => queue'[x] # NoEntry
        /\ lost[x] # {} => lost'[x] # {}
    BY <2>2, <2>3, QueueNoLoss
  <2> QED
    BY <1>0, <1>6, <1>a, <2>4 DEF ScanEnqueue
<1>7. CASE ScanDone
  BY <1>0, <1>7, <1>a DEF ScanDone
<1>8. CASE HandleCreate
  BY <1>0, <1>8, <1>a DEF HandleCreate
<1>9. ASSUME NEW k \in Keys, HandleWrite(k) PROVE (UnderWay(x) \/ lost[x] # {})'
  <2>1. /\ queue'[k] # NoEntry \/ lost'[k] # {}
        /\ queue[x] # NoEntry => queue'[x] # NoEntry
        /\ lost[x] # {} => lost'[x] # {}
    BY <1>9, QueueNoLoss DEF HandleWrite
  <2>2. x # k => written'[x] = written[x]
    BY <1>9 DEF HandleWrite, TypeOK
  <2> QED
    BY <1>0, <1>9, <1>a, <2>1, <2>2 DEF HandleWrite
<1> QED
  BY <1>1, <1>2, <1>3, <1>4, <1>5, <1>6, <1>7, <1>8, <1>9 DEF Main

\* From the queue to the generated code: checkQueue hands over what is due,
\* compile records a failed generation, and what it saves is compiled.
LEMMA QueueLoopNoLoss ==
    ASSUME TypeOK, NoSilentLoss, CheckQueue \/ Compile \/ CleanProcessedSet \/ Tick
    PROVE  NoSilentLoss'
<1> SUFFICES ASSUME NEW x \in Keys, (content[x] # 0 /\ ~Fresh(x))'
             PROVE  (UnderWay(x) \/ lost[x] # {})'
  BY DEF NoSilentLoss
<1> USE DEF UnderWay, Fresh, NoSilentLoss, store, watch, scan, graph
<1>1. CASE CheckQueue
  <2>1. queue[x] # NoEntry => queue'[x] # NoEntry \/ x \in ready'
    BY <1>1 DEF CheckQueue, TypeOK
  <2> QED
    BY <1>1, <2>1 DEF CheckQueue
<1>2. CASE CompileRead
  <2> PICK k \in ready :
         /\ ready' = ready \ {k}
         /\ IF content[k] = 0
            THEN UNCHANGED <<job, lost>>
            ELSE /\ job' = [Idle EXCEPT !.key = k, !.at = "graph", !.own = content[k],
                                        !.decl = declared[k]]
                 /\ lost' = [lost EXCEPT ![k] = {}]
    BY <1>2 DEF CompileRead
  <2>1. CASE x = k
    <3>1. job'.key = x /\ job'.at = "graph" /\ job'.own = content[x]
      BY <1>2, <2>1 DEF CompileRead, Idle
    <3> QED
      BY <1>2, <3>1 DEF CompileRead
  <2>2. CASE x # k
    <3>1. lost'[x] = lost[x]
      BY <2>2 DEF TypeOK
    <3>2. job.at = "idle"
      BY <1>2 DEF CompileRead, Idle
    <3> QED
      BY <1>2, <2>2, <3>1, <3>2 DEF CompileRead
  <2> QED
    BY <2>1, <2>2
<1>3. CASE CompileAddNode
  <2>1. job' = [job EXCEPT !.at = "generate"] /\ job.at = "graph"
    BY <1>3 DEF CompileAddNode
  <2>2. job'.key = job.key /\ job'.own = job.own /\ job'.at = "generate"
    BY <2>1 DEF TypeOK
  <2> QED
    BY <1>3, <2>2 DEF CompileAddNode
<1>4. CASE CompileGenerate
  <2>0. job.at = "generate" /\ job.key \in Keys
    BY <1>4 DEF CompileGenerate, TypeOK
  <2>1. CASE lost' = lost /\ job'.at = "save" /\ job'.key = job.key /\ job'.own = job.own
    BY <1>4, <2>1 DEF CompileGenerate
  <2>2. CASE lost' = [lost EXCEPT ![job.key] = lost[job.key] \cup {"failed"}]
    <3>1. lost[x] # {} => lost'[x] # {}
      BY <2>0, <2>2 DEF TypeOK
    <3>2. x = job.key => lost'[x] # {}
      BY <2>2 DEF TypeOK
    <3> QED
      BY <1>4, <3>1, <3>2 DEF CompileGenerate
  <2>3. \/ lost' = lost /\ job'.at = "save" /\ job'.key = job.key /\ job'.own = job.own
        \/ lost' = [lost EXCEPT ![job.key] = lost[job.key] \cup {"failed"}]
    BY <1>4 DEF CompileGenerate, TypeOK
  <2> QED
    BY <2>1, <2>2, <2>3
<1>5. CASE CompileSave
  <2>0. job.at = "save" /\ job.key \in Keys
    BY <1>5 DEF CompileSave, TypeOK
  <2>1. CASE x = job.key
    <3>1. content'[x] = job.own /\ built'[x].own = job.own
      BY <1>5, <2>1 DEF CompileSave, TypeOK
    <3> QED
      BY <3>1
  <2>2. CASE x # job.key
    <3>1. content'[x] = content[x] /\ built'[x] = built[x]
      BY <1>5, <2>0, <2>2 DEF CompileSave, TypeOK
    <3>2. lost' = lost \/ lost' = [lost EXCEPT ![job.key] = lost[job.key] \cup {"overwritten"}]
      BY <1>5 DEF CompileSave
    <3>3. lost'[x] = lost[x]
      BY <2>2, <3>2 DEF TypeOK
    <3> QED
      BY <1>5, <2>2, <3>1, <3>3 DEF CompileSave
  <2> QED
    BY <2>1, <2>2
<1>6. CASE CompileTree
  BY <1>6 DEF CompileTree
<1>7. CASE CompileNotify
  <2>1. queue[x] # NoEntry => queue'[x] # NoEntry
    BY <1>7, AgeFacts DEF CompileNotify, TypeOK
  <2> QED
    BY <1>7, <2>1 DEF CompileNotify
<1>8. CASE CleanProcessedSet
  BY <1>8 DEF CleanProcessedSet
<1>9. CASE Tick
  <2>1. queue[x] # NoEntry => queue'[x] # NoEntry
    BY <1>9, AgeFacts DEF Tick, TypeOK
  <2> QED
    BY <1>9, <2>1 DEF Tick
<1> QED
  BY <1>1, <1>2, <1>3, <1>4, <1>5, <1>6, <1>7, <1>8, <1>9 DEF Compile

\* For any versions, dependencies, delay and number of pushes: a version that
\* is not compiled as it stands is on its way to the compiler, or was dropped at
\* one of the five places of the code that drop a change.  There is no sixth.
THEOREM NothingLostSilently == Spec => []NoSilentLoss
<1>1. Init => LossInv
  <2> SUFFICES ASSUME Init PROVE LossInv
    OBVIOUS
  <2>1. ContentHasDir
    BY DEF Init, ContentHasDir, Idle
  <2>2. ASSUME NEW k \in Keys, content[k] # 0 PROVE UnderWay(k)
    BY <2>2 DEF Init, UnderWay, Found
  <2> QED
    BY <2>1, <2>2, InitTypeOK DEF LossInv, NoSilentLoss
<1>2. LossInv /\ [Next]_vars => LossInv'
  <2> SUFFICES ASSUME LossInv, [Next]_vars PROVE LossInv'
    OBVIOUS
  <2>1. TypeOK /\ ContentHasDir /\ NoSilentLoss
    BY DEF LossInv
  <2>2. TypeOK' /\ ContentHasDir'
    BY <2>1, NextTypeOK, NextContentHasDir
  <2>3. NoSilentLoss'
    <3>1. CASE Next
      BY <2>1, <3>1, PushNoLoss, MainNoLoss, QueueLoopNoLoss DEF Next
    <3>2. CASE UNCHANGED vars
      BY <2>1, <3>2 DEF vars, store, watch, scan, graph, NoSilentLoss, Fresh, UnderWay
    <3> QED
      BY <3>1, <3>2
  <2> QED
    BY <2>2, <2>3 DEF LossInv
<1>3. LossInv => NoSilentLoss
  BY DEF LossInv
<1> QED
  BY <1>1, <1>2, <1>3, PTL DEF Spec

-----------------------------------------------------------------------------
(* A compiled dependent follows its dependency.  A pair of versions is     *)
(* followed from the save that made the dependency new to the save of the  *)
(* dependent: tree, notify, queue, ready and compile.                      *)

\* Content n of version k is older than the content its running push will write.
OlderPush(k, n) ==
    n <= pushes /\ (pushing[k] \in {"mkdir", "json"} => n < pushes)

Numbered ==
    /\ \A k \in Keys : OlderPush(k, content[k]) /\ OlderPush(k, built[k].own)
    /\ job.at # "idle" => OlderPush(job.key, job.own)

\* Nothing is queued or compiled before the startup scan has built the graph.
ScanFirst ==
    main \in {"graph", "leaves"} =>
        /\ job.at = "idle" /\ ready = {}
        /\ \A k \in Keys : queue[k] = NoEntry /\ built[k].own = 0

\* compile works on the version it read, unless a push has replaced it since.
JobSound ==
    /\ job.at \in {"graph", "generate", "save"} =>
          /\ Fresh(job.key) => job.own = content[job.key]
          /\ job.own = content[job.key] => job.decl = declared[job.key]
    /\ job.at \in {"generate", "save"} => deps[job.key] = job.decl
    /\ job.at = "save" =>
          \A k \in job.decl : k # job.key /\ Fresh(k) => <<k, content[k]>> \in job.saw

\* The graph has the edges of every compiled version.
EdgesBuilt == \A d \in Keys : Fresh(d) => deps[d] = declared[d]

\* d waits in the queue or in readyItems, or its last change was dropped.
Waiting(d) == queue[d] # NoEntry \/ d \in ready \/ lost[d] # {}

Followed ==
    \A k, d \in Keys :
        Fresh(k) /\ Fresh(d) /\ k \in declared[d] =>
            \/ Waiting(d) \/ <<k, content[k]>> \in built[d].saw
            \/ job.key = d /\ job.at \in {"graph", "generate", "save"}
            \/ job.key = k /\ job.at = "tree"
            \/ job.key = k /\ job.at = "notify" /\ d \in job.tell

FollowInv ==
    /\ TypeOK /\ GraphConsistent /\ Numbered /\ ScanFirst
    /\ JobSound /\ EdgesBuilt /\ Followed

\* The steps that leave version.json, the compilations and the pushes alone.
CalmStep ==
    \/ \E m \in Modules : CreateModule(m)
    \/ Main \/ CheckQueue \/ CleanProcessedSet \/ Tick \/ UNCHANGED vars

\* A reason recorded for one version takes none from another.
LEMMA ReasonAdded ==
    ASSUME NEW f, f \in [Keys -> SUBSET Reasons], NEW k \in Keys, NEW d \in Keys, NEW r, NEW g,
           g = [f EXCEPT ![k] = f[k] \cup {r}]
    PROVE  f[d] \subseteq g[d] /\ r \in g[k]
<1>1. g = [j \in Keys |-> IF j = k THEN f[k] \cup {r} ELSE f[j]]
  OBVIOUS
<1>2. g[d] = (IF d = k THEN f[k] \cup {r} ELSE f[d]) /\ g[k] = f[k] \cup {r}
  BY <1>1
<1> QED
  BY <1>2

\* Such a step leaves them unchanged, and no such step forgets a request.
LEMMA CalmLemma ==
    ASSUME TypeOK, CalmStep
    PROVE  /\ UNCHANGED <<content, declared, built, job, pushing, pushes>>
           /\ \A d \in Keys : Waiting(d) => Waiting(d)'
<1>1. UNCHANGED <<content, declared, built, job, pushing, pushes>>
  BY DEF CalmStep, CreateModule, Main, ScanReadDir, ScanAddNode, ScanGraphDone, ScanLeaf,
         ScanLeavesDone, ScanEnqueue, ScanDone, HandleCreate, HandleWrite, CheckQueue,
         CleanProcessedSet, Tick, vars, store
<1> SUFFICES ASSUME NEW d \in Keys, Waiting(d) PROVE Waiting(d)'
  BY <1>1
<1>2. CASE UNCHANGED <<queue, ready, lost>>
  BY <1>2 DEF Waiting
<1>3. CASE ScanLeaf
  <2> PICK k \in todo \cap Keys :
         lost' = lost \/ lost' = [lost EXCEPT ![k] = lost[k] \cup {"notLeaf"}]
    BY <1>3 DEF ScanLeaf
  <2>1. lost[d] \subseteq lost'[d]
    <3>1. lost \in [Keys -> SUBSET Reasons] /\ k \in Keys
      BY DEF TypeOK
    <3> QED
      BY <3>1, ReasonAdded
  <2>2. UNCHANGED <<queue, ready>>
    BY <1>3 DEF ScanLeaf
  <2> QED
    BY <2>1, <2>2 DEF Waiting
<1>4. ASSUME NEW k \in Keys, NEW n \in Nat, QueueRecompilation(k, n), ready' = ready
      PROVE  Waiting(d)'
  BY <1>4, QueueNoLoss DEF Waiting
<1>5. CASE ScanEnqueue
  <2> DEFINE i == Cardinality(leaves \ todo)
             age == IF i < MaxAge THEN i ELSE MaxAge
  <2> PICK k \in todo : QueueRecompilation(k, age)
    BY <1>5 DEF ScanEnqueue
  <2>1. IsFiniteSet(leaves \ todo)
    BY SprocketAssumption, FS_Subset DEF TypeOK
  <2>2. age \in Nat
    BY <2>1, FS_CardinalityType, AgeFacts
  <2> HIDE DEF age
  <2>3. k \in Keys /\ ready' = ready
    BY <1>5 DEF ScanEnqueue, TypeOK
  <2> QED
    BY <1>4, <2>2, <2>3
<1>6. ASSUME NEW k \in Keys, HandleWrite(k) PROVE Waiting(d)'
  BY <1>4, <1>6 DEF HandleWrite
<1>7. CASE CheckQueue
  BY <1>7 DEF CheckQueue, Waiting, TypeOK
<1>8. CASE Tick
  BY <1>8, AgeFacts DEF Tick, Waiting, TypeOK
<1>9. \/ UNCHANGED <<queue, ready, lost>> \/ ScanLeaf \/ ScanEnqueue
      \/ (\E k \in Keys : HandleWrite(k)) \/ CheckQueue \/ Tick
  BY DEF CalmStep, CreateModule, Main, ScanReadDir, ScanAddNode, ScanGraphDone,
         ScanLeavesDone, ScanDone, HandleCreate, CleanProcessedSet, vars
<1> QED
  BY <1>2, <1>3, <1>5, <1>6, <1>7, <1>8, <1>9

\* What PushProto does to lost.
LEMMA PushWaiting ==
    ASSUME TypeOK, NEW k \in Keys, Push(k)
    PROVE  /\ UNCHANGED <<built, job, graph, main, queue, ready>>
           /\ \A d \in Keys : Waiting(d) => Waiting(d)'
<1>1. UNCHANGED <<built, job, graph, main, queue, ready>>
  BY DEF Push, PushStart, PushMkdir, PushJson, PushProto, watch, scan
<1>2. lost' = lost \/ lost' = [lost EXCEPT ![k] = lost[k] \cup {"unwatched"}]
  BY DEF Push, PushStart, PushMkdir, PushJson, PushProto
<1>3. \A d \in Keys : lost[d] \subseteq lost'[d]
  BY <1>2 DEF TypeOK
<1> QED
  BY <1>1, <1>3 DEF Waiting

\* A push number stays older than the pushes that follow.
LEMMA OlderStays ==
    ASSUME TypeOK, [Next]_vars, NEW x \in Keys, NEW n \in Nat, OlderPush(x, n)
    PROVE  OlderPush(x, n)'
<1>1. ASSUME NEW k \in Keys, PushStart(k) PROVE OlderPush(x, n)'
  BY <1>1 DEF PushStart, OlderPush, TypeOK
<1>2. ASSUME NEW k \in Keys, PushMkdir(k) PROVE OlderPush(x, n)'
  BY <1>2 DEF PushMkdir, OlderPush, TypeOK
<1>3. ASSUME NEW k \in Keys, PushJson(k) PROVE OlderPush(x, n)'
  BY <1>3 DEF PushJson, OlderPush, TypeOK
<1>4. ASSUME NEW k \in Keys, PushProto(k) PROVE OlderPush(x, n)'
  BY <1>4 DEF PushProto, OlderPush, TypeOK
<1>5. CASE CalmStep
  BY <1>5, CalmLemma DEF OlderPush
<1>6. CASE Compile
  BY <1>6 DEF Compile, CompileRead, CompileAddNode, CompileGenerate, CompileSave, CompileTree,
              CompileNotify, store, OlderPush
<1> QED
  BY <1>1, <1>2, <1>3, <1>4, <1>5, <1>6 DEF Next, Push, CalmStep

\* The compile steps by what they do to the running job: which version and
\* which content it is about.
LEMMA CompileJob ==
    ASSUME TypeOK, Compile
    PROVE  /\ UNCHANGED <<pushing, pushes, main>>
           /\ \/ job' = Idle \/ CompileRead
              \/ job.at # "idle" /\ job'.key = job.key /\ job'.own = job.own
<1>1. UNCHANGED <<pushing, pushes, main>>
  BY DEF Compile, CompileRead, CompileAddNode, CompileGenerate, CompileSave, CompileTree,
         CompileNotify, store, scan
<1>0. job \in JobType
  BY DEF TypeOK, JobType
<1>2. CASE CompileNotify
  <2>1. job' = Idle \/ \E d \in job.tell : job' = [job EXCEPT !.tell = @ \ {d}]
    BY <1>2 DEF CompileNotify
  <2>2. job.at # "idle"
    BY <1>2 DEF CompileNotify
  <2>3. ASSUME NEW s, job' = [job EXCEPT !.tell = s] PROVE job'.key = job.key /\ job'.own = job.own
    BY <1>0, <2>3 DEF JobType
  <2> QED
    BY <1>1, <2>1, <2>2, <2>3
<1>3. CASE CompileGenerate
  BY <1>0, <1>1, <1>3 DEF CompileGenerate, JobType
<1>4. CASE CompileAddNode \/ CompileSave \/ CompileTree
  BY <1>0, <1>1, <1>4 DEF CompileAddNode, CompileSave, CompileTree, JobType
<1> QED
  BY <1>1, <1>2, <1>3, <1>4 DEF Compile

\* What CompileRead picks up.
LEMMA ReadJob ==
    ASSUME TypeOK, CompileRead
    PROVE  \E k \in ready :
              /\ k \in Keys /\ ready' = ready \ {k} /\ job.at = "idle"
              /\ \/ content[k] = 0 /\ job' = job /\ lost' = lost
                 \/ /\ job'.key = k /\ job'.at = "graph" /\ job'.own = content[k]
                    /\ job'.decl = declared[k] /\ \A d \in Keys \ {k} : lost'[d] = lost[d]
              /\ UNCHANGED <<store, queue, graph, built, main>>
<1> PICK k \in ready :
         /\ ready' = ready \ {k}
         /\ IF content[k] = 0
            THEN UNCHANGED <<job, lost>>
            ELSE /\ job' = [Idle EXCEPT !.key = k, !.at = "graph", !.own = content[k],
                                        !.decl = declared[k]]
                 /\ lost' = [lost EXCEPT ![k] = {}]
  BY DEF CompileRead
<1>1. k \in Keys
  BY DEF TypeOK
<1>2. job.at = "idle" /\ UNCHANGED <<store, queue, graph, built, main>>
  BY DEF CompileRead, Idle, scan
<1>3. \/ content[k] = 0 /\ job' = job /\ lost' = lost
      \/ /\ job'.key = k /\ job'.at = "graph" /\ job'.own = content[k]
         /\ job'.decl = declared[k] /\ \A d \in Keys \ {k} : lost'[d] = lost[d]
  <2>1. CASE content[k] = 0
    BY <2>1
  <2>2. CASE content[k] # 0
    BY <2>2 DEF Idle, TypeOK
  <2> QED
    BY <2>1, <2>2
<1> QED
  BY <1>1, <1>2, <1>3

\* Push numbers only grow, and a save writes back one read before.
LEMMA NextNumbered == TypeOK /\ Numbered /\ [Next]_vars => Numbered'
<1> SUFFICES ASSUME TypeOK, Numbered, [Next]_vars PROVE Numbered'
  OBVIOUS
<1>t. /\ \A k \in Keys : content[k] \in Nat /\ built[k].own \in Nat
      /\ job.own \in Nat /\ (job.at # "idle" => job.key \in Keys)
      /\ \A k \in Keys : content'[k] \in Nat /\ built'[k].own \in Nat
  BY NextTypeOK DEF TypeOK
<1>a. \A k \in Keys : OlderPush(k, content[k]) /\ OlderPush(k, built[k].own)
  BY DEF Numbered
<1>b. job.at # "idle" => OlderPush(job.key, job.own)
  BY DEF Numbered
<1>s. ASSUME NEW x \in Keys, NEW n \in Nat, OlderPush(x, n) PROVE OlderPush(x, n)'
  BY <1>s, OlderStays
<1>1. ASSUME NEW k \in Keys PROVE OlderPush(k, content[k])'
  <2>1. PICK n \in Nat : n = content'[k]
    BY <1>t, <1>1
  <2>2. CASE n = content[k]
    <3>1. OlderPush(k, n)'
      BY <1>a, <1>s, <1>1, <2>2
    <3> QED
      BY <2>1, <3>1 DEF OlderPush
  <2>3. CASE job.at # "idle" /\ k = job.key /\ n = job.own
    <3>1. OlderPush(k, n)'
      BY <1>b, <1>s, <1>1, <2>3
    <3> QED
      BY <2>1, <3>1 DEF OlderPush
  <2>4. CASE PushJson(k)
    BY <1>1, <2>4 DEF PushJson, OlderPush, TypeOK
  <2>5. CASE CompileSave
    <3>1. n = content[k] \/ (job.at # "idle" /\ k = job.key /\ n = job.own)
      BY <1>t, <1>1, <2>1, <2>5 DEF CompileSave, TypeOK
    <3> QED
      BY <2>2, <2>3, <3>1
  <2>6. ASSUME NEW j \in Keys \ {k}, PushJson(j) PROVE n = content[k]
    BY <1>1, <2>1, <2>6 DEF PushJson, TypeOK
  <2>7. CompileSave \/ (\E j \in Keys : PushJson(j)) \/ content' = content
    <3>1. CASE CalmStep
      BY <3>1, CalmLemma
    <3>2. CASE Compile
      BY <3>2 DEF Compile, CompileRead, CompileAddNode, CompileGenerate, CompileTree,
           CompileNotify, store
    <3>3. ASSUME NEW j \in Keys, Push(j) PROVE PushJson(j) \/ content' = content
      BY <3>3 DEF Push, PushStart, PushMkdir, PushProto
    <3> QED
      BY <3>1, <3>2, <3>3 DEF Next, CalmStep
  <2> QED
    BY <2>1, <2>2, <2>4, <2>5, <2>6, <2>7
<1>2. ASSUME NEW k \in Keys PROVE OlderPush(k, built[k].own)'
  <2>1. PICK n \in Nat : n = built'[k].own
    BY <1>t, <1>2
  <2>2. CASE n = built[k].own
    <3>1. OlderPush(k, n)'
      BY <1>a, <1>s, <1>2, <2>2
    <3> QED
      BY <2>1, <3>1 DEF OlderPush
  <2>3. CASE job.at # "idle" /\ k = job.key /\ n = job.own
    <3>1. OlderPush(k, n)'
      BY <1>b, <1>s, <1>2, <2>3
    <3> QED
      BY <2>1, <3>1 DEF OlderPush
  <2>4. CASE CompileSave
    <3>1. n = built[k].own \/ (job.at # "idle" /\ k = job.key /\ n = job.own)
      BY <1>t, <1>2, <2>1, <2>4 DEF CompileSave, TypeOK
    <3> QED
      BY <2>2, <2>3, <3>1
  <2>5. CompileSave \/ built' = built
    <3>1. CASE CalmStep
      BY <3>1, CalmLemma
    <3>2. CASE Compile
      BY <3>2 DEF Compile, CompileRead, CompileAddNode, CompileGenerate, CompileTree,
           CompileNotify
    <3>3. ASSUME NEW j \in Keys, Push(j) PROVE built' = built
      BY <3>3, PushWaiting
    <3> QED
      BY <3>1, <3>2, <3>3 DEF Next, CalmStep
  <2> QED
    BY <2>1, <2>2, <2>4, <2>5
<1>3. ASSUME job'.at # "idle" PROVE OlderPush(job.key, job.own)'
  <2>1. ASSUME NEW x \in Keys, NEW n \in Nat, OlderPush(x, n), job'.key = x, job'.own = n
        PROVE  OlderPush(job.key, job.own)'
    <3>1. OlderPush(x, n)'
      BY <1>s, <2>1
    <3> QED
      BY <2>1, <3>1 DEF OlderPush
  <2>2. CASE job' = job
    BY <1>3, <1>b, <1>t, <2>1, <2>2
  <2>3. CASE Compile
    <3>1. CASE job' = Idle
      BY <1>3, <3>1 DEF Idle
    <3>2. CASE job.at # "idle" /\ job'.key = job.key /\ job'.own = job.own
      BY <1>b, <1>t, <2>1, <3>2
    <3>3. CASE CompileRead
      <4>1. job' = job \/ \E k \in Keys : job'.key = k /\ job'.own = content[k]
        BY <3>3, ReadJob
      <4> QED
        BY <1>a, <1>t, <2>1, <2>2, <4>1
    <3> QED
      BY <2>3, <3>1, <3>2, <3>3, CompileJob
  <2>4. CASE CalmStep
    BY <2>2, <2>4, CalmLemma
  <2>5. ASSUME NEW j \in Keys, Push(j) PROVE job' = job
    BY <2>5, PushWaiting
  <2> QED
    BY <2>2, <2>3, <2>4, <2>5 DEF Next, CalmStep
<1> QED
  BY <1>1, <1>2, <1>3 DEF Numbered

\* The queue is empty until the scan fills it.
LEMMA NextScanFirst == TypeOK /\ ScanFirst /\ [Next]_vars => ScanFirst'
<1> SUFFICES ASSUME TypeOK, ScanFirst, [Next]_vars, main' \in {"graph", "leaves"} PROVE ScanFirst'
  BY DEF ScanFirst
<1>0. main \in {"graph", "leaves"}
  BY DEF Next, CreateModule, Push, PushStart, PushMkdir, PushJson, PushProto, Main, ScanReadDir,
         ScanAddNode, ScanGraphDone, ScanLeaf, ScanLeavesDone, ScanEnqueue, ScanDone, HandleCreate,
         HandleWrite, CheckQueue, Compile, CompileRead, CompileAddNode, CompileGenerate, CompileSave,
         CompileTree, CompileNotify, CleanProcessedSet, Tick, vars, scan
<1>1. /\ job.at = "idle" /\ ready = {}
      /\ \A k \in Keys : queue[k] = NoEntry /\ built[k].own = 0
  BY <1>0 DEF ScanFirst
<1>2. ~Compile
  BY <1>1 DEF Compile, CompileRead, CompileAddNode, CompileGenerate, CompileSave, CompileTree,
              CompileNotify
<1>3. ~CheckQueue
  BY <1>1 DEF CheckQueue
<1>4. UNCHANGED <<job, ready, built>>
  BY <1>0, <1>2, <1>3 DEF Next, CreateModule, Push, PushStart, PushMkdir, PushJson, PushProto, Main,
       ScanReadDir, ScanAddNode, ScanGraphDone, ScanLeaf, ScanLeavesDone, ScanEnqueue, ScanDone,
       HandleCreate, HandleWrite, CleanProcessedSet, Tick, vars
<1>5. Tick \/ queue' = queue
  BY <1>0, <1>2, <1>3 DEF Next, CreateModule, Push, PushStart, PushMkdir, PushJson, PushProto, Main,
       ScanReadDir, ScanAddNode, ScanGraphDone, ScanLeaf, ScanLeavesDone, ScanEnqueue, ScanDone,
       HandleCreate, HandleWrite, CleanProcessedSet, vars
<1>6. \A k \in Keys : queue'[k] = NoEntry
  BY <1>1, <1>5, AgeFacts DEF Tick
<1> QED
  BY <1>1, <1>4, <1>6 DEF ScanFirst

\* A push replaces at most the content of its own version, by a number newer
\* than any that was compiled: the version is no longer fresh.
LEMMA PushFresh ==
    ASSUME TypeOK, Numbered, NEW k \in Keys, Push(k), NEW x \in Keys
    PROVE  /\ \/ content'[x] = content[x] /\ declared'[x] = declared[x]
              \/ pushing[x] = "json" /\ content'[x] = pushes
           /\ Fresh(x)' => Fresh(x) /\ content'[x] = content[x] /\ declared'[x] = declared[x]
<1>1. \/ content'[x] = content[x] /\ declared'[x] = declared[x]
      \/ pushing[x] = "json" /\ content'[x] = pushes
  <2>1. CASE PushJson(k)
    <3>1. PICK ds \in DepSets :
            /\ content' = [content EXCEPT ![k] = pushes]
            /\ declared' = [declared EXCEPT ![k] = ds]
      BY <2>1 DEF PushJson
    <3> QED
      BY <2>1, <3>1 DEF PushJson, TypeOK
  <2>2. CASE ~PushJson(k)
    BY <2>2 DEF Push, PushStart, PushMkdir, PushProto
  <2> QED
    BY <2>1, <2>2
<1>2. ASSUME Fresh(x)', pushing[x] = "json", content'[x] = pushes PROVE FALSE
  <2>1. built'[x] = built[x]
    BY PushWaiting
  <2>2. built[x].own \in Nat /\ built[x].own < pushes /\ pushes \in Nat
    BY <1>2 DEF Numbered, OlderPush, TypeOK
  <2> QED
    BY <1>2, <2>1, <2>2 DEF Fresh
<1>3. built'[x] = built[x]
  BY PushWaiting
<1> QED
  BY <1>1, <1>2, <1>3 DEF Fresh

\* Only the scan changes the graph outside compile, and it is over before
\* anything is compiled.
LEMMA CalmGraph ==
    ASSUME CalmStep, ScanFirst
    PROVE  UNCHANGED graph \/ (job.at = "idle" /\ \A k \in Keys : built[k].own = 0)
<1>1. CASE ScanAddNode
  BY <1>1 DEF ScanAddNode, ScanFirst
<1>2. CASE ~ScanAddNode
  BY <1>2 DEF CalmStep, CreateModule, Main, ScanReadDir, ScanGraphDone, ScanLeaf, ScanLeavesDone,
       ScanEnqueue, ScanDone, HandleCreate, HandleWrite, CheckQueue, CleanProcessedSet, Tick, vars
<1> QED
  BY <1>1, <1>2

\* compile keeps working on the version it read.
LEMMA NextJobSound ==
    TypeOK /\ Numbered /\ ScanFirst /\ JobSound /\ [Next]_vars => JobSound'
<1> SUFFICES ASSUME TypeOK, Numbered, ScanFirst, JobSound, [Next]_vars PROVE JobSound'
  OBVIOUS
<1>t. job \in JobType /\ (job.at # "idle" => job.key \in Keys)
  BY DEF TypeOK, JobType
<1>0. ASSUME job'.at \in {"idle", "tree", "notify"} PROVE JobSound'
  BY <1>0 DEF JobSound
<1>1. CASE CalmStep
  <2>1. UNCHANGED <<content, declared, built, job>>
    BY <1>1, CalmLemma
  <2>2. CASE UNCHANGED graph
    BY <2>1, <2>2 DEF JobSound, Fresh, graph
  <2>3. CASE job.at = "idle"
    BY <1>0, <2>1, <2>3
  <2> QED
    BY <1>1, <2>2, <2>3, CalmGraph
<1>2. ASSUME NEW k \in Keys, Push(k) PROVE JobSound'
  <2>1. job' = job /\ deps' = deps
    BY <1>2, PushWaiting DEF graph
  <2>2. CASE job.at \in {"graph", "generate", "save"}
    <3>1. job.key \in Keys /\ job.decl \subseteq Keys
      BY <1>t, <2>2 DEF JobType
    <3>2. Fresh(job.key)' => job.own = content'[job.key]
      <4>1. Fresh(job.key)' => Fresh(job.key) /\ content'[job.key] = content[job.key]
        BY <1>2, <2>1, <3>1, PushFresh DEF Fresh
      <4> QED
        BY <2>2, <4>1 DEF JobSound
    <3>3. job.own = content'[job.key] => job.decl = declared'[job.key]
      <4>1. job.own \in Nat /\ pushes \in Nat /\ (pushing[job.key] = "json" => job.own < pushes)
        BY <2>2 DEF Numbered, OlderPush, TypeOK
      <4> QED
        BY <1>2, <2>2, <3>1, <4>1, PushFresh DEF JobSound
    <3>4. ASSUME job.at = "save", NEW x \in job.decl, x # job.key, Fresh(x)'
          PROVE  <<x, content'[x]>> \in job.saw
      <4>1. x \in Keys /\ Fresh(x) /\ content'[x] = content[x]
        BY <1>2, <3>1, <3>4, PushFresh
      <4> QED
        BY <3>4, <4>1 DEF JobSound
    <3>5. job.at \in {"generate", "save"} => deps[job.key] = job.decl
      BY DEF JobSound
    <3> QED
      BY <2>1, <3>2, <3>3, <3>4, <3>5 DEF JobSound
  <2>3. CASE job.at \notin {"graph", "generate", "save"}
    BY <2>1, <2>3 DEF JobSound
  <2> QED
    BY <2>2, <2>3
<1>3. CASE CompileRead
  <2>1. PICK k \in ready :
              /\ k \in Keys /\ job.at = "idle"
              /\ \/ job' = job
                 \/ /\ job'.key = k /\ job'.at = "graph" /\ job'.own = content[k]
                    /\ job'.decl = declared[k]
              /\ UNCHANGED <<content, declared>>
    BY <1>3, ReadJob DEF store
  <2> QED
    BY <1>0, <2>1 DEF JobSound
<1>4. CASE CompileAddNode
  <2>1. /\ job.at = "graph" /\ job'.at = "generate" /\ job'.key = job.key /\ job'.own = job.own
        /\ job'.decl = job.decl /\ deps'[job.key] = job.decl
        /\ UNCHANGED <<content, declared, built>>
    BY <1>t, <1>4 DEF CompileAddNode, AddNode, JobType, store, TypeOK
  <2> QED
    BY <2>1 DEF JobSound, Fresh
<1>5. CASE CompileGenerate
  <2>1. /\ job.at = "generate" /\ job'.key = job.key /\ job'.own = job.own /\ job'.decl = job.decl
        /\ UNCHANGED <<content, declared, built, deps>>
    BY <1>t, <1>5 DEF CompileGenerate, JobType, store, graph
  <2>2. \/ job'.at = "tree"
        \/ /\ job'.at = "save"
           /\ job'.saw = {<<d, content[d]>> : d \in {d \in job.decl : content[d] # 0}}
    BY <1>t, <1>5 DEF CompileGenerate, JobType
  <2>3. CASE job'.at = "tree"
    BY <1>0, <2>3
  <2>4. CASE job'.at = "save" /\ job'.saw = {<<d, content[d]>> : d \in {d \in job.decl : content[d] # 0}}
    BY <2>1, <2>4 DEF JobSound, Fresh
  <2> QED
    BY <2>2, <2>3, <2>4
<1>6. CASE CompileSave \/ CompileTree \/ CompileNotify
  <2>1. CASE CompileSave \/ CompileTree
    BY <1>0, <1>t, <2>1 DEF CompileSave, CompileTree, JobType
  <2>2. CASE CompileNotify
    <3>1. job.at = "notify" /\ (job' = Idle \/ \E s : job' = [job EXCEPT !.tell = s])
      BY <2>2, Zenon DEF CompileNotify
    <3>2. ASSUME NEW s, job' = [job EXCEPT !.tell = s] PROVE job'.at = job.at
      BY <1>t, <3>2 DEF JobType
    <3> QED
      BY <1>0, <3>1, <3>2 DEF Idle
  <2> QED
    BY <1>6, <2>1, <2>2
<1> QED
  BY <1>1, <1>2, <1>3, <1>4, <1>5, <1>6 DEF Next, CalmStep, Compile

\* The graph keeps the edges of every version that is compiled as it stands.
LEMMA NextEdgesBuilt ==
    TypeOK /\ Numbered /\ ScanFirst /\ JobSound /\ EdgesBuilt /\ [Next]_vars => EdgesBuilt'
<1> SUFFICES ASSUME TypeOK, Numbered, ScanFirst, JobSound, EdgesBuilt, [Next]_vars,
                    NEW d \in Keys, Fresh(d)'
             PROVE  deps'[d] = declared'[d]
  BY DEF EdgesBuilt
<1>t. job.at # "idle" => job.key \in Keys
  BY DEF TypeOK
<1>0. ASSUME UNCHANGED <<content[d], declared[d], built[d], deps[d]>> PROVE deps'[d] = declared'[d]
  BY <1>0 DEF EdgesBuilt, Fresh
<1>1. CASE CalmStep
  <2>1. UNCHANGED <<content, declared, built>>
    BY <1>1, CalmLemma
  <2>2. built[d].own # 0
    BY <2>1 DEF Fresh
  <2> QED
    BY <1>0, <1>1, <2>1, <2>2, CalmGraph DEF graph
<1>2. ASSUME NEW k \in Keys, Push(k) PROVE deps'[d] = declared'[d]
  BY <1>0, <1>2, PushFresh, PushWaiting DEF graph
<1>3. CASE CompileAddNode
  <2>1. /\ job.at = "graph" /\ deps' = [deps EXCEPT ![job.key] = job.decl]
        /\ UNCHANGED <<content, declared, built>>
    BY <1>3 DEF CompileAddNode, AddNode, store
  <2>2. CASE d = job.key
    <3>1. Fresh(d)
      BY <2>1 DEF Fresh
    <3>2. job.decl = declared[d]
      BY <2>1, <2>2, <3>1 DEF JobSound
    <3> QED
      BY <2>1, <2>2, <3>2 DEF TypeOK
  <2>3. CASE d # job.key
    BY <1>0, <2>1, <2>3 DEF TypeOK
  <2> QED
    BY <2>2, <2>3
<1>4. CASE CompileSave
  <2>1. /\ job.at = "save" /\ deps' = deps
        /\ content' = [content EXCEPT ![job.key] = job.own]
        /\ declared' = [declared EXCEPT ![job.key] = job.decl]
        /\ built' = [built EXCEPT ![job.key] = [own |-> job.own, saw |-> job.saw]]
    BY <1>4 DEF CompileSave, graph
  <2>2. CASE d = job.key
    BY <2>1, <2>2 DEF JobSound, TypeOK
  <2>3. CASE d # job.key
    BY <1>0, <1>t, <2>1, <2>3 DEF TypeOK
  <2> QED
    BY <2>2, <2>3
<1>5. CASE CompileRead \/ CompileGenerate \/ CompileTree \/ CompileNotify
  BY <1>0, <1>5 DEF CompileRead, CompileGenerate, CompileTree, CompileNotify, store, graph
<1> QED
  BY <1>1, <1>2, <1>3, <1>4, <1>5 DEF Next, CalmStep, Compile

\* A version is in the dependents tree of each of its dependencies.
LEMMA TreeLemma ==
    ASSUME GraphConsistent, NEW k \in Keys, NEW d \in Keys, k \in deps[d]
    PROVE  d \in GetDependentsTree(k)
  BY DEF GraphConsistent, GetDependentsTree

\* Every step keeps track of the dependents that still have to follow.
LEMMA NextFollowed ==
    TypeOK /\ GraphConsistent /\ Numbered /\ JobSound /\ EdgesBuilt /\ Followed /\ [Next]_vars
      => Followed'
<1> SUFFICES ASSUME TypeOK, GraphConsistent, Numbered, JobSound, EdgesBuilt, Followed, [Next]_vars,
                    NEW k \in Keys, NEW d \in Keys, Fresh(k)', Fresh(d)', k \in declared'[d]
             PROVE  (\/ Waiting(d) \/ <<k, content[k]>> \in built[d].saw
                     \/ job.key = d /\ job.at \in {"graph", "generate", "save"}
                     \/ job.key = k /\ job.at = "tree"
                     \/ job.key = k /\ job.at = "notify" /\ d \in job.tell)'
  BY DEF Followed
<1>t. job \in JobType /\ (job.at # "idle" => job.key \in Keys)
  BY DEF TypeOK, JobType
<1> DEFINE Goal == \/ Waiting(d) \/ <<k, content[k]>> \in built[d].saw
                   \/ job.key = d /\ job.at \in {"graph", "generate", "save"}
                   \/ job.key = k /\ job.at = "tree"
                   \/ job.key = k /\ job.at = "notify" /\ d \in job.tell
<1>0. ASSUME UNCHANGED <<content[k], content[d], declared[d], built[k], built[d]>> PROVE Goal
  BY <1>0 DEF Followed, Fresh
<1>1. CASE CalmStep
  <2>1. UNCHANGED <<content, declared, built, job>> /\ (Waiting(d) => Waiting(d)')
    BY <1>1, CalmLemma
  <2> QED
    BY <1>0, <2>1
<1>2. ASSUME NEW j \in Keys, Push(j) PROVE Goal'
  <2>1. UNCHANGED <<built, job>> /\ (Waiting(d) => Waiting(d)')
    BY <1>2, PushWaiting
  <2>2. content'[k] = content[k] /\ content'[d] = content[d] /\ declared'[d] = declared[d]
    BY <1>2, PushFresh
  <2> QED
    BY <1>0, <2>1, <2>2
<1>3. CASE CompileRead
  <2>1. PICK j \in ready :
              /\ j \in Keys /\ ready' = ready \ {j} /\ job.at = "idle"
              /\ \/ content[j] = 0 /\ job' = job /\ lost' = lost
                 \/ /\ job'.key = j /\ job'.at = "graph" /\ job'.own = content[j]
                    /\ job'.decl = declared[j] /\ \A x \in Keys \ {j} : lost'[x] = lost[x]
              /\ UNCHANGED <<store, queue, graph, built, main>>
    BY <1>3, ReadJob
  <2>2. Goal /\ content'[d] = content[d] /\ content[d] # 0 /\ UNCHANGED <<content, built>>
    BY <1>0, <2>1 DEF store, Fresh
  <2>3. CASE j = d
    BY <2>1, <2>2, <2>3
  <2>4. CASE j # d
    BY <2>1, <2>2, <2>4 DEF Waiting
  <2> QED
    BY <2>3, <2>4
<1>4. CASE CompileAddNode
  <2>1. /\ job.at = "graph" /\ job'.at = "generate" /\ job'.key = job.key
        /\ UNCHANGED <<content, declared, built, queue, ready, lost>>
    BY <1>t, <1>4 DEF CompileAddNode, JobType, store
  <2>2. Goal
    BY <1>0, <2>1
  <2> QED
    BY <2>1, <2>2 DEF Waiting
<1>5. CASE CompileGenerate
  <2>1. /\ job.at = "generate" /\ job'.key = job.key
        /\ UNCHANGED <<content, declared, built, queue, ready>>
        /\ \/ job'.at = "save" /\ lost' = lost
           \/ job'.at = "tree" /\ lost' = [lost EXCEPT ![job.key] = lost[job.key] \cup {"failed"}]
    BY <1>t, <1>5 DEF CompileGenerate, JobType, store
  <2>2. Goal
    BY <1>0, <2>1
  <2>t. lost \in [Keys -> SUBSET Reasons] /\ job.key \in Keys
    BY <2>1 DEF TypeOK
  <2>3. lost[d] \subseteq lost'[d]
    BY <2>t, <2>1, ReasonAdded
  <2>4. lost' = [lost EXCEPT ![job.key] = lost[job.key] \cup {"failed"}] /\ job.key = d
          => lost'[d] # {}
    BY <2>t, ReasonAdded
  <2> QED
    BY <2>1, <2>2, <2>3, <2>4 DEF Waiting
<1>6. CASE CompileSave
  <2>1. /\ job.at = "save" /\ job'.key = job.key /\ job'.at = "tree"
        /\ content' = [content EXCEPT ![job.key] = job.own]
        /\ declared' = [declared EXCEPT ![job.key] = job.decl]
        /\ built' = [built EXCEPT ![job.key] = [own |-> job.own, saw |-> job.saw]]
        /\ UNCHANGED <<queue, ready>>
    BY <1>t, <1>6 DEF CompileSave, JobType
  <2>2. lost[d] \subseteq lost'[d]
    <3>1. lost' = lost \/ lost' = [lost EXCEPT ![job.key] = lost[job.key] \cup {"overwritten"}]
      BY <1>6 DEF CompileSave
    <3> QED
      BY <3>1 DEF TypeOK
  <2>3. CASE job.key = k
    BY <2>1, <2>3
  <2>4. CASE job.key # k /\ job.key = d
    <3>1. declared'[d] = job.decl /\ built'[d].saw = job.saw
      BY <2>1, <2>4 DEF TypeOK
    <3>2. content'[k] = content[k] /\ built'[k] = built[k]
      BY <1>t, <2>1, <2>4 DEF TypeOK
    <3>3. Fresh(k)
      BY <3>2 DEF Fresh
    <3>4. <<k, content[k]>> \in job.saw
      BY <2>1, <2>4, <3>1, <3>3 DEF JobSound
    <3> QED
      BY <3>1, <3>2, <3>4
  <2>5. CASE job.key \notin {k, d}
    <3>1. UNCHANGED <<content[k], content[d], declared[d], built[k], built[d]>>
      BY <1>t, <2>1, <2>5 DEF TypeOK
    <3>2. Goal
      BY <1>0, <3>1
    <3>3. Waiting(d) \/ <<k, content[k]>> \in built[d].saw
      BY <2>5, <3>2
    <3> QED
      BY <2>1, <2>2, <3>1, <3>3 DEF Waiting
  <2> QED
    BY <2>3, <2>4, <2>5
<1>7. CASE CompileTree
  <2>1. /\ job.at = "tree" /\ job'.key = job.key /\ job'.at = "notify"
        /\ job'.tell = GetDependentsTree(job.key)
        /\ UNCHANGED <<content, declared, built, queue, ready, lost>>
    BY <1>t, <1>7 DEF CompileTree, JobType, store
  <2>2. Goal
    BY <1>0, <2>1
  <2>3. CASE job.key = k
    <3>1. Fresh(d) /\ k \in declared[d]
      BY <2>1 DEF Fresh
    <3>2. d \in GetDependentsTree(k)
      BY <3>1, TreeLemma DEF EdgesBuilt
    <3> QED
      BY <2>1, <2>3, <3>2
  <2>4. CASE job.key # k
    BY <2>1, <2>2, <2>4 DEF Waiting
  <2> QED
    BY <2>3, <2>4
<1>8. CASE CompileNotify
  <2>1. job.at = "notify" /\ UNCHANGED <<content, declared, built, ready, lost>>
    BY <1>8 DEF CompileNotify, store
  <2>2. Goal
    BY <1>0, <2>1
  <2>3. \/ job.tell = {} /\ queue' = queue
        \/ \E x \in job.tell : job' = [job EXCEPT !.tell = job.tell \ {x}]
                               /\ queue' = [queue EXCEPT ![x] = Delay - 1]
    BY <1>8 DEF CompileNotify
  <2>4. CASE job.tell = {} /\ queue' = queue
    BY <2>1, <2>2, <2>4 DEF Waiting
  <2>5. ASSUME NEW x \in job.tell, job' = [job EXCEPT !.tell = job.tell \ {x}],
               queue' = [queue EXCEPT ![x] = Delay - 1]
        PROVE  Goal'
    <3>1. job'.key = job.key /\ job'.at = "notify" /\ job'.tell = job.tell \ {x}
      BY <1>t, <2>1, <2>5 DEF JobType
    <3>2. (queue[d] # NoEntry => queue'[d] # NoEntry) /\ (x = d => queue'[d] # NoEntry)
      BY <2>5, AgeFacts DEF TypeOK
    <3> QED
      BY <2>1, <2>2, <3>1, <3>2 DEF Waiting
  <2> QED
    BY <2>3, <2>4, <2>5
<1> QED
  BY <1>1, <1>2, <1>3, <1>4, <1>5, <1>6, <1>7, <1>8 DEF Next, CalmStep, Compile

\* compile tells the dependents of a version only after it saved the version,
\* while pushes replace either of them: once both are compiled as they stand
\* and nothing is pending, the dependent was generated from the dependency's
\* current content.
THEOREM DependentsAreRebuilt == Spec => []DependentsFollow
<1>1. Init => FollowInv
  <2> SUFFICES ASSUME Init PROVE FollowInv
    OBVIOUS
  <2>1. /\ \A k \in Keys : content[k] \in {0, 1} /\ built[k].own = 0 /\ pushing[k] = "none"
        /\ pushes = 1 /\ job.at = "idle"
    BY DEF Init, NotBuilt, Idle
  <2>2. Numbered
    BY <2>1 DEF Numbered, OlderPush
  <2>3. ScanFirst
    BY <2>1 DEF Init, ScanFirst
  <2>4. JobSound /\ EdgesBuilt /\ Followed
    BY <2>1 DEF JobSound, EdgesBuilt, Followed, Fresh
  <2>5. GraphConsistent
    BY DEF Init, GraphConsistent
  <2> QED
    BY <2>2, <2>3, <2>4, <2>5, InitTypeOK DEF FollowInv
<1>2. FollowInv /\ [Next]_vars => FollowInv'
  BY NextTypeOK, NextConsistent, NextNumbered, NextScanFirst, NextJobSound, NextEdgesBuilt,
     NextFollowed DEF FollowInv
<1>3. FollowInv => DependentsFollow
  BY DEF FollowInv, Followed, Waiting, DependentsFollow
<1> QED
  BY <1>1, <1>2, <1>3, PTL DEF Spec
=============================================================================
