------------------------ MODULE PostgresStoreProofs ------------------------
(***************************************************************************)
(* PostgresStorage for any number of requests, versions, files, faults and *)
(* crashes: rows never point at missing objects, GetVersion sees every     *)
(* version published before it began, the three services implement the     *)
(* version catalogue, and Replica panics only after a removal.             *)
(***************************************************************************)
EXTENDS PostgresStore, TLAPS

Steps == {"idle", "moduleId", "insert", "upload", "row", "invalidate", "selectVersion",
          "download", "list"}
Answers == {"none", "ok", "error", "noModule", "notFound", "broken", "panic", "listed"}

TypeOK ==
    /\ modules \subseteq Modules /\ moduleCache \subseteq Modules
    /\ versions \in [Keys -> Bodies \cup {None}]
    /\ cache \in [Keys -> Bodies \cup {None}]
    /\ tx \in [Procs -> (SUBSET Paths) \cup {None}]
    /\ objects \subseteq Contents
    /\ pc \in [Procs -> Steps]
    /\ key \in [Procs -> Keys]
    /\ body \in [Procs -> Bodies \cup {None}]
    /\ todo \in [Procs -> SUBSET Paths]
    /\ answer \in [Procs -> Answers]
    /\ found \in [Procs -> (Keys \X Bodies) \cup {None}]
    /\ acked \subseteq Keys
    /\ since \in [Procs -> SUBSET Keys]
    /\ started \in Nat /\ faults \in Nat

\* A transaction is open.
Writing(p) == pc[p] \in {"upload", "row"}

\* A request that creates a version: its transaction is the only one on its
\* key, which has no committed row, and every file it is done with has its
\* object in the bucket.
WriterOK(p) ==
    /\ pc[p] \in {"moduleId", "insert", "upload", "row"} => body[p] \in Bodies
    /\ tx[p] # None <=> Writing(p)
    /\ pc[p] = "upload" => tx[p] = DOMAIN body[p] \ todo[p]
    /\ Writing(p) => /\ todo[p] \subseteq DOMAIN body[p]
                     /\ \A f \in DOMAIN body[p] \ todo[p] : body[p][f] \in objects
                     /\ versions[key[p]] = None
                     /\ \A q \in Procs \ {p} : Writing(q) => key[q] # key[p]
    /\ pc[p] = "invalidate" => versions[key[p]] # None

\* A request that reads a version has the rows as they are.
ReaderOK(p) ==
    /\ pc[p] = "download" => /\ versions[key[p]] # None
                             /\ found[p] = <<key[p], versions[key[p]]>>
    /\ since[p] \subseteq acked
    /\ answer[p] = "notFound" => key[p] \notin since[p]

\* Redis holds nothing but committed versions, and only a committed version
\* was acknowledged.
CacheOK ==
    /\ \A k \in Keys : cache[k] # None => cache[k] = versions[k]
    /\ \A k \in acked : versions[k] # None

StoreInv ==
    /\ TypeOK /\ CacheOK /\ ObjectsBeforeRows
    /\ \A p \in Procs : WriterOK(p) /\ ReaderOK(p)

\* The round-robin index lies within the slice as it was counted, and within
\* the slice as it is unless that has shrunk since.
CursorInv ==
    /\ current \in Nat
    /\ call \in [Procs -> {"idle", "counted", "indexed", "got", "panicked"}]
    /\ count \in [Procs -> Nat] /\ index \in [Procs -> Nat]
    /\ shrunk \in [Procs -> BOOLEAN]
    /\ \A p \in Procs :
         /\ call[p] = "counted" =>
              count[p] > 0 /\ (~shrunk[p] => count[p] <= Len(replicas))
         /\ call[p] = "indexed" /\ ~shrunk[p] => index[p] < Len(replicas)
         /\ call[p] = "panicked" => shrunk[p]
-----------------------------------------------------------------------------
(* The connection manager.                                                 *)
\* The slice is counted at the start and is not empty when an index is taken.
LEMMA CursorBegin ==
    ASSUME CursorInv, NEW p \in Procs, ReplicaBegin(p)
    PROVE  CursorInv'
<1>1. /\ call' \in [Procs -> {"idle", "counted", "indexed", "got", "panicked"}]
      /\ count' \in [Procs -> Nat] /\ shrunk' \in [Procs -> BOOLEAN]
  BY DEF CursorInv, ReplicaBegin
<1>2. ASSUME NEW q \in Procs
      PROVE  /\ call'[q] = "counted" =>
                  count'[q] > 0 /\ (~shrunk'[q] => count'[q] <= Len(replicas'))
             /\ call'[q] = "indexed" /\ ~shrunk'[q] => index'[q] < Len(replicas')
             /\ call'[q] = "panicked" => shrunk'[q]
  <2>1. CASE q = p
    BY <2>1 DEF CursorInv, ReplicaBegin
  <2>2. CASE q # p
    BY <2>2 DEF CursorInv, ReplicaBegin
  <2> QED
    BY <2>1, <2>2
<1> QED
  BY <1>1, <1>2 DEF CursorInv, ReplicaBegin

\* The wrapping uint32 cursor modulo the count is an index below the count.
LEMMA CursorIndex ==
    ASSUME CursorInv, NEW p \in Procs, ReplicaIndex(p)
    PROVE  CursorInv'
<1> DEFINE c == (current + 1) % CounterMod
<1>1. c \in Nat /\ current' = c
  BY ConnectionAssumption DEF CursorInv, ReplicaIndex
<1>2. /\ count[p] \in Nat \ {0} /\ call[p] = "counted"
      /\ index' = [index EXCEPT ![p] = c % count[p]]
      /\ call' = [call EXCEPT ![p] = "indexed"]
      /\ UNCHANGED <<replicas, count, shrunk>>
  BY DEF CursorInv, ReplicaIndex
<1> HIDE DEF c
<1>3. c % count[p] \in Nat /\ c % count[p] < count[p]
  BY <1>1, <1>2
<1> QED
  BY <1>1, <1>2, <1>3 DEF CursorInv

\* The second critical section and the end of the call.
LEMMA CursorGetEnd ==
    ASSUME CursorInv, NEW p \in Procs, ReplicaGet(p) \/ ReplicaEnd(p)
    PROVE  CursorInv'
<1>1. CASE ReplicaGet(p)
  BY <1>1 DEF CursorInv, ReplicaGet
<1>2. CASE ReplicaEnd(p)
  BY <1>2 DEF CursorInv, ReplicaEnd
<1> QED
  BY <1>1, <1>2

\* Removals mark every call under way, additions only lengthen the slice.
LEMMA CursorMaintenance ==
    ASSUME CursorInv, Maintenance
    PROVE  CursorInv'
<1>1. CASE RemoveUnhealthyReplicas \/ CloseDetach
  <2>1. /\ shrunk' = [p \in Procs |-> call[p] # "idle"]
        /\ UNCHANGED <<current, call, count, index>>
    BY <1>1 DEF RemoveUnhealthyReplicas, CloseDetach, Shrunk
  <2>2. shrunk' \in [Procs -> BOOLEAN]
    BY <2>1
  <2>3. \A p \in Procs : call[p] # "idle" => shrunk'[p]
    BY <2>1
  <2> QED
    BY <2>1, <2>2, <2>3 DEF CursorInv
<1>2. CASE AddReplica
  BY <1>2 DEF CursorInv, AddReplica
<1>3. CASE ClosePrimary \/ CloseReplica
  BY <1>3 DEF CursorInv, ClosePrimary, CloseReplica
<1> QED
  BY <1>1, <1>2, <1>3 DEF Maintenance

\* The cursor part of every step of the server.
LEMMA CursorStep == CursorInv /\ [Next]_vars => CursorInv'
<1> SUFFICES ASSUME CursorInv, [Next]_vars PROVE CursorInv'
  OBVIOUS
<1>1. CASE UNCHANGED connVars
  BY <1>1 DEF connVars, CursorInv
<1>2. ASSUME NEW p \in Procs, Request(p) PROVE CursorInv'
  <2>1. CASE ListVersions(p)
    BY <2>1, CursorBegin DEF ListVersions
  <2>2. CASE ListConnect(p)
    BY <2>2, CursorIndex, CursorGetEnd DEF ListConnect
  <2>3. CASE ListQuery(p)
    BY <2>3, CursorGetEnd DEF ListQuery
  <2> QED
    BY <1>1, <1>2, <2>1, <2>2, <2>3
       DEF Request, CreateModule, GetModule, CreateVersion, SelectModuleId, InsertVersion,
           UploadFile, InsertFileRow, Commit, Invalidate, GetVersion, SelectVersion,
           DownloadFile, SetVersion, CallFails
<1>3. CASE Crash
  BY <1>3 DEF Crash, CursorInv
<1> QED
  BY <1>1, <1>2, <1>3, CursorMaintenance DEF Next, Environment, Expire, vars

\* Replica of the connection manager panics only when a removal or Close
\* shrank the slice between its two critical sections, for any number of
\* goroutines and replicas and across the wrap-around of the cursor.
THEOREM PanicsNeedRemoval == Spec => []PanicNeedsRemoval
<1>1. Init => CursorInv
  BY DEF Init, ConnInit, CursorInv
<1>2. CursorInv => PanicNeedsRemoval
  BY DEF CursorInv, PanicNeedsRemoval
<1> QED
  BY <1>1, <1>2, CursorStep, PTL DEF Spec
-----------------------------------------------------------------------------
(* The store.                                                              *)
\* What a push carries is a function from some of the paths to contents.
LEMMA BodyShape ==
    /\ None \notin Bodies
    /\ None \notin Keys \X Bodies
    /\ \A s \in SUBSET Paths : s # None
    /\ \A b \in Bodies : /\ DOMAIN b \subseteq Paths
                         /\ \A f \in DOMAIN b : b[f] \in Contents
                         /\ b = [f \in DOMAIN b |-> b[f]]
BY StoreAssumption

\* A request and what belongs to it, untouched by a step.
Kept(q) ==
    /\ pc'[q] = pc[q] /\ key'[q] = key[q] /\ body'[q] = body[q] /\ todo'[q] = todo[q]
    /\ tx'[q] = tx[q] /\ found'[q] = found[q] /\ since'[q] = since[q]
    /\ answer'[q] = answer[q]

\* A step of p that commits nothing keeps the invariant when it keeps its own
\* request in order and opens no second transaction on a key.
LEMMA OneRequest ==
    ASSUME StoreInv, NEW p \in Procs, \A q \in Procs \ {p} : Kept(q),
           TypeOK', CacheOK', WriterOK(p)', ReaderOK(p)',
           UNCHANGED versions, objects \subseteq objects', acked \subseteq acked',
           Writing(p)' => \A q \in Procs \ {p} : Writing(q) => key[q] # key'[p]
    PROVE  StoreInv'
<1>1. ASSUME NEW q \in Procs, q # p PROVE WriterOK(q)' /\ ReaderOK(q)'
  <2>1. Kept(q) /\ WriterOK(q) /\ ReaderOK(q)
    BY <1>1 DEF StoreInv
  <2>2. ReaderOK(q)'
    BY <2>1 DEF Kept, ReaderOK
  <2>3. ASSUME Writing(q)', NEW r \in Procs \ {q}, Writing(r)' PROVE key'[r] # key'[q]
    <3>1. CASE r = p
      BY <1>1, <2>1, <2>3, <3>1 DEF Kept, Writing
    <3>2. CASE r # p
      BY <1>1, <2>1, <2>3, <3>2 DEF Kept, Writing, WriterOK
    <3> QED
      BY <3>1, <3>2
  <2>4. WriterOK(q)'
    BY <2>1, <2>3 DEF Kept, WriterOK, Writing
  <2> QED
    BY <2>2, <2>4
<1>2. ObjectsBeforeRows'
  BY DEF StoreInv, ObjectsBeforeRows
<1> QED
  BY <1>1, <1>2 DEF StoreInv

\* A request that returns gives up its transaction and what it worked on.
LEMMA FinishEnds ==
    ASSUME TypeOK, NEW p \in Procs, NEW st \in Answers, Finish(p, st)
    PROVE  /\ tx' \in [Procs -> (SUBSET Paths) \cup {None}]
           /\ pc' \in [Procs -> Steps] /\ body' \in [Procs -> Bodies \cup {None}]
           /\ todo' \in [Procs -> SUBSET Paths] /\ answer' \in [Procs -> Answers]
           /\ WriterOK(p)' /\ pc'[p] = "idle" /\ answer'[p] = st /\ ~Writing(p)'
           /\ \A q \in Procs \ {p} :
                /\ pc'[q] = pc[q] /\ body'[q] = body[q] /\ todo'[q] = todo[q]
                /\ tx'[q] = tx[q] /\ answer'[q] = answer[q]
<1>1. /\ tx' \in [Procs -> (SUBSET Paths) \cup {None}]
      /\ pc' \in [Procs -> Steps] /\ body' \in [Procs -> Bodies \cup {None}]
      /\ todo' \in [Procs -> SUBSET Paths] /\ answer' \in [Procs -> Answers]
  BY DEF TypeOK, Finish, Goto, Steps
<1>2. pc'[p] = "idle" /\ answer'[p] = st /\ tx'[p] = None
  BY DEF TypeOK, Finish, Goto
<1>3. \A q \in Procs \ {p} :
        /\ pc'[q] = pc[q] /\ body'[q] = body[q] /\ todo'[q] = todo[q]
        /\ tx'[q] = tx[q] /\ answer'[q] = answer[q]
  BY DEF TypeOK, Finish, Goto
<1> QED
  BY <1>1, <1>2, <1>3 DEF WriterOK, Writing

\* A request that fails or ends without a word on the version's absence.
LEMMA FinishStep ==
    ASSUME StoreInv, NEW p \in Procs, NEW st \in Answers \ {"notFound"}, Finish(p, st),
           UNCHANGED <<modules, versions, objects, moduleCache, key, since, started>>,
           faults' \in Nat, acked \subseteq acked', acked' \subseteq Keys, CacheOK',
           cache' \in [Keys -> Bodies \cup {None}],
           found' \in {found, [found EXCEPT ![p] = None]}
    PROVE  StoreInv'
<1>1. TypeOK /\ ReaderOK(p)
  BY DEF StoreInv
<1>2. found' \in [Procs -> (Keys \X Bodies) \cup {None}]
      /\ \A q \in Procs \ {p} : found'[q] = found[q]
  BY <1>1 DEF TypeOK
<1>3. TypeOK'
  BY <1>1, <1>2, FinishEnds DEF TypeOK
<1>4. ReaderOK(p)'
  BY <1>1, FinishEnds DEF ReaderOK
<1>5. \A q \in Procs \ {p} : Kept(q)
  BY <1>1, <1>2, FinishEnds DEF Kept
<1>6. WriterOK(p)' /\ ~Writing(p)'
  BY <1>1, FinishEnds
<1> QED
  BY <1>3, <1>4, <1>5, <1>6, OneRequest
-----------------------------------------------------------------------------
\* The requests of CreateModuleContext, GetModuleContext and ListVersions, the
\* ones that touch no version.
LEMMA ModuleSteps ==
    ASSUME StoreInv, NEW p \in Procs,
           CreateModule(p) \/ GetModule(p) \/ ListVersions(p) \/ ListConnect(p) \/ ListQuery(p)
    PROVE  StoreInv'
<1> USE DEF db, services, request
<1>0. TypeOK /\ CacheOK /\ WriterOK(p) /\ ReaderOK(p)
  BY DEF StoreInv
<1>1. CASE CreateModule(p) \/ GetModule(p)
  <2>1. /\ UNCHANGED <<versions, tx, objects, cache, pc, key, body, todo, found, acked, since>>
        /\ answer' \in [Procs -> Answers] /\ answer'[p] # "notFound"
        /\ \A q \in Procs \ {p} : answer'[q] = answer[q]
    BY <1>0, <1>1 DEF CreateModule, GetModule, TypeOK, Answers
  <2>2. modules' \subseteq Modules /\ moduleCache' \subseteq Modules /\ started' \in Nat
    BY <1>0, <1>1 DEF CreateModule, GetModule, Start, TypeOK
  <2>3. TypeOK'
    BY <1>0, <1>1, <2>1, <2>2 DEF CreateModule, GetModule, TypeOK
  <2>4. CacheOK' /\ ReaderOK(p)'
    BY <1>0, <2>1 DEF CacheOK, ReaderOK
  <2>5. WriterOK(p)' /\ ~Writing(p)'
    BY <1>0, <1>1, <2>1 DEF WriterOK, Writing, CreateModule, GetModule, Start
  <2>6. \A q \in Procs \ {p} : Kept(q)
    BY <2>1 DEF Kept
  <2> QED
    BY <2>1, <2>3, <2>4, <2>5, <2>6, OneRequest
<1>2. CASE ListVersions(p)
  <2>1. /\ UNCHANGED <<modules, moduleCache, versions, tx, objects, cache, key, body, todo,
                       found, acked, since, faults>>
        /\ pc[p] = "idle" /\ pc' = [pc EXCEPT ![p] = "list"] /\ started' \in Nat
        /\ answer' = [answer EXCEPT ![p] = "none"]
    BY <1>0, <1>2 DEF ListVersions, Start, Goto, TypeOK
  <2>2. TypeOK'
    BY <1>0, <2>1 DEF TypeOK, Steps, Answers
  <2>3. CacheOK' /\ ReaderOK(p)'
    BY <1>0, <2>1 DEF CacheOK, ReaderOK, TypeOK
  <2>4. WriterOK(p)' /\ ~Writing(p)'
    BY <1>0, <2>1 DEF WriterOK, Writing, TypeOK
  <2>5. \A q \in Procs \ {p} : Kept(q)
    BY <1>0, <2>1 DEF Kept, TypeOK
  <2> QED
    BY <2>1, <2>2, <2>3, <2>4, <2>5, OneRequest
<1>3. CASE ListConnect(p)
  <2>1. UNCHANGED <<db, services, request, acked, since, started, faults>>
    BY <1>3 DEF ListConnect
  <2> QED
    BY <2>1 DEF StoreInv, TypeOK, CacheOK, ObjectsBeforeRows, WriterOK, ReaderOK, Writing
<1>4. CASE ListQuery(p)
  <2> DEFINE st == IF call[p] = "panicked" THEN "panic"
                   ELSE IF conn[p] \in closedConn THEN "error" ELSE "listed"
  <2>1. st \in Answers \ {"notFound"}
    BY DEF Answers
  <2>2. /\ Finish(p, st)
        /\ UNCHANGED <<modules, versions, objects, cache, moduleCache, key, found, acked, since,
                       started, faults>>
    BY <1>4 DEF ListQuery
  <2>3. CacheOK'
    BY <1>0, <2>2 DEF CacheOK
  <2> HIDE DEF st
  <2> QED
    BY <1>0, <2>1, <2>2, <2>3, FinishStep DEF TypeOK
<1> QED
  BY <1>1, <1>2, <1>3, <1>4

\* CreateVersionContext up to its transaction: the INSERT into versions waits
\* for the transaction that holds its key.
LEMMA BeginSteps ==
    ASSUME StoreInv, NEW p \in Procs,
           CreateVersion(p) \/ SelectModuleId(p) \/ InsertVersion(p)
    PROVE  StoreInv'
<1> USE DEF db, services, request
<1>0. TypeOK /\ CacheOK /\ WriterOK(p) /\ ReaderOK(p)
  BY DEF StoreInv
<1>1. CASE CreateVersion(p)
  <2>1. PICK k \in Keys, b \in Bodies : /\ key' = [key EXCEPT ![p] = k]
                                        /\ body' = [body EXCEPT ![p] = b]
    BY <1>1 DEF CreateVersion
  <2>2. /\ UNCHANGED <<modules, moduleCache, versions, tx, objects, cache, todo, found, acked,
                       since, faults>>
        /\ pc[p] = "idle" /\ pc' = [pc EXCEPT ![p] = "moduleId"] /\ started' \in Nat
        /\ answer' = [answer EXCEPT ![p] = "none"]
    BY <1>0, <1>1 DEF CreateVersion, Start, Goto, TypeOK
  <2>3. TypeOK'
    BY <1>0, <2>1, <2>2 DEF TypeOK, Steps, Answers
  <2>4. CacheOK' /\ ReaderOK(p)'
    BY <1>0, <2>2 DEF CacheOK, ReaderOK, TypeOK
  <2>5. WriterOK(p)' /\ ~Writing(p)'
    BY <1>0, <2>1, <2>2 DEF WriterOK, Writing, TypeOK
  <2>6. \A q \in Procs \ {p} : Kept(q)
    BY <1>0, <2>1, <2>2 DEF Kept, TypeOK
  <2> QED
    BY <2>2, <2>3, <2>4, <2>5, <2>6, OneRequest
<1>2. CASE SelectModuleId(p)
  <2>1. /\ UNCHANGED <<modules, moduleCache, versions, objects, cache, key, found, acked, since,
                       started, faults>>
        /\ pc[p] = "moduleId" /\ CacheOK'
    BY <1>0, <1>2 DEF SelectModuleId, CacheOK
  <2>2. CASE Finish(p, "noModule")
    BY <1>0, <2>1, <2>2, FinishStep DEF TypeOK, Answers
  <2>3. CASE Goto(p, "insert") /\ UNCHANGED <<tx, answer, body, todo>>
    <3>1. TypeOK'
      BY <1>0, <2>1, <2>3 DEF Goto, TypeOK, Steps
    <3>2. ReaderOK(p)' /\ WriterOK(p)' /\ ~Writing(p)'
      BY <1>0, <2>1, <2>3 DEF Goto, ReaderOK, WriterOK, Writing, TypeOK
    <3>3. \A q \in Procs \ {p} : Kept(q)
      BY <1>0, <2>1, <2>3 DEF Goto, Kept, TypeOK
    <3> QED
      BY <2>1, <3>1, <3>2, <3>3, OneRequest
  <2> QED
    BY <1>2, <2>2, <2>3 DEF SelectModuleId
<1>3. CASE InsertVersion(p)
  <2>1. /\ UNCHANGED <<modules, moduleCache, versions, objects, cache, key, found, acked, since,
                       started, faults>>
        /\ pc[p] = "insert" /\ CacheOK'
        /\ \A q \in Procs \ {p} : ~(tx[q] # None /\ key[q] = key[p])
    BY <1>0, <1>3 DEF InsertVersion, CacheOK
  <2>2. CASE Finish(p, "error")
    BY <1>0, <2>1, <2>2, FinishStep DEF TypeOK, Answers
  <2>3. CASE /\ versions[key[p]] = None /\ tx' = [tx EXCEPT ![p] = {}]
             /\ todo' = [todo EXCEPT ![p] = DOMAIN body[p]]
             /\ Goto(p, "upload") /\ UNCHANGED <<answer, body>>
    <3>1. body[p] \in Bodies /\ DOMAIN body[p] \subseteq Paths
      BY <1>0, <2>1, BodyShape DEF WriterOK
    <3>2. TypeOK'
      <4>1. tx' \in [Procs -> (SUBSET Paths) \cup {None}] /\ todo' \in [Procs -> SUBSET Paths]
        BY <1>0, <2>3, <3>1 DEF TypeOK
      <4> QED
        BY <1>0, <2>1, <2>3, <4>1 DEF Goto, TypeOK, Steps
    <3>3. \A q \in Procs \ {p} : Writing(q) => key[q] # key[p]
      BY <2>1 DEF StoreInv, WriterOK
    <3>4. /\ pc'[p] = "upload" /\ tx'[p] = {} /\ {} # None
          /\ todo'[p] = DOMAIN body[p] /\ body'[p] = body[p]
      BY <1>0, <2>3, BodyShape DEF Goto, TypeOK
    <3>5. \A q \in Procs \ {p} : Kept(q)
      BY <1>0, <2>1, <2>3 DEF Goto, Kept, TypeOK
    <3>6. WriterOK(p)'
      BY <2>1, <2>3, <3>1, <3>3, <3>4, <3>5 DEF WriterOK, Writing, Kept
    <3>7. ReaderOK(p)'
      BY <1>0, <2>1, <2>3, <3>4 DEF ReaderOK
    <3> QED
      BY <2>1, <3>2, <3>3, <3>5, <3>6, <3>7, OneRequest
  <2> QED
    BY <1>3, <2>2, <2>3 DEF InsertVersion
<1> QED
  BY <1>1, <1>2, <1>3

\* One file: its object is in the bucket before its row is in the transaction.
LEMMA FileSteps ==
    ASSUME StoreInv, NEW p \in Procs, UploadFile(p) \/ InsertFileRow(p)
    PROVE  StoreInv'
<1> USE DEF db, services, request
<1>0. TypeOK /\ CacheOK /\ WriterOK(p) /\ ReaderOK(p)
  BY DEF StoreInv
<1>1. /\ UNCHANGED <<modules, moduleCache, versions, cache, key, body, answer, found, acked,
                     since, started, faults>>
      /\ CacheOK' /\ Writing(p)
  BY <1>0 DEF UploadFile, InsertFileRow, CacheOK, Writing
<1>2. /\ body[p] \in Bodies /\ DOMAIN body[p] \subseteq Paths
      /\ todo[p] \subseteq DOMAIN body[p]
      /\ \A f \in DOMAIN body[p] : body[p][f] \in Contents
      /\ \A q \in Procs \ {p} : Writing(q) => key[q] # key[p]
  BY <1>0, <1>1, BodyShape DEF WriterOK, Writing
<1>3. CASE UploadFile(p)
  <2>1. PICK f \in todo[p] : /\ objects' = objects \cup {body[p][f]}
                             /\ todo' = [todo EXCEPT ![p] = @ \ {f}]
    BY <1>3 DEF UploadFile
  <2>2. pc' = [pc EXCEPT ![p] = "row"] /\ UNCHANGED tx
    BY <1>3 DEF UploadFile, Goto
  <2>3. TypeOK'
    BY <1>0, <1>1, <1>2, <2>1, <2>2 DEF TypeOK, Steps
  <2>4. \A q \in Procs \ {p} : Kept(q)
    BY <1>0, <1>1, <2>1, <2>2 DEF Kept, TypeOK
  <2>5. pc'[p] = "row" /\ todo'[p] = todo[p] \ {f}
    BY <1>0, <2>1, <2>2 DEF TypeOK
  <2>6. WriterOK(p)'
    BY <1>0, <1>1, <1>2, <2>1, <2>2, <2>4, <2>5 DEF WriterOK, Writing, Kept
  <2>7. ReaderOK(p)'
    BY <1>0, <1>1, <2>5 DEF ReaderOK
  <2> QED
    BY <1>1, <1>2, <2>1, <2>3, <2>4, <2>6, <2>7, OneRequest
<1>4. CASE InsertFileRow(p)
  <2>1. /\ tx' = [tx EXCEPT ![p] = DOMAIN body[p] \ todo[p]]
        /\ pc' = [pc EXCEPT ![p] = "upload"] /\ UNCHANGED <<todo, objects>>
    BY <1>4 DEF InsertFileRow, Goto
  <2>2. TypeOK'
    BY <1>0, <1>1, <1>2, <2>1 DEF TypeOK, Steps
  <2>3. \A q \in Procs \ {p} : Kept(q)
    BY <1>0, <1>1, <2>1 DEF Kept, TypeOK
  <2>4. pc'[p] = "upload" /\ tx'[p] = DOMAIN body[p] \ todo[p] /\ tx'[p] # None
    BY <1>0, <1>2, <2>1, BodyShape DEF TypeOK
  <2>5. WriterOK(p)'
    BY <1>0, <1>1, <1>2, <2>1, <2>3, <2>4 DEF WriterOK, Writing, Kept
  <2>6. ReaderOK(p)'
    BY <1>0, <1>1, <2>4 DEF ReaderOK
  <2> QED
    BY <1>1, <1>2, <2>1, <2>2, <2>3, <2>5, <2>6, OneRequest
<1> QED
  BY <1>3, <1>4

\* A committed version is the body that was pushed, whole, on a key that had
\* no version; no other transaction is open on that key.
LEMMA CommitFacts ==
    ASSUME StoreInv, NEW p \in Procs, Commit(p)
    PROVE  /\ versions' = [versions EXCEPT ![key[p]] = body[p]]
           /\ body[p] \in Bodies /\ body[p] # None /\ versions[key[p]] = None
           /\ \A f \in DOMAIN body[p] : body[p][f] \in objects
           /\ \A q \in Procs \ {p} : Writing(q) => key[q] # key[p]
           /\ \A q \in Procs \ {p} :
                pc[q] \in {"invalidate", "download"} => key[q] # key[p]
<1>1. /\ WriterOK(p) /\ pc[p] = "upload" /\ todo[p] = {}
      /\ \A q \in Procs : WriterOK(q) /\ ReaderOK(q)
  BY DEF StoreInv, Commit
<1>2. tx[p] = DOMAIN body[p] /\ body[p] \in Bodies
  BY <1>1 DEF WriterOK, Writing
<1>3. [f \in tx[p] |-> body[p][f]] = body[p]
  BY <1>2, BodyShape
<1>4. versions' = [versions EXCEPT ![key[p]] = body[p]]
  BY <1>3 DEF Commit
<1> QED
  BY <1>1, <1>2, <1>4, BodyShape DEF WriterOK, ReaderOK, Writing

\* The commit makes a whole version visible, with all its objects in place.
LEMMA CommitStep ==
    ASSUME StoreInv, NEW p \in Procs, Commit(p)
    PROVE  StoreInv'
<1> USE DEF db, services, request
<1>0. TypeOK /\ CacheOK /\ ObjectsBeforeRows /\ key[p] \in Keys
      /\ \A q \in Procs : WriterOK(q) /\ ReaderOK(q)
  BY DEF StoreInv, TypeOK
<1>1. /\ UNCHANGED <<modules, moduleCache, objects, cache, key, body, todo, answer, found,
                     acked, since, started, faults>>
      /\ tx' = [tx EXCEPT ![p] = None] /\ pc' = [pc EXCEPT ![p] = "invalidate"]
  BY DEF Commit, Goto
<1>2. \A k \in Keys : /\ k # key[p] => versions'[k] = versions[k]
                      /\ versions[k] # None => versions'[k] = versions[k]
                      /\ versions[k] # None => versions'[k] # None
                      /\ k = key[p] => versions'[k] = body[p]
  BY <1>0, CommitFacts DEF TypeOK
<1>3. TypeOK'
  BY <1>0, <1>1, CommitFacts DEF TypeOK, Steps
<1>4. CacheOK'
  BY <1>0, <1>1, <1>2 DEF CacheOK, TypeOK
<1>5. ObjectsBeforeRows'
  BY <1>0, <1>1, <1>2, CommitFacts DEF ObjectsBeforeRows
<1>6. WriterOK(p)' /\ ReaderOK(p)'
  <2>1. pc'[p] = "invalidate" /\ tx'[p] = None /\ versions'[key'[p]] # None
    BY <1>0, <1>1, <1>2, CommitFacts DEF TypeOK
  <2> QED
    BY <1>0, <1>1, <2>1 DEF WriterOK, ReaderOK, Writing
<1>7. ASSUME NEW q \in Procs, q # p PROVE WriterOK(q)' /\ ReaderOK(q)'
  <2>1. /\ pc'[q] = pc[q] /\ tx'[q] = tx[q] /\ key[q] \in Keys
        /\ WriterOK(q) /\ ReaderOK(q)
    BY <1>0, <1>1, <1>7 DEF TypeOK
  <2>2. Writing(q) \/ pc[q] \in {"invalidate", "download"} => versions'[key[q]] = versions[key[q]]
    BY <1>2, <1>7, <2>1, CommitFacts
  <2>3. \A r \in Procs : Writing(r)' => Writing(r)
    BY <1>0, <1>1 DEF Writing, TypeOK
  <2>4. WriterOK(q)'
    BY <1>1, <2>1, <2>2, <2>3 DEF WriterOK, Writing
  <2>5. ReaderOK(q)'
    BY <1>1, <2>1, <2>2 DEF ReaderOK
  <2> QED
    BY <2>4, <2>5
<1> QED
  BY <1>3, <1>4, <1>5, <1>6, <1>7 DEF StoreInv

\* The end of CreateVersionContext: the version is there when the caller hears
\* of it, and a failed InvalidateVersion leaves nothing stale behind.
LEMMA InvalidateStep ==
    ASSUME StoreInv, NEW p \in Procs, Invalidate(p)
    PROVE  StoreInv'
<1> USE DEF db, services, request
<1>0. TypeOK /\ CacheOK /\ key[p] \in Keys /\ versions[key[p]] # None
  BY DEF StoreInv, TypeOK, WriterOK, Invalidate
<1>1. /\ Finish(p, "ok") /\ acked' = acked \cup {key[p]}
      /\ UNCHANGED <<modules, versions, objects, moduleCache, key, found, since, started>>
  BY DEF Invalidate
<1>2. cache' \in {cache, [cache EXCEPT ![key[p]] = None]} /\ faults' \in Nat
  BY <1>0 DEF Invalidate, TypeOK
<1>3. cache' \in [Keys -> Bodies \cup {None}] /\ CacheOK'
  BY <1>0, <1>1, <1>2 DEF TypeOK, CacheOK
<1>4. acked \subseteq acked' /\ acked' \subseteq Keys
  BY <1>0, <1>1 DEF TypeOK
<1> QED
  BY <1>1, <1>2, <1>3, <1>4, FinishStep DEF Answers

\* GetVersionContext: from the cache or from the rows, the same answer.
LEMMA ReadSteps ==
    ASSUME StoreInv, NEW p \in Procs, GetVersion(p) \/ SelectVersion(p)
    PROVE  StoreInv'
<1> USE DEF db, services, request
<1>0. TypeOK /\ CacheOK /\ WriterOK(p) /\ ReaderOK(p) /\ key[p] \in Keys
  BY DEF StoreInv, TypeOK
<1>1. CASE GetVersion(p)
  <2>1. PICK k \in Keys :
          /\ key' = [key EXCEPT ![p] = k] /\ since' = [since EXCEPT ![p] = acked]
          /\ \/ /\ cache[k] # None
                /\ found' = [found EXCEPT ![p] = <<k, cache[k]>>]
                /\ answer' = [answer EXCEPT ![p] = "ok"] /\ pc' = pc
             \/ /\ pc' = [pc EXCEPT ![p] = "selectVersion"]
                /\ found' = [found EXCEPT ![p] = None]
                /\ answer' = [answer EXCEPT ![p] = "none"]
    BY <1>1 DEF GetVersion, Goto
  <2>2. /\ UNCHANGED <<modules, moduleCache, versions, tx, objects, cache, body, todo, acked,
                       faults>>
        /\ pc[p] = "idle" /\ started' \in Nat
    BY <1>0, <1>1 DEF GetVersion, Start, TypeOK
  <2>3. found' \in [Procs -> (Keys \X Bodies) \cup {None}]
    BY <1>0, <2>1 DEF TypeOK
  <2>4. TypeOK'
    <3>1. pc' \in [Procs -> Steps] /\ answer' \in [Procs -> Answers]
      BY <1>0, <2>1 DEF TypeOK, Steps, Answers
    <3>2. key' \in [Procs -> Keys] /\ since' \in [Procs -> SUBSET Keys]
      BY <1>0, <2>1 DEF TypeOK
    <3> QED
      BY <1>0, <2>2, <2>3, <3>1, <3>2 DEF TypeOK
  <2>5. /\ pc'[p] \in {"idle", "selectVersion"} /\ answer'[p] \in {"ok", "none"}
        /\ since'[p] = acked
    BY <1>0, <2>1, <2>2 DEF TypeOK
  <2>6. WriterOK(p)' /\ ReaderOK(p)' /\ ~Writing(p)' /\ CacheOK'
    BY <1>0, <2>2, <2>5 DEF WriterOK, ReaderOK, Writing, CacheOK
  <2>7. \A q \in Procs \ {p} : Kept(q)
    BY <1>0, <2>1, <2>2 DEF Kept, TypeOK
  <2> QED
    BY <2>2, <2>4, <2>6, <2>7, OneRequest
<1>2. CASE SelectVersion(p)
  <2>1. /\ UNCHANGED <<modules, versions, objects, cache, moduleCache, key, acked, since,
                       started, faults>>
        /\ pc[p] = "selectVersion" /\ CacheOK'
    BY <1>0, <1>2 DEF SelectVersion, CacheOK
  <2>2. CASE versions[key[p]] = None
    <3>1. Finish(p, "notFound") /\ UNCHANGED found
      BY <1>2, <2>2 DEF SelectVersion
    <3>2. "notFound" \in Answers
      BY DEF Answers
    <3>3. TypeOK'
      BY <1>0, <2>1, <3>1, <3>2, FinishEnds DEF TypeOK
    <3>4. key[p] \notin since[p]
      BY <1>0, <2>2 DEF CacheOK, ReaderOK
    <3>5. WriterOK(p)' /\ ~Writing(p)' /\ pc'[p] = "idle"
      BY <1>0, <3>1, <3>2, FinishEnds
    <3>6. ReaderOK(p)'
      BY <1>0, <2>1, <3>4, <3>5 DEF ReaderOK
    <3>7. \A q \in Procs \ {p} : Kept(q)
      BY <1>0, <2>1, <3>1, <3>2, FinishEnds DEF Kept
    <3> QED
      BY <2>1, <3>3, <3>5, <3>6, <3>7, OneRequest
  <2>3. CASE versions[key[p]] # None
    <3>1. /\ found' = [found EXCEPT ![p] = <<key[p], versions[key[p]]>>]
          /\ todo' = [todo EXCEPT ![p] = DOMAIN versions[key[p]]]
          /\ pc' = [pc EXCEPT ![p] = "download"] /\ UNCHANGED <<answer, body, tx>>
      BY <1>2, <2>3 DEF SelectVersion, Goto
    <3>2. versions[key[p]] \in Bodies /\ DOMAIN versions[key[p]] \subseteq Paths
      BY <1>0, <2>3, BodyShape DEF TypeOK
    <3>3. /\ found' \in [Procs -> (Keys \X Bodies) \cup {None}]
          /\ todo' \in [Procs -> SUBSET Paths] /\ pc' \in [Procs -> Steps]
      BY <1>0, <3>1, <3>2 DEF TypeOK, Steps
    <3>4. TypeOK'
      BY <1>0, <2>1, <3>1, <3>3 DEF TypeOK
    <3>5. pc'[p] = "download" /\ found'[p] = <<key[p], versions[key[p]]>>
      BY <1>0, <3>1 DEF TypeOK
    <3>6. WriterOK(p)' /\ ~Writing(p)'
      BY <1>0, <2>1, <3>1, <3>5 DEF WriterOK, Writing
    <3>7. ReaderOK(p)'
      BY <1>0, <2>1, <2>3, <3>1, <3>5 DEF ReaderOK
    <3>8. \A q \in Procs \ {p} : Kept(q)
      BY <1>0, <2>1, <3>1 DEF Kept, TypeOK
    <3> QED
      BY <2>1, <3>4, <3>6, <3>7, <3>8, OneRequest
  <2> QED
    BY <2>2, <2>3
<1> QED
  BY <1>1, <1>2

\* The objects are read and the version is cached as it was read; nothing can
\* have changed it in between.
LEMMA DownloadSteps ==
    ASSUME StoreInv, NEW p \in Procs, DownloadFile(p) \/ SetVersion(p)
    PROVE  StoreInv'
<1> USE DEF db, services, request
<1>0. TypeOK /\ CacheOK /\ WriterOK(p) /\ ReaderOK(p) /\ key[p] \in Keys
  BY DEF StoreInv, TypeOK
<1>1. CASE DownloadFile(p)
  <2>1. /\ UNCHANGED <<modules, versions, objects, cache, moduleCache, key, acked, since,
                       started, faults>>
        /\ pc[p] = "download" /\ CacheOK'
    BY <1>0, <1>1 DEF DownloadFile, CacheOK
  <2>2. PICK f \in todo[p] :
          \/ /\ todo' = [todo EXCEPT ![p] = @ \ {f}]
             /\ UNCHANGED <<pc, answer, body, tx, found>>
          \/ Finish(p, "broken") /\ found' = [found EXCEPT ![p] = None]
    BY <1>1 DEF DownloadFile
  <2>3. CASE Finish(p, "broken") /\ found' = [found EXCEPT ![p] = None]
    BY <1>0, <2>1, <2>3, FinishStep DEF TypeOK, Answers
  <2>4. CASE /\ todo' = [todo EXCEPT ![p] = @ \ {f}]
             /\ UNCHANGED <<pc, answer, body, tx, found>>
    <3>1. TypeOK'
      BY <1>0, <2>1, <2>4 DEF TypeOK
    <3>2. WriterOK(p)' /\ ReaderOK(p)' /\ ~Writing(p)'
      BY <1>0, <2>1, <2>4 DEF WriterOK, ReaderOK, Writing
    <3>3. \A q \in Procs \ {p} : Kept(q)
      BY <1>0, <2>1, <2>4 DEF Kept, TypeOK
    <3> QED
      BY <2>1, <3>1, <3>2, <3>3, OneRequest
  <2> QED
    BY <2>2, <2>3, <2>4
<1>2. CASE SetVersion(p)
  <2>1. /\ Finish(p, "ok")
        /\ UNCHANGED <<modules, versions, objects, moduleCache, key, found, acked, since,
                       started>>
    BY <1>2 DEF SetVersion
  <2>2. versions[key[p]] # None /\ found[p] = <<key[p], versions[key[p]]>>
    BY <1>0, <1>2 DEF SetVersion, ReaderOK
  <2>3. /\ cache' \in {cache, [cache EXCEPT ![key[p]] = versions[key[p]]]}
        /\ faults' \in Nat
    BY <1>0, <1>2, <2>2 DEF SetVersion, TypeOK
  <2>4. cache' \in [Keys -> Bodies \cup {None}] /\ CacheOK'
    BY <1>0, <2>1, <2>3 DEF TypeOK, CacheOK
  <2> QED
    BY <1>0, <2>1, <2>3, <2>4, FinishStep DEF TypeOK, Answers
<1> QED
  BY <1>1, <1>2

\* A call that fails, an entry that expires, a crash and a change of the
\* replicas: open transactions are rolled back, the objects stay.
LEMMA FaultSteps ==
    ASSUME StoreInv, Environment \/ \E p \in Procs : CallFails(p)
    PROVE  StoreInv'
<1> USE DEF db, services, request
<1>0. TypeOK /\ CacheOK /\ ObjectsBeforeRows /\ \A p \in Procs : WriterOK(p) /\ ReaderOK(p)
  BY DEF StoreInv
<1>1. ASSUME NEW p \in Procs, CallFails(p) PROVE StoreInv'
  <2>1. /\ Finish(p, "error") /\ found' = [found EXCEPT ![p] = None] /\ faults' \in Nat
        /\ UNCHANGED <<modules, versions, objects, cache, moduleCache, key, acked, since,
                       started>>
    BY <1>0, <1>1 DEF CallFails, TypeOK
  <2>2. CacheOK'
    BY <1>0, <2>1 DEF CacheOK
  <2> QED
    BY <1>0, <2>1, <2>2, FinishStep DEF TypeOK, Answers
<1>2. CASE Expire
  <2>1. PICK k \in Keys : cache' = [cache EXCEPT ![k] = None]
    BY <1>2 DEF Expire
  <2>2. UNCHANGED <<modules, versions, tx, objects, moduleCache, pc, key, body, todo, answer,
                    found, acked, since, started, faults>>
    BY <1>2 DEF Expire
  <2>3. TypeOK' /\ CacheOK'
    BY <1>0, <2>1, <2>2 DEF TypeOK, CacheOK
  <2>4. ObjectsBeforeRows' /\ \A p \in Procs : WriterOK(p)' /\ ReaderOK(p)'
    BY <1>0, <2>2 DEF ObjectsBeforeRows, WriterOK, ReaderOK, Writing
  <2> QED
    BY <2>3, <2>4 DEF StoreInv
<1>3. CASE Crash
  <2>1. /\ UNCHANGED <<modules, versions, objects, cache, moduleCache, key, acked, since,
                       started>>
        /\ pc' = [p \in Procs |-> "idle"] /\ answer' = [p \in Procs |-> "none"]
        /\ tx' = [p \in Procs |-> None] /\ body' = [p \in Procs |-> None]
        /\ todo' = [p \in Procs |-> {}] /\ found' = [p \in Procs |-> None]
        /\ faults' \in Nat
    BY <1>0, <1>3 DEF Crash, TypeOK
  <2>2. TypeOK'
    BY <1>0, <2>1 DEF TypeOK, Steps, Answers
  <2>3. CacheOK' /\ ObjectsBeforeRows'
    BY <1>0, <2>1 DEF CacheOK, ObjectsBeforeRows
  <2>4. \A p \in Procs : WriterOK(p)' /\ ReaderOK(p)'
    BY <1>0, <2>1 DEF WriterOK, ReaderOK, Writing
  <2> QED
    BY <2>2, <2>3, <2>4 DEF StoreInv
<1>4. CASE Maintenance /\ UNCHANGED <<db, services, request, acked, since, started, faults>>
  BY <1>0, <1>4 DEF StoreInv, TypeOK, CacheOK, ObjectsBeforeRows, WriterOK, ReaderOK, Writing
<1> QED
  BY <1>1, <1>2, <1>3, <1>4 DEF Environment

\* Every step of the server and its environment keeps the invariant.
LEMMA StoreStep == StoreInv /\ [Next]_vars => StoreInv'
<1> SUFFICES ASSUME StoreInv, [Next]_vars PROVE StoreInv'
  OBVIOUS
<1>1. ASSUME NEW p \in Procs, Request(p) PROVE StoreInv'
  BY <1>1, ModuleSteps, BeginSteps, FileSteps, CommitStep, InvalidateStep, ReadSteps,
     DownloadSteps, FaultSteps DEF Request
<1>2. CASE Environment
  BY <1>2, FaultSteps
<1>3. CASE UNCHANGED vars
  BY <1>3 DEF vars, db, services, request, StoreInv, TypeOK, CacheOK, ObjectsBeforeRows,
              WriterOK, ReaderOK, Writing
<1> QED
  BY <1>1, <1>2, <1>3 DEF Next

\* The services start empty, but for the modules.
LEMMA StoreInit == Init => StoreInv
<1> SUFFICES ASSUME Init PROVE StoreInv
  OBVIOUS
<1>1. TypeOK
  BY DEF Init, TypeOK, Steps, Answers
<1>2. CacheOK /\ ObjectsBeforeRows
  BY DEF Init, CacheOK, ObjectsBeforeRows
<1>3. \A p \in Procs : WriterOK(p) /\ ReaderOK(p)
  BY DEF Init, WriterOK, ReaderOK, Writing
<1> QED
  BY <1>1, <1>2, <1>3 DEF StoreInv

\* StoreInv in every reachable state.
THEOREM StoreInvariant == Spec => []StoreInv
BY StoreInit, StoreStep, PTL DEF Spec

\* Whatever fails or crashes between PutObjectWithHash, the INSERTs and the
\* COMMIT, a committed file row points at an object in the bucket.
THEOREM RowsHaveObjects == Spec => []ObjectsBeforeRows
<1>1. StoreInv => ObjectsBeforeRows
  BY DEF StoreInv
<1> QED
  BY <1>1, StoreInvariant, PTL

\* GetVersion never answers "not found" for a version whose CreateVersion had
\* returned before the request began.
THEOREM WritesAreRead == Spec => []ReadYourWrites
<1>1. StoreInv => ReadYourWrites
  BY DEF StoreInv, ReaderOK, ReadYourWrites
<1> QED
  BY <1>1, StoreInvariant, PTL
-----------------------------------------------------------------------------
(* The refinement of the version catalogue.                                *)
\* What one request reads or forgets of the catalogue.
LEMMA ForgetOne ==
    ASSUME StoreInv, NEW p \in Procs, found' = [found EXCEPT ![p] = None], UNCHANGED versions
    PROVE  Catalog!Next
<1>1. found \in [Procs -> (Keys \X Bodies) \cup {None}]
  BY DEF StoreInv, TypeOK
<1>2. found' = [q \in Procs |-> IF q \in {p} THEN None ELSE found[q]]
  BY <1>1
<1>3. {p} \in SUBSET Procs
  OBVIOUS
<1>4. Catalog!Forget
  BY <1>2, <1>3 DEF Catalog!Forget
<1> QED
  BY <1>4 DEF Catalog!Next

\* A read from the cache or from the rows is a read of the catalogue.
LEMMA ReadOne ==
    ASSUME NEW p \in Procs, NEW k \in Keys, versions[k] # None, UNCHANGED versions,
           found' = [found EXCEPT ![p] = <<k, versions[k]>>]
    PROVE  Catalog!Next
BY DEF Catalog!Next, Catalog!Read

\* Each step of the store publishes, reads, forgets or does nothing to the
\* catalogue.
LEMMA CatalogStep ==
    ASSUME StoreInv, [Next]_vars
    PROVE  [Catalog!Next]_<<versions, found>>
<1> USE DEF db, services, request
<1>0. TypeOK /\ CacheOK /\ \A p \in Procs : key[p] \in Keys /\ ReaderOK(p)
  BY DEF StoreInv, TypeOK
<1>1. ASSUME NEW p \in Procs, Commit(p) PROVE Catalog!Next
  <2>1. /\ versions[key[p]] = None /\ versions' = [versions EXCEPT ![key[p]] = body[p]]
        /\ body[p] \in Bodies /\ UNCHANGED found
    BY <1>1, CommitFacts DEF Commit
  <2>2. Catalog!Publish(key[p], body[p])
    BY <2>1 DEF Catalog!Publish
  <2> QED
    BY <1>0, <2>1, <2>2 DEF Catalog!Next
<1>2. ASSUME NEW p \in Procs, GetVersion(p) PROVE Catalog!Next
  <2>1. PICK k \in Keys :
          \/ cache[k] # None /\ found' = [found EXCEPT ![p] = <<k, cache[k]>>]
          \/ found' = [found EXCEPT ![p] = None]
    BY <1>2 DEF GetVersion
  <2>2. UNCHANGED versions
    BY <1>2 DEF GetVersion
  <2>3. CASE cache[k] # None /\ found' = [found EXCEPT ![p] = <<k, cache[k]>>]
    BY <1>0, <2>2, <2>3, ReadOne DEF CacheOK
  <2> QED
    BY <2>1, <2>2, <2>3, ForgetOne
<1>3. ASSUME NEW p \in Procs, SelectVersion(p) PROVE Catalog!Next \/ UNCHANGED <<versions, found>>
  BY <1>0, <1>3, ReadOne DEF SelectVersion
<1>4. ASSUME NEW p \in Procs, DownloadFile(p) \/ CallFails(p)
      PROVE  Catalog!Next \/ UNCHANGED <<versions, found>>
  BY <1>4, ForgetOne DEF DownloadFile, CallFails
<1>5. ASSUME NEW p \in Procs,
             \/ CreateModule(p) \/ GetModule(p) \/ CreateVersion(p) \/ SelectModuleId(p)
             \/ InsertVersion(p) \/ UploadFile(p) \/ InsertFileRow(p) \/ Invalidate(p)
             \/ SetVersion(p) \/ ListVersions(p) \/ ListConnect(p) \/ ListQuery(p)
      PROVE  UNCHANGED <<versions, found>>
  BY <1>5 DEF CreateModule, GetModule, CreateVersion, SelectModuleId, InsertVersion, UploadFile,
              InsertFileRow, Invalidate, SetVersion, ListVersions, ListConnect, ListQuery
<1>6. CASE Crash
  <2>1. found' = [p \in Procs |-> IF p \in Procs THEN None ELSE found[p]] /\ UNCHANGED versions
    BY <1>6 DEF Crash
  <2>2. Catalog!Forget
    BY <2>1 DEF Catalog!Forget
  <2> QED
    BY <2>2 DEF Catalog!Next
<1>7. CASE \/ Expire \/ UNCHANGED vars
           \/ Maintenance /\ UNCHANGED <<db, services, request, acked, since, started, faults>>
  BY <1>7 DEF Expire, vars
<1> QED
  BY <1>1, <1>2, <1>3, <1>4, <1>5, <1>6, <1>7 DEF Next, Request, Environment

\* PostgreSQL, S3 and Redis together implement the version catalogue: a
\* version appears whole and once, and is read as it was published.
THEOREM StoreImplementsCatalog == Spec => ImplementsCatalog
<1>1. Init => Catalog!Init
  BY DEF Init, Catalog!Init
<1>2. StoreInv /\ [Next]_vars => [Catalog!Next]_<<versions, found>>
  BY CatalogStep
<1> QED
  BY <1>1, <1>2, StoreInvariant, PTL DEF Spec, ImplementsCatalog, Catalog!Spec
=============================================================================
