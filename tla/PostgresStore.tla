--------------------------- MODULE PostgresStore ---------------------------
(***************************************************************************)
(* pkg/storage/postgres: PostgresStorage over three external services, a   *)
(* PostgreSQL primary with read replicas, an S3 bucket addressed by        *)
(* content hash and a Redis cache.  Each call to a service is one step and *)
(* may fail; the server may crash between any two.  A hash is identified   *)
(* with the content it is computed from.                                   *)
(***************************************************************************)
EXTENDS ConnectionManager

CONSTANTS
    Modules, Versions,
    Paths,       \* proto file paths
    Contents,    \* file contents
    Bodies,      \* what a push may carry: functions from paths to contents
    None,
    MaxRequests, \* bound: requests started
    MaxFaults    \* bound: failed calls and crashes

Keys == Modules \X Versions

ASSUME StoreAssumption ==
    /\ \A b \in Bodies : DOMAIN b \subseteq Paths /\ b \in [DOMAIN b -> Contents]
    /\ None \notin Bodies /\ None \notin Keys \X Bodies /\ \A s \in SUBSET Paths : s # None
    /\ MaxRequests \in Nat /\ MaxFaults \in Nat

VARIABLES
    modules,    \* rows of table modules
    versions,   \* [Keys -> body described by the committed rows, None if none]
    tx,         \* [Procs -> file rows inserted by its open transaction, None if none]
    objects,    \* contents in the bucket
    cache,      \* [Keys -> version cached under version:<m>:<v>, None if none]
    moduleCache,\* modules cached under module:<m>
    pc, key, body, todo, answer,
    found,      \* [Procs -> key and body a GetVersion has read, None if none]
    acked,      \* history: keys whose CreateVersion returned nil
    since,      \* history: [Procs -> acked when its request began]
    started, faults

db == <<modules, versions, tx>>
services == <<objects, cache, moduleCache>>
request == <<pc, key, body, todo, answer, found>>
vars == <<connVars, db, services, request, acked, since, started, faults>>

Init ==
    /\ ConnInit
    /\ modules \in SUBSET Modules /\ versions = [k \in Keys |-> None] /\ tx = [p \in Procs |-> None]
    /\ objects = {} /\ cache = [k \in Keys |-> None] /\ moduleCache = {}
    /\ pc = [p \in Procs |-> "idle"]
    /\ key \in [Procs -> Keys] /\ \A p, q \in Procs : key[p] = key[q]
    /\ body = [p \in Procs |-> None] /\ todo = [p \in Procs |-> {}]
    /\ answer = [p \in Procs |-> "none"] /\ found = [p \in Procs |-> None]
    /\ acked = {} /\ since = [p \in Procs |-> {}]
    /\ started = 0 /\ faults = 0

Start(p) == pc[p] = "idle" /\ started < MaxRequests /\ started' = started + 1
Goto(p, to) == pc' = [pc EXCEPT ![p] = to]

\* The request returns: a transaction still open is rolled back (defer), and
\* the objects it uploaded stay in the bucket.
Finish(p, status) ==
    /\ Goto(p, "idle")
    /\ answer' = [answer EXCEPT ![p] = status]
    /\ tx' = [tx EXCEPT ![p] = None]
    /\ body' = [body EXCEPT ![p] = None]
    /\ todo' = [todo EXCEPT ![p] = {}]
-----------------------------------------------------------------------------
\* CreateModuleContext.  The INSERT is its own transaction; its RETURNING has
\* three columns and Scan two destinations, so Scan fails after the row is
\* stored and the cache is never invalidated.
CreateModule(p) ==
    /\ Start(p)
    /\ \E m \in Modules : modules' = modules \cup {m}
    /\ answer' = [answer EXCEPT ![p] = "error"]
    /\ UNCHANGED <<connVars, versions, tx, services, pc, key, body, todo, found, acked,
                   since, faults>>

\* GetModuleContext: the cache, then the row, which is then cached.
GetModule(p) ==
    /\ Start(p)
    /\ \E m \in Modules :
         /\ moduleCache' = IF m \in modules THEN moduleCache \cup {m} ELSE moduleCache
         /\ answer' = [answer EXCEPT ![p] = IF m \in moduleCache \cup modules
                                            THEN "ok" ELSE "noModule"]
    /\ UNCHANGED <<connVars, db, objects, cache, pc, key, body, todo, found,
                   acked, since, faults>>
-----------------------------------------------------------------------------
(* CreateVersionContext.                                                   *)
CreateVersion(p) ==
    /\ Start(p)
    /\ \E k \in Keys, b \in Bodies :
         /\ key' = [key EXCEPT ![p] = k]
         /\ body' = [body EXCEPT ![p] = b]
    /\ Goto(p, "moduleId")
    /\ answer' = [answer EXCEPT ![p] = "none"]
    /\ UNCHANGED <<connVars, db, services, todo, found, acked, since, faults>>

SelectModuleId(p) ==
    /\ pc[p] = "moduleId"
    /\ IF key[p][1] \in modules
       THEN Goto(p, "insert") /\ UNCHANGED <<tx, answer, body, todo>>
       ELSE Finish(p, "noModule")
    /\ UNCHANGED <<connVars, modules, versions, services, key, found, acked, since, started,
                   faults>>

\* Mutant: an upsert instead of an insert.
InsertVersionUpsert(p) ==
    /\ pc[p] = "insert"
    /\ \A q \in Procs \ {p} : ~(tx[q] # None /\ key[q] = key[p])
    /\ tx' = [tx EXCEPT ![p] = {}]
    /\ todo' = [todo EXCEPT ![p] = DOMAIN body[p]]
    /\ Goto(p, "upload")
    /\ UNCHANGED <<connVars, modules, versions, services, key, body, answer, found, acked,
                   since, started, faults>>

\* BeginTx and the INSERT into versions.  UNIQUE(module_id, version): the
\* INSERT waits for a transaction that holds the same key and fails once it
\* has committed.
InsertVersion(p) ==
    /\ pc[p] = "insert"
    /\ \A q \in Procs \ {p} : ~(tx[q] # None /\ key[q] = key[p])
    /\ IF versions[key[p]] # None
       THEN Finish(p, "error")
       ELSE /\ tx' = [tx EXCEPT ![p] = {}]
            /\ todo' = [todo EXCEPT ![p] = DOMAIN body[p]]
            /\ Goto(p, "upload") /\ UNCHANGED <<answer, body>>
    /\ UNCHANGED <<connVars, modules, versions, services, key, found, acked, since, started,
                   faults>>

\* Mutant: the error of the upload is dropped.
UploadFileIgnored(p) ==
    /\ pc[p] = "upload" /\ todo[p] # {}
    /\ \E f \in todo[p] : todo' = [todo EXCEPT ![p] = @ \ {f}]
    /\ Goto(p, "row")
    /\ UNCHANGED <<connVars, db, services, key, body, answer, found, acked, since, started, faults>>

\* PutObjectWithHash for the next file, in the order of the request: an object
\* that exists is not written again.  Then its row.
UploadFile(p) ==
    /\ pc[p] = "upload" /\ todo[p] # {}
    /\ \E f \in todo[p] :
         /\ objects' = objects \cup {body[p][f]}
         /\ todo' = [todo EXCEPT ![p] = @ \ {f}]
    /\ Goto(p, "row")
    /\ UNCHANGED <<connVars, db, cache, moduleCache, key, body, answer, found, acked,
                   since, started, faults>>

InsertFileRow(p) ==
    /\ pc[p] = "row"
    /\ tx' = [tx EXCEPT ![p] = DOMAIN body[p] \ todo[p]]
    /\ Goto(p, "upload")
    /\ UNCHANGED <<connVars, modules, versions, services, key, body, todo, answer, found,
                   acked, since, started, faults>>

\* Mutant: the error of the commit is dropped.
CommitIgnored(p) ==
    /\ pc[p] = "upload" /\ todo[p] = {}
    /\ tx' = [tx EXCEPT ![p] = None]
    /\ Goto(p, "invalidate")
    /\ UNCHANGED <<connVars, modules, versions, services, key, body, todo, answer, found,
                   acked, since, started, faults>>

Commit(p) ==
    /\ pc[p] = "upload" /\ todo[p] = {}
    /\ versions' = [versions EXCEPT ![key[p]] = [f \in tx[p] |-> body[p][f]]]
    /\ tx' = [tx EXCEPT ![p] = None]
    /\ Goto(p, "invalidate")
    /\ UNCHANGED <<connVars, modules, services, key, body, todo, answer, found, acked, since,
                   started, faults>>

\* InvalidateVersion; its error is ignored.
Invalidate(p) ==
    /\ pc[p] = "invalidate"
    /\ \/ cache' = [cache EXCEPT ![key[p]] = None] /\ UNCHANGED faults
       \/ faults < MaxFaults /\ faults' = faults + 1 /\ UNCHANGED cache
    /\ acked' = acked \cup {key[p]}
    /\ Finish(p, "ok")
    /\ UNCHANGED <<connVars, modules, versions, objects, moduleCache, key, found,
                   since, started>>
-----------------------------------------------------------------------------
(* GetVersionContext.                                                      *)
GetVersion(p) ==
    /\ Start(p)
    /\ \E k \in Keys :
         /\ key' = [key EXCEPT ![p] = k]
         /\ since' = [since EXCEPT ![p] = acked]
         /\ IF cache[k] # None
            THEN /\ found' = [found EXCEPT ![p] = <<k, cache[k]>>]
                 /\ answer' = [answer EXCEPT ![p] = "ok"]
                 /\ UNCHANGED pc
            ELSE /\ Goto(p, "selectVersion")
                 /\ found' = [found EXCEPT ![p] = None]
                 /\ answer' = [answer EXCEPT ![p] = "none"]
    /\ UNCHANGED <<connVars, db, services, body, todo, acked, faults>>

SelectVersion(p) ==
    /\ pc[p] = "selectVersion"
    /\ IF versions[key[p]] = None
       THEN Finish(p, "notFound") /\ UNCHANGED found
       ELSE /\ found' = [found EXCEPT ![p] = <<key[p], versions[key[p]]>>]
            /\ todo' = [todo EXCEPT ![p] = DOMAIN versions[key[p]]]
            /\ Goto(p, "download") /\ UNCHANGED <<answer, body, tx>>
    /\ UNCHANGED <<connVars, modules, versions, services, key, acked, since, started, faults>>

\* One GetObject per file; a missing object fails the request.
DownloadFile(p) ==
    /\ pc[p] = "download" /\ todo[p] # {}
    /\ \E f \in todo[p] :
         IF found[p][2][f] \in objects
         THEN /\ todo' = [todo EXCEPT ![p] = @ \ {f}]
              /\ UNCHANGED <<pc, answer, body, tx, found>>
         ELSE Finish(p, "broken") /\ found' = [found EXCEPT ![p] = None]
    /\ UNCHANGED <<connVars, modules, versions, services, key, acked, since, started, faults>>

\* SetVersion; its error is ignored.
SetVersion(p) ==
    /\ pc[p] = "download" /\ todo[p] = {}
    /\ \/ cache' = [cache EXCEPT ![key[p]] = found[p][2]] /\ UNCHANGED faults
       \/ faults < MaxFaults /\ faults' = faults + 1 /\ UNCHANGED cache
    /\ Finish(p, "ok")
    /\ UNCHANGED <<connVars, modules, versions, objects, moduleCache, key, found,
                   acked, since, started>>
-----------------------------------------------------------------------------
(* ListVersionsContext: one query on the connection Replica returns.       *)
ListVersions(p) ==
    /\ Start(p)
    /\ ReplicaBegin(p)
    /\ Goto(p, "list")
    /\ answer' = [answer EXCEPT ![p] = "none"]
    /\ UNCHANGED <<db, services, key, body, todo, found, acked, since, faults>>

ListConnect(p) ==
    /\ pc[p] = "list"
    /\ ReplicaIndex(p) \/ ReplicaGet(p)
    /\ UNCHANGED <<db, services, request, acked, since, started, faults>>

\* A connection that was closed in the meantime fails the query.
ListQuery(p) ==
    /\ pc[p] = "list"
    /\ Finish(p, IF call[p] = "panicked" THEN "panic"
                 ELSE IF conn[p] \in closedConn THEN "error" ELSE "listed")
    /\ ReplicaEnd(p)
    /\ UNCHANGED <<modules, versions, services, key, found, acked, since, started, faults>>
-----------------------------------------------------------------------------
(* The environment.                                                        *)
\* A cached entry reaches its TTL, or Redis restarts empty.
Expire ==
    /\ \E k \in Keys : cache[k] # None /\ cache' = [cache EXCEPT ![k] = None]
    /\ UNCHANGED <<connVars, db, objects, moduleCache, request, acked, since,
                   started, faults>>

\* A call to PostgreSQL or S3 fails: the request returns the error.
CallFails(p) ==
    /\ pc[p] \notin {"idle", "invalidate", "list"} /\ faults < MaxFaults
    /\ faults' = faults + 1
    /\ Finish(p, "error")
    /\ found' = [found EXCEPT ![p] = None]
    /\ UNCHANGED <<connVars, modules, versions, services, key, acked, since, started>>

\* The server dies and starts again: PostgreSQL rolls its transactions back,
\* the connection manager opens the replicas that answer, or none.
Crash ==
    /\ faults < MaxFaults /\ \E p \in Procs : pc[p] # "idle"
    /\ faults' = faults + 1
    /\ pc' = [p \in Procs |-> "idle"] /\ answer' = [p \in Procs |-> "none"]
    /\ tx' = [p \in Procs |-> None] /\ body' = [p \in Procs |-> None]
    /\ todo' = [p \in Procs |-> {}] /\ found' = [p \in Procs |-> None]
    /\ replicas' \in {SetToSeq(Replicas), <<>>}
    /\ current' = 0 /\ closedConn' = {} /\ closePhase' = "open" /\ closing' = {}
    /\ call' = [p \in Procs |-> "idle"] /\ count' = [p \in Procs |-> 0]
    /\ index' = [p \in Procs |-> 0] /\ conn' = [p \in Procs |-> NoConn]
    /\ shrunk' = [p \in Procs |-> FALSE]
    /\ UNCHANGED <<modules, versions, services, key, acked,
                   since, started>>

Request(p) ==
    \/ CreateModule(p) \/ GetModule(p)
    \/ CreateVersion(p) \/ SelectModuleId(p) \/ InsertVersion(p) \/ UploadFile(p)
    \/ InsertFileRow(p) \/ Commit(p) \/ Invalidate(p)
    \/ GetVersion(p) \/ SelectVersion(p) \/ DownloadFile(p) \/ SetVersion(p)
    \/ ListVersions(p) \/ ListConnect(p) \/ ListQuery(p)
    \/ CallFails(p)

Environment ==
    \/ Expire
    \/ Crash
    \/ Maintenance /\ UNCHANGED <<db, services, request, acked, since, started, faults>>

Next == (\E p \in Procs : Request(p)) \/ Environment

Spec == Init /\ [][Next]_vars
-----------------------------------------------------------------------------
\* A committed file row never points at a missing object: every object is
\* uploaded before its row is inserted, rollbacks leave objects behind, and
\* nothing deletes one.
ObjectsBeforeRows ==
    \A k \in Keys : versions[k] # None => \A f \in DOMAIN versions[k] : versions[k][f] \in objects

\* GetVersion answers "not found" only for a version whose CreateVersion had
\* not returned when the request began, cache and all.
ReadYourWrites ==
    \A p \in Procs : answer[p] = "notFound" => key[p] \notin since[p]

Catalog == INSTANCE VersionCatalog WITH catalog <- versions, seen <- found

\* Transactions, object store and cache together implement the catalogue: a
\* version appears whole, once, and is read as it was published.
ImplementsCatalog == Catalog!Spec
=============================================================================
