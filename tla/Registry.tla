------------------------------ MODULE Registry ------------------------------
(***************************************************************************)
(* The registry on its default back end: FileSystemStorage                 *)
(* (pkg/storage/filesystem.go) called by the HTTP handlers of              *)
(* pkg/api/handlers.go, one goroutine per request and no lock anywhere,    *)
(* and by the compile loop of cmd/sprocket, a second process on the same   *)
(* directory.  One step is one system call that another process can        *)
(* observe: MkdirAll, the truncating open of os.WriteFile, its write, one  *)
(* os.ReadDir, one os.ReadFile.                                            *)
(***************************************************************************)
EXTENDS Naturals, FiniteSets, Functions

CONSTANTS
    Modules, Versions,   \* names of modules and of versions
    Paths,               \* paths of proto files
    Bodies,              \* what a push may carry: [subset of Paths -> length]
    Languages,           \* languages Sprocket compiles for
    Clients,             \* request goroutines of the server
    Sprocket,            \* the compile loop of the sprocket process
    Absent,              \* a file that is not there
    Empty,               \* a file just truncated by os.WriteFile
    Mixed,               \* a file with the tail of a longer, older write
    None,                \* nothing pushed, nothing read
    MaxRequests,         \* bound: requests and compilations started
    MaxCrashes           \* bound: crashes of the server or of sprocket

Keys == Modules \X Versions
Procs == Clients \cup {Sprocket}

\* version.json: the pushed files and the languages compiled so far.
Snapshots == [files : Bodies, info : SUBSET Languages]

ASSUME RegistryAssumption ==
    /\ IsFiniteSet(Clients) /\ Sprocket \notin Clients
    /\ \A b \in Bodies : DOMAIN b \subseteq Paths
    /\ \A b \in Bodies : \A p \in DOMAIN b : b[p] \in Nat \ {0}
    /\ {Absent, Empty, Mixed, None} \cap (Snapshots \cup Bodies \cup Nat) = {}
    /\ Absent \notin {Empty, Mixed, None} /\ Empty \notin {Mixed, None} /\ Mixed # None
    /\ MaxRequests \in Nat /\ MaxCrashes \in Nat

VARIABLES
    moduleJson,  \* [Modules -> {Absent, Empty, "module"}]
    moduleDir,   \* module directories that exist
    versionsDir, \* modules with a versions/ directory
    versionDir,  \* version directories that exist, a subset of Keys
    versionJson, \* [Keys -> Absent, Empty, Mixed or a snapshot]
    protoFile,   \* [Keys -> [Paths -> Absent, Empty, Mixed or a length]]
    pc,          \* where each process is in its request
    key,         \* the module and version of its request
    mem,         \* the snapshot the process holds in memory
    todo,        \* files to write, languages to compile, entries to read
    cur,         \* the file or language being written
    mods,        \* modules whose versions a listing has still to read
    listed,      \* versions a listing has read so far
    answer,      \* the status of its last request
    started, crashes,
    acked,       \* history: body of the last push answered 201, per key
    disturbed,   \* history: keys whose writers overlapped or were cut short
    promised     \* history: keys acknowledged before the listing began

store == <<moduleJson, moduleDir, versionsDir, versionDir, versionJson, protoFile>>
local == <<pc, key, mem, todo, cur, mods, listed, answer>>
scan == <<mods, listed, promised>>
history == <<acked, disturbed, promised>>
vars == <<store, local, started, crashes, history>>

PushPCs == {"truncJson", "writeJson", "truncFile", "writeFile"}
UpdatePCs == {"compile", "updTrunc", "updWrite"}
ModulePCs == {"truncModule", "writeModule"}
ListPCs == {"readModules", "readDir", "readEntry"}

\* p is between its first and its last write of version k, or, for Sprocket,
\* between reading version.json and writing it back.
Writing(p, k) == pc[p] \in PushPCs \cup UpdatePCs /\ key[p] = k
Busy(k) == \E p \in Procs : Writing(p, k)

Init ==
    /\ moduleJson = [m \in Modules |-> Absent]
    /\ moduleDir = {} /\ versionsDir = {} /\ versionDir = {}
    /\ versionJson = [k \in Keys |-> Absent]
    /\ protoFile = [k \in Keys |-> [p \in Paths |-> Absent]]
    /\ pc = [p \in Procs |-> "idle"]
    /\ key \in [Procs -> Keys] /\ \A p, q \in Procs : key[p] = key[q]
    /\ mem = [p \in Procs |-> None]
    /\ todo = [p \in Procs |-> {}]
    /\ cur = [p \in Procs |-> None]
    /\ mods = [p \in Procs |-> {}]
    /\ listed = [p \in Procs |-> {}]
    /\ answer = [p \in Procs |-> "none"]
    /\ started = 0 /\ crashes = 0
    /\ acked = [k \in Keys |-> None]
    /\ disturbed = {}
    /\ promised = [p \in Procs |-> {}]
-----------------------------------------------------------------------------
(* os.WriteFile opens with O_TRUNC and then writes at offset 0.  When a    *)
(* second writer got in between, a shorter write leaves the tail of the    *)
(* longer one; the length of a Mixed file is abstracted.                   *)
BodySize(b) == FoldFunction(LAMBDA x, y : x + y, 0, b)
SnapSize(s) == BodySize(s.files) + Cardinality(s.info)

Written(old, new, longer) ==
    CASE old \in {Absent, Empty} -> {new}
      [] old = Mixed             -> {new, Mixed}
      [] OTHER                   -> IF longer THEN {Mixed} ELSE {new}

\* Mutant: the error of a write is dropped, the file stays truncated.
WriteProtoIgnored(k, f, c) == UNCHANGED protoFile

WriteJson(k, s) ==
    \E r \in Written(versionJson[k], s,
                     versionJson[k] \in Snapshots /\ SnapSize(versionJson[k]) > SnapSize(s)) :
        versionJson' = [versionJson EXCEPT ![k] = r]

WriteProto(k, f, c) ==
    \E r \in Written(protoFile[k][f], c, protoFile[k][f] \in Nat /\ protoFile[k][f] > c) :
        protoFile' = [protoFile EXCEPT ![k][f] = r]

\* os.MkdirAll of a version directory creates its parents too.
MkVersionDir(k) ==
    /\ moduleDir' = moduleDir \cup {k[1]}
    /\ versionsDir' = versionsDir \cup {k[1]}
    /\ versionDir' = versionDir \cup {k}

\* Two writers of one version overlap: from here on its files may disagree.
Overlap(p, k) ==
    disturbed' = IF \E q \in Procs \ {p} : Writing(q, k) THEN disturbed \cup {k} ELSE disturbed

\* GetVersion of a named version: ReadFile, then json.Unmarshal.
GetVersion(k) == IF versionJson[k] \in Snapshots THEN versionJson[k] ELSE None

\* GetFile reads the proto file itself, not version.json.
GetFile(k, f) == IF protoFile[k][f] = Absent THEN None ELSE protoFile[k][f]

Start(p) == pc[p] = "idle" /\ started < MaxRequests /\ started' = started + 1
Goto(p, to) == pc' = [pc EXCEPT ![p] = to]
Answer(p, status) == Goto(p, "idle") /\ answer' = [answer EXCEPT ![p] = status]
-----------------------------------------------------------------------------
\* POST /modules: the directory and then module.json.
CreateModule(p) ==
    /\ Start(p)
    /\ \E m \in Modules, v \in Versions :
         /\ key' = [key EXCEPT ![p] = <<m, v>>]
         /\ moduleDir' = moduleDir \cup {m}
    /\ Goto(p, "truncModule")
    /\ UNCHANGED <<moduleJson, versionsDir, versionDir, versionJson, protoFile,
                   mem, todo, cur, answer, crashes, acked, disturbed, scan>>

TruncModule(p) ==
    /\ pc[p] = "truncModule"
    /\ moduleJson' = [moduleJson EXCEPT ![key[p][1]] = Empty]
    /\ Goto(p, "writeModule")
    /\ UNCHANGED <<moduleDir, versionsDir, versionDir, versionJson, protoFile, key, mem,
                   todo, cur, answer, started, crashes, acked, disturbed, scan>>

WriteModule(p) ==
    /\ pc[p] = "writeModule"
    /\ moduleJson' = [moduleJson EXCEPT ![key[p][1]] = "module"]
    /\ Answer(p, "created")
    /\ UNCHANGED <<moduleDir, versionsDir, versionDir, versionJson, protoFile, key, mem,
                   todo, cur, started, crashes, acked, disturbed, scan>>

\* POST /modules/{name}/versions.  Nothing checks that the module was created
\* or that the version is new.
CreateVersion(p) ==
    /\ Start(p)
    /\ \E k \in Keys, b \in Bodies :
         /\ key' = [key EXCEPT ![p] = k]
         /\ mem' = [mem EXCEPT ![p] = [files |-> b, info |-> {}]]
         /\ todo' = [todo EXCEPT ![p] = DOMAIN b]
         /\ MkVersionDir(k)
         /\ Overlap(p, k)
    /\ Goto(p, "truncJson")
    /\ UNCHANGED <<moduleJson, versionJson, protoFile, cur, answer, crashes, acked, scan>>

TruncJson(p) ==
    /\ pc[p] = "truncJson"
    /\ versionJson' = [versionJson EXCEPT ![key[p]] = Empty]
    /\ Goto(p, "writeJson")
    /\ UNCHANGED <<moduleJson, moduleDir, versionsDir, versionDir, protoFile, key, mem,
                   todo, cur, answer, started, crashes, acked, disturbed, scan>>

\* What is left of CreateVersion: the next proto file, or the answer.
FilesOrDone(p, files) ==
    IF files = {}
    THEN /\ Answer(p, "created")
         /\ acked' = [acked EXCEPT ![key[p]] = mem[p].files]
         /\ mem' = [mem EXCEPT ![p] = None]
    ELSE Goto(p, "truncFile") /\ UNCHANGED <<answer, acked, mem>>

WriteVersionJson(p) ==
    /\ pc[p] = "writeJson"
    /\ WriteJson(key[p], mem[p])
    /\ FilesOrDone(p, todo[p])
    /\ UNCHANGED <<moduleJson, moduleDir, versionsDir, versionDir, protoFile, key, todo,
                   cur, started, crashes, disturbed, scan>>

\* The files of the request body, in the order the client sent them.
TruncFile(p) ==
    /\ pc[p] = "truncFile"
    /\ \E f \in todo[p] :
         /\ cur' = [cur EXCEPT ![p] = f]
         /\ todo' = [todo EXCEPT ![p] = @ \ {f}]
         /\ protoFile' = [protoFile EXCEPT ![key[p]][f] = Empty]
    /\ Goto(p, "writeFile")
    /\ UNCHANGED <<moduleJson, moduleDir, versionsDir, versionDir, versionJson, key, mem,
                   answer, started, crashes, acked, disturbed, scan>>

WriteFile(p) ==
    /\ pc[p] = "writeFile"
    /\ WriteProto(key[p], cur[p], mem[p].files[cur[p]])
    /\ cur' = [cur EXCEPT ![p] = None]
    /\ FilesOrDone(p, todo[p])
    /\ UNCHANGED <<moduleJson, moduleDir, versionsDir, versionDir, versionJson, key, todo,
                   started, crashes, disturbed, scan>>
-----------------------------------------------------------------------------
(* Listings read a directory and then its entries one by one; the first    *)
(* entry that cannot be read fails the whole request.                      *)
AckedVersions(ms) == {k \in Keys : k[1] \in ms /\ acked[k] # None}

\* GET /modules/{name}/versions, and GET .../versions/latest, which lists and
\* then sorts.
ListVersions(p) ==
    /\ Start(p)
    /\ \E m \in Modules :
         /\ mods' = [mods EXCEPT ![p] = {m}]
         /\ promised' = [promised EXCEPT ![p] = AckedVersions({m})]
    /\ listed' = [listed EXCEPT ![p] = {}]
    /\ Goto(p, "readDir")
    /\ UNCHANGED <<store, key, mem, todo, cur, answer, crashes, acked, disturbed>>

\* GET /modules/{name}: module.json first, then its versions.
GetModule(p) ==
    /\ Start(p)
    /\ \E m \in Modules :
         IF moduleJson[m] = "module"
         THEN /\ mods' = [mods EXCEPT ![p] = {m}]
              /\ promised' = [promised EXCEPT ![p] = AckedVersions({m})]
              /\ listed' = [listed EXCEPT ![p] = {}]
              /\ Goto(p, "readDir") /\ UNCHANGED answer
         ELSE Answer(p, "notFound") /\ UNCHANGED scan
    /\ UNCHANGED <<store, key, mem, todo, cur, crashes, acked, disturbed>>

\* GET /modules: every module.json, then the versions of every module.
ListModules(p) ==
    /\ Start(p)
    /\ todo' = [todo EXCEPT ![p] = moduleDir]
    /\ mods' = [mods EXCEPT ![p] = moduleDir]
    /\ promised' = [promised EXCEPT ![p] = AckedVersions(Modules)]
    /\ listed' = [listed EXCEPT ![p] = {}]
    /\ Goto(p, "readModules")
    /\ UNCHANGED <<store, key, mem, cur, answer, crashes, acked, disturbed>>

\* What is left of a listing: the next module, or the answer.
ListOrDone(p, ms) ==
    IF ms = {} THEN Answer(p, "ok") ELSE Goto(p, "readDir") /\ UNCHANGED answer

Fail(p) == Answer(p, "error") /\ UNCHANGED scan

ReadModules(p) ==
    /\ pc[p] = "readModules"
    /\ IF todo[p] = {}
       THEN ListOrDone(p, mods[p]) /\ UNCHANGED <<todo, scan>>
       ELSE \E m \in todo[p] :
              IF moduleJson[m] = "module"
              THEN todo' = [todo EXCEPT ![p] = @ \ {m}] /\ UNCHANGED <<pc, answer, scan>>
              ELSE todo' = [todo EXCEPT ![p] = {}] /\ Fail(p)
    /\ UNCHANGED <<store, key, mem, cur, started, crashes, acked, disturbed>>

ReadVersionsDir(p) ==
    /\ pc[p] = "readDir"
    /\ \E m \in mods[p] :
         IF m \in versionsDir
         THEN /\ todo' = [todo EXCEPT ![p] = {k \in versionDir : k[1] = m}]
              /\ mods' = [mods EXCEPT ![p] = @ \ {m}]
              /\ Goto(p, "readEntry") /\ UNCHANGED <<answer, listed, promised>>
         ELSE Fail(p) /\ UNCHANGED todo
    /\ UNCHANGED <<store, key, mem, cur, started, crashes, acked, disturbed>>

\* Mutant: an entry that cannot be read is left out of the listing.
ReadVersionEntrySkips(p) ==
    /\ pc[p] = "readEntry"
    /\ IF todo[p] = {}
       THEN ListOrDone(p, mods[p]) /\ UNCHANGED <<todo, scan>>
       ELSE \E k \in todo[p] :
              /\ todo' = [todo EXCEPT ![p] = @ \ {k}]
              /\ listed' = IF GetVersion(k) # None THEN [listed EXCEPT ![p] = @ \cup {k}] ELSE listed
              /\ UNCHANGED <<pc, answer, mods, promised>>
    /\ UNCHANGED <<store, key, mem, cur, started, crashes, acked, disturbed>>

ReadVersionEntry(p) ==
    /\ pc[p] = "readEntry"
    /\ IF todo[p] = {}
       THEN ListOrDone(p, mods[p]) /\ UNCHANGED <<todo, scan>>
       ELSE \E k \in todo[p] :
              IF GetVersion(k) # None
              THEN /\ todo' = [todo EXCEPT ![p] = @ \ {k}]
                   /\ listed' = [listed EXCEPT ![p] = @ \cup {k}]
                   /\ UNCHANGED <<pc, answer, mods, promised>>
              ELSE todo' = [todo EXCEPT ![p] = {}] /\ Fail(p)
    /\ UNCHANGED <<store, key, mem, cur, started, crashes, acked, disturbed>>
-----------------------------------------------------------------------------
(* Sprocket's compile: GetVersion, then for each language the generated    *)
(* code is added to the copy in memory and UpdateVersion writes that copy. *)
StartCompile ==
    /\ Start(Sprocket)
    /\ \E k \in Keys :
         IF GetVersion(k) = None
         THEN UNCHANGED <<pc, key, mem, todo, disturbed>>
         ELSE /\ key' = [key EXCEPT ![Sprocket] = k]
              /\ mem' = [mem EXCEPT ![Sprocket] = GetVersion(k)]
              /\ todo' = [todo EXCEPT ![Sprocket] = Languages]
              /\ Goto(Sprocket, "compile")
              /\ Overlap(Sprocket, k)
    /\ UNCHANGED <<store, cur, answer, crashes, acked, scan>>

\* A language that does not compile is logged and skipped.
CompileLanguage ==
    /\ pc[Sprocket] = "compile" /\ todo[Sprocket] # {}
    /\ \E l \in todo[Sprocket] :
         /\ todo' = [todo EXCEPT ![Sprocket] = @ \ {l}]
         /\ \/ UNCHANGED <<pc, mem>>
            \/ /\ mem' = [mem EXCEPT ![Sprocket].info = @ \cup {l}]
               /\ Goto(Sprocket, "updTrunc")
    /\ UNCHANGED <<store, key, cur, answer, started, crashes, acked, disturbed, scan>>

UpdateTrunc ==
    /\ pc[Sprocket] = "updTrunc"
    /\ MkVersionDir(key[Sprocket])
    /\ versionJson' = [versionJson EXCEPT ![key[Sprocket]] = Empty]
    /\ Goto(Sprocket, "updWrite")
    /\ UNCHANGED <<moduleJson, protoFile, key, mem, todo, cur, answer, started, crashes,
                   acked, disturbed, scan>>

UpdateWrite ==
    /\ pc[Sprocket] = "updWrite"
    /\ WriteJson(key[Sprocket], mem[Sprocket])
    /\ Goto(Sprocket, "compile")
    /\ UNCHANGED <<moduleJson, moduleDir, versionsDir, versionDir, protoFile, key, mem,
                   todo, cur, answer, started, crashes, acked, disturbed, scan>>

CompileDone ==
    /\ pc[Sprocket] = "compile" /\ todo[Sprocket] = {}
    /\ mem' = [mem EXCEPT ![Sprocket] = None]
    /\ Goto(Sprocket, "idle")
    /\ UNCHANGED <<store, key, todo, cur, answer, started, crashes, acked, disturbed, scan>>
-----------------------------------------------------------------------------
\* Keys some process of ps is in the middle of writing.
Interrupted(ps) == {k \in Keys : \E p \in ps : Writing(p, k)}

Reset(f, ps, x) == [p \in Procs |-> IF p \in ps THEN x ELSE f[p]]

\* The processes of ps die: their memory is gone, the files stay as they are.
Crash(ps) ==
    /\ crashes < MaxCrashes /\ \E p \in ps : pc[p] # "idle"
    /\ crashes' = crashes + 1
    /\ disturbed' = disturbed \cup Interrupted(ps)
    /\ pc' = Reset(pc, ps, "idle")
    /\ mem' = Reset(mem, ps, None)
    /\ todo' = Reset(todo, ps, {})
    /\ cur' = Reset(cur, ps, None)
    /\ answer' = Reset(answer, ps, "none")
    /\ UNCHANGED <<store, key, started, acked, scan>>

\* A system call of a push fails (a full disk): CreateVersion returns the
\* error at once, what it wrote stays, the handler answers 500.
PushFails(p) ==
    /\ pc[p] \in PushPCs /\ crashes < MaxCrashes
    /\ crashes' = crashes + 1
    /\ disturbed' = disturbed \cup {key[p]}
    /\ mem' = [mem EXCEPT ![p] = None]
    /\ todo' = [todo EXCEPT ![p] = {}]
    /\ cur' = [cur EXCEPT ![p] = None]
    /\ Answer(p, "error")
    /\ UNCHANGED <<store, key, started, acked, scan>>

\* A failing UpdateVersion is logged; compile goes on with the next language.
UpdateFails ==
    /\ pc[Sprocket] \in {"updTrunc", "updWrite"} /\ crashes < MaxCrashes
    /\ crashes' = crashes + 1
    /\ disturbed' = disturbed \cup {key[Sprocket]}
    /\ Goto(Sprocket, "compile")
    /\ UNCHANGED <<store, key, mem, todo, cur, answer, started, acked, scan>>

Request(p) ==
    \/ CreateModule(p) \/ TruncModule(p) \/ WriteModule(p)
    \/ CreateVersion(p) \/ TruncJson(p) \/ WriteVersionJson(p)
    \/ TruncFile(p) \/ WriteFile(p) \/ PushFails(p)
    \/ ListVersions(p) \/ GetModule(p) \/ ListModules(p)
    \/ ReadModules(p) \/ ReadVersionsDir(p) \/ ReadVersionEntry(p)

SprocketStep ==
    \/ StartCompile \/ CompileLanguage \/ UpdateTrunc \/ UpdateWrite
    \/ CompileDone \/ UpdateFails

Next ==
    \/ \E p \in Clients : Request(p)
    \/ SprocketStep
    \/ Crash(Clients)
    \/ Crash({Sprocket})

Spec == Init /\ [][Next]_vars
-----------------------------------------------------------------------------
TypeOK ==
    /\ moduleJson \in [Modules -> {Absent, Empty, "module"}]
    /\ moduleDir \subseteq Modules /\ versionsDir \subseteq moduleDir
    /\ versionDir \subseteq Keys
    /\ versionJson \in [Keys -> Snapshots \cup {Absent, Empty, Mixed}]
    /\ protoFile \in [Keys -> [Paths -> Nat \cup {Absent, Empty, Mixed}]]
    /\ pc \in [Procs -> {"idle"} \cup PushPCs \cup UpdatePCs \cup ModulePCs \cup ListPCs]
    /\ \A p \in Clients : pc[p] \notin UpdatePCs
    /\ pc[Sprocket] \in {"idle"} \cup UpdatePCs
    /\ key \in [Procs -> Keys]
    /\ mem \in [Procs -> Snapshots \cup {None}]
    /\ todo \in [Procs -> SUBSET (Paths \cup Languages \cup Modules \cup Keys)]
    /\ cur \in [Procs -> Paths \cup {None}]
    /\ mods \in [Procs -> SUBSET Modules]
    /\ listed \in [Procs -> SUBSET Keys] /\ promised \in [Procs -> SUBSET Keys]
    /\ answer \in [Procs -> {"none", "created", "ok", "notFound", "error"}]
    /\ acked \in [Keys -> Bodies \cup {None}]
    /\ disturbed \subseteq Keys
    /\ started \in 0..MaxRequests /\ crashes \in 0..MaxCrashes

\* CreateVersion writes version.json before any proto file: a version whose
\* files can be fetched is a version that was announced.
MetadataBeforeFiles ==
    \A k \in Keys : \A f \in Paths : GetFile(k, f) # None => versionJson[k] # Absent

\* A push answered 201, with no overlapping writer and no interrupted one,
\* is what GetVersion and GetFile serve: compilation results that UpdateVersion
\* writes back never replace the pushed files.
AckedPushServed ==
    \A k \in Keys :
        acked[k] # None /\ k \notin disturbed /\ ~Busy(k) =>
            /\ GetVersion(k) # None /\ GetVersion(k).files = acked[k]
            /\ \A f \in DOMAIN acked[k] : GetFile(k, f) = acked[k][f]

\* ListVersions and ListModules fail as a whole on one unreadable entry; that
\* needs a write in flight or one that was cut short or overlapped.
ListingAvailable ==
    \A k \in versionDir : ~Busy(k) /\ k \notin disturbed => GetVersion(k) # None

\* A listing that succeeds leaves out no version whose push was acknowledged
\* before the listing began.
ListingComplete ==
    \A p \in Clients : pc[p] = "idle" /\ answer[p] = "ok" => promised[p] \subseteq listed[p]

\* Both: what is listed is whole.  pkg/storage/filesystem.go:92 and 114
ListingsWhole == ListingAvailable /\ ListingComplete

\* docs/content/getting-started/first-module.md:513 has the server refuse a
\* version that exists already: an acknowledged version is final.
AckedVersionFinal ==
    [][\A k \in Keys : acked[k] # None => acked'[k] = acked[k]]_vars
=============================================================================
