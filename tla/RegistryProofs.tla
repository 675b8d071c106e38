--------------------------- MODULE RegistryProofs ---------------------------
(***************************************************************************)
(* The file system registry for any number of modules, versions, files,    *)
(* languages and request goroutines, any number of requests and crashes:   *)
(* type correctness, version.json before the files, that an undisturbed    *)
(* push is served as it was acknowledged, and that a listing is complete.  *)
(***************************************************************************)
EXTENDS Registry, TLAPS

\* What a process keeps in memory while it writes a version.
LocalInv ==
    \A p \in Procs :
        /\ pc[p] \in PushPCs \cup UpdatePCs => mem[p] \in Snapshots
        /\ pc[p] \in PushPCs => todo[p] \subseteq DOMAIN mem[p].files
        /\ pc[p] \in {"truncJson", "writeJson"} => todo[p] = DOMAIN mem[p].files
        /\ pc[p] \in UpdatePCs => todo[p] \subseteq Languages
        /\ pc[p] = "readModules" => todo[p] \subseteq Modules
        /\ pc[p] = "readEntry" => todo[p] \subseteq Keys
        /\ pc[p] = "writeFile" => cur[p] \in DOMAIN mem[p].files \ todo[p]

TypeInv == TypeOK /\ LocalInv

\* A push that has reached its files has left a version.json behind.
JsonFirst ==
    \A p \in Procs : pc[p] \in {"truncFile", "writeFile"} => versionJson[key[p]] # Absent

MetadataInv == TypeInv /\ JsonFirst /\ MetadataBeforeFiles

\* Everything written lies in a version directory.
InDirectory ==
    /\ \A p \in Procs : pc[p] \in PushPCs \cup UpdatePCs => key[p] \in versionDir
    /\ \A k \in Keys : versionJson[k] # Absent \/ acked[k] # None => k \in versionDir

OneWriter ==
    \A k \in Keys \ disturbed : \A p, q \in Procs : Writing(p, k) /\ Writing(q, k) => p = q

\* The files of the last acknowledged push are on disk.
ProtosMatch(k) == \A f \in DOMAIN acked[k] : protoFile[k][f] = acked[k][f]
Matches(k, files) == acked[k] # None => acked[k] = files /\ ProtosMatch(k)

\* An undisturbed push: what it has written so far is there.
PushOK(p) ==
    pc[p] \in PushPCs /\ key[p] \notin disturbed =>
        /\ pc[p] = "writeJson" => versionJson[key[p]] = Empty
        /\ pc[p] \in {"truncFile", "writeFile"} =>
              /\ versionJson[key[p]] = mem[p]
              /\ \A f \in DOMAIN mem[p].files \ todo[p] :
                    protoFile[key[p]][f] =
                        IF pc[p] = "writeFile" /\ f = cur[p] THEN Empty ELSE mem[p].files[f]

\* An undisturbed compilation: its copy is the version on disk.
UpdateOK ==
    pc[Sprocket] \in UpdatePCs /\ key[Sprocket] \notin disturbed =>
        /\ pc[Sprocket] = "updWrite" => versionJson[key[Sprocket]] = Empty
        /\ pc[Sprocket] # "updWrite" => /\ versionJson[key[Sprocket]] \in Snapshots
                                        /\ versionJson[key[Sprocket]].files = mem[Sprocket].files
        /\ Matches(key[Sprocket], mem[Sprocket].files)

\* A version nobody is writing is readable, and is what was acknowledged.
SettledOK(k) ==
    k \in versionDir \ disturbed /\ ~Busy(k) =>
        versionJson[k] \in Snapshots /\ Matches(k, versionJson[k].files)

ServedInv ==
    /\ TypeInv /\ InDirectory /\ OneWriter
    /\ \A p \in Clients : PushOK(p)
    /\ UpdateOK
    /\ \A k \in Keys : SettledOK(k)
-----------------------------------------------------------------------------
\* os.WriteFile leaves what it wrote, or a mixture, and exactly what it wrote
\* when it found the file it had truncated.
LEMMA WrittenLemma ==
  ASSUME NEW old, NEW new, NEW longer \in BOOLEAN
  PROVE  /\ Written(old, new, longer) \subseteq {new, Mixed}
         /\ old = Empty => Written(old, new, longer) = {new}
<1>1. CASE old \in {Absent, Empty}
  BY <1>1, RegistryAssumption DEF Written
<1>2. CASE old = Mixed
  BY <1>2, RegistryAssumption DEF Written
<1>3. CASE old \notin {Absent, Empty, Mixed}
  BY <1>3 DEF Written
<1> QED
  BY <1>1, <1>2, <1>3

\* A write of version.json touches one version and leaves the new contents
\* or a mixture there.
LEMMA WriteJsonLemma ==
  ASSUME TypeOK, NEW k \in Keys, NEW s \in Snapshots, WriteJson(k, s)
  PROVE  /\ versionJson' \in [Keys -> Snapshots \cup {Absent, Empty, Mixed}]
         /\ \A j \in Keys \ {k} : versionJson'[j] = versionJson[j]
         /\ versionJson'[k] \in {s, Mixed}
         /\ versionJson[k] = Empty => versionJson'[k] = s
<1>1. PICK r \in Written(versionJson[k], s,
                         versionJson[k] \in Snapshots /\ SnapSize(versionJson[k]) > SnapSize(s)) :
        versionJson' = [versionJson EXCEPT ![k] = r]
  BY DEF WriteJson
<1>2. r \in {s, Mixed} /\ (versionJson[k] = Empty => r = s)
  BY <1>1, WrittenLemma
<1> QED
  BY <1>1, <1>2 DEF TypeOK

\* The same of a proto file.
LEMMA WriteProtoLemma ==
  ASSUME TypeOK, NEW k \in Keys, NEW f \in Paths, NEW c \in Nat, WriteProto(k, f, c)
  PROVE  /\ protoFile' \in [Keys -> [Paths -> Nat \cup {Absent, Empty, Mixed}]]
         /\ \A j \in Keys \ {k} : protoFile'[j] = protoFile[j]
         /\ \A g \in Paths \ {f} : protoFile'[k][g] = protoFile[k][g]
         /\ protoFile'[k][f] \in {c, Mixed}
         /\ protoFile[k][f] = Empty => protoFile'[k][f] = c
<1>1. PICK r \in Written(protoFile[k][f], c, protoFile[k][f] \in Nat /\ protoFile[k][f] > c) :
        protoFile' = [protoFile EXCEPT ![k][f] = r]
  BY DEF WriteProto
<1>2. r \in {c, Mixed} /\ (protoFile[k][f] = Empty => r = c)
  BY <1>1, WrittenLemma
<1> QED
  BY <1>1, <1>2 DEF TypeOK

\* What a snapshot and a body are made of.
LEMMA SnapshotLemma ==
  ASSUME NEW s \in Snapshots
  PROVE  /\ s.files \in Bodies /\ s.info \subseteq Languages
         /\ DOMAIN s.files \subseteq Paths
         /\ \A f \in DOMAIN s.files : s.files[f] \in Nat
         /\ s \notin {Absent, Empty, Mixed, None} /\ s.files # None
  BY RegistryAssumption DEF Snapshots
-----------------------------------------------------------------------------
\* The empty storage directory.
LEMMA InitType == Init => TypeInv
<1> SUFFICES ASSUME Init PROVE TypeInv
  OBVIOUS
<1>1. started \in 0..MaxRequests /\ crashes \in 0..MaxCrashes
  BY RegistryAssumption DEF Init
<1>2. \A p \in Procs : pc[p] = "idle"
  BY DEF Init
<1>3. TypeOK
  BY <1>1, <1>2 DEF Init, TypeOK, Procs, PushPCs, UpdatePCs, ModulePCs, ListPCs
<1>4. LocalInv
  BY <1>2 DEF LocalInv, PushPCs, UpdatePCs
<1> QED
  BY <1>3, <1>4 DEF TypeInv

\* Every request, compilation step, failure and crash keeps the types, and a
\* process that is writing holds the body it has still to write.
LEMMA NextType == TypeInv /\ [Next]_vars => TypeInv'
<1> SUFFICES ASSUME TypeInv, [Next]_vars PROVE TypeInv'
  OBVIOUS
<1>a. MaxRequests \in Nat /\ MaxCrashes \in Nat /\ Sprocket \notin Clients
  BY RegistryAssumption
<1> USE <1>a DEF TypeInv, TypeOK, LocalInv, Procs, PushPCs, UpdatePCs, ModulePCs,
        ListPCs, Start, Goto, Answer, scan, store
<1>1. ASSUME NEW p \in Clients, CreateModule(p) PROVE TypeInv'
  BY <1>1 DEF CreateModule, Keys
<1>2. ASSUME NEW p \in Clients, TruncModule(p) PROVE TypeInv'
  BY <1>2 DEF TruncModule
<1>3. ASSUME NEW p \in Clients, WriteModule(p) PROVE TypeInv'
  BY <1>3 DEF WriteModule
<1>4. ASSUME NEW p \in Clients, CreateVersion(p) PROVE TypeInv'
  <2> PICK k \in Keys, b \in Bodies :
         /\ key' = [key EXCEPT ![p] = k]
         /\ mem' = [mem EXCEPT ![p] = [files |-> b, info |-> {}]]
         /\ todo' = [todo EXCEPT ![p] = DOMAIN b]
         /\ MkVersionDir(k) /\ Overlap(p, k)
    BY <1>4 DEF CreateVersion
  <2>1. [files |-> b, info |-> {}] \in Snapshots
    BY DEF Snapshots
  <2>2. DOMAIN b \in SUBSET (Paths \cup Languages \cup Modules \cup Keys)
    BY RegistryAssumption
  <2>3. k[1] \in Modules
    BY DEF Keys
  <2>t. TypeOK'
    BY <1>4, <2>1, <2>2, <2>3 DEF CreateVersion, MkVersionDir, Overlap
  <2>l. LocalInv'
    BY <1>4, <2>1 DEF CreateVersion, MkVersionDir, Overlap, Keys
  <2> QED
    BY <2>t, <2>l
<1>5. ASSUME NEW p \in Clients, TruncJson(p) PROVE TypeInv'
  BY <1>5 DEF TruncJson
<1>6. ASSUME NEW p \in Clients, WriteVersionJson(p) PROVE TypeInv'
  <2>1. mem[p] \in Snapshots /\ key[p] \in Keys
    BY <1>6 DEF WriteVersionJson
  <2>2. versionJson' \in [Keys -> Snapshots \cup {Absent, Empty, Mixed}]
    BY <1>6, <2>1, WriteJsonLemma DEF WriteVersionJson
  <2>3. mem[p].files \in Bodies
    BY <2>1, SnapshotLemma
  <2>t. TypeOK'
    <3>1. CASE todo[p] = {}
      <4>1. /\ Answer(p, "created")
            /\ acked' = [acked EXCEPT ![key[p]] = mem[p].files]
            /\ mem' = [mem EXCEPT ![p] = None]
        BY <1>6, <3>1 DEF WriteVersionJson, FilesOrDone
      <4>2. UNCHANGED <<moduleJson, moduleDir, versionsDir, versionDir, protoFile, key, todo,
                        cur, started, crashes, disturbed, scan>>
        BY <1>6 DEF WriteVersionJson
      <4> QED
        BY <2>1, <2>2, <2>3, <4>1, <4>2
    <3>2. CASE todo[p] # {}
      BY <1>6, <2>2, <3>2 DEF WriteVersionJson, FilesOrDone
    <3> QED
      BY <3>1, <3>2
  <2>l. LocalInv'
    BY <1>6, <2>1, <2>2, SnapshotLemma DEF WriteVersionJson, FilesOrDone
  <2> QED
    BY <2>t, <2>l
<1>7. ASSUME NEW p \in Clients, TruncFile(p) PROVE TypeInv'
  <2> PICK f \in todo[p] :
         /\ cur' = [cur EXCEPT ![p] = f]
         /\ todo' = [todo EXCEPT ![p] = @ \ {f}]
         /\ protoFile' = [protoFile EXCEPT ![key[p]][f] = Empty]
    BY <1>7 DEF TruncFile
  <2>1. f \in Paths /\ key[p] \in Keys
    BY <1>7, SnapshotLemma DEF TruncFile
  <2>2. protoFile' \in [Keys -> [Paths -> Nat \cup {Absent, Empty, Mixed}]]
    BY <2>1
  <2>t. TypeOK'
    BY <1>7, <2>1, <2>2 DEF TruncFile
  <2>l. LocalInv'
    BY <1>7 DEF TruncFile
  <2> QED
    BY <2>t, <2>l
<1>8. ASSUME NEW p \in Clients, WriteFile(p) PROVE TypeInv'
  <2>1. mem[p] \in Snapshots /\ key[p] \in Keys /\ cur[p] \in DOMAIN mem[p].files
    BY <1>8 DEF WriteFile
  <2>2. cur[p] \in Paths /\ mem[p].files[cur[p]] \in Nat /\ mem[p].files \in Bodies
    BY <2>1, SnapshotLemma
  <2>3. protoFile' \in [Keys -> [Paths -> Nat \cup {Absent, Empty, Mixed}]]
    BY <1>8, <2>1, <2>2, WriteProtoLemma DEF WriteFile
  <2>t. TypeOK'
    <3>1. CASE todo[p] = {}
      <4>1. /\ Answer(p, "created")
            /\ acked' = [acked EXCEPT ![key[p]] = mem[p].files]
            /\ mem' = [mem EXCEPT ![p] = None]
        BY <1>8, <3>1 DEF WriteFile, FilesOrDone
      <4>2. /\ cur' = [cur EXCEPT ![p] = None]
            /\ UNCHANGED <<moduleJson, moduleDir, versionsDir, versionDir, versionJson, key,
                           todo, started, crashes, disturbed, scan>>
        BY <1>8 DEF WriteFile
      <4> QED
        BY <2>1, <2>2, <2>3, <4>1, <4>2
    <3>2. CASE todo[p] # {}
      BY <1>8, <2>3, <3>2 DEF WriteFile, FilesOrDone
    <3> QED
      BY <3>1, <3>2
  <2>l. LocalInv'
    BY <1>8, <2>1, <2>2, <2>3 DEF WriteFile, FilesOrDone
  <2> QED
    BY <2>t, <2>l
<1>9. ASSUME NEW p \in Clients, PushFails(p) PROVE TypeInv'
  BY <1>9 DEF PushFails
<1>10. ASSUME NEW p \in Clients, ListVersions(p) PROVE TypeInv'
  <2>t. TypeOK'
    BY <1>10 DEF ListVersions, AckedVersions
  <2>l. LocalInv'
    BY <1>10 DEF ListVersions, AckedVersions
  <2> QED
    BY <2>t, <2>l
<1>11. ASSUME NEW p \in Clients, GetModule(p) PROVE TypeInv'
  <2>t. TypeOK'
    <3>pick. PICK m \in Modules :
           IF moduleJson[m] = "module"
           THEN /\ mods' = [mods EXCEPT ![p] = {m}]
                /\ promised' = [promised EXCEPT ![p] = AckedVersions({m})]
                /\ listed' = [listed EXCEPT ![p] = {}]
                /\ Goto(p, "readDir") /\ UNCHANGED answer
           ELSE Answer(p, "notFound") /\ UNCHANGED scan
      BY <1>11 DEF GetModule
    <3>1. /\ Start(p)
          /\ UNCHANGED <<store, key, mem, todo, cur, crashes, acked, disturbed>>
      BY <1>11 DEF GetModule
    <3>2. AckedVersions({m}) \in SUBSET Keys
      BY DEF AckedVersions
    <3>3. CASE moduleJson[m] = "module"
      <4>1. /\ mods' = [mods EXCEPT ![p] = {m}]
            /\ promised' = [promised EXCEPT ![p] = AckedVersions({m})]
            /\ listed' = [listed EXCEPT ![p] = {}]
            /\ pc' = [pc EXCEPT ![p] = "readDir"] /\ answer' = answer
        BY <3>pick, <3>3
      <4>2. mods' \in [Procs -> SUBSET Modules]
        BY <4>1
      <4>3. listed' \in [Procs -> SUBSET Keys] /\ promised' \in [Procs -> SUBSET Keys]
        BY <3>2, <4>1
      <4>4. /\ UNCHANGED <<store, key, mem, todo, cur, crashes, acked, disturbed, answer>>
            /\ started' \in 0..MaxRequests
            /\ pc' = [pc EXCEPT ![p] = "readDir"]
        BY <3>1, <4>1
      <4> QED
        BY <4>2, <4>3, <4>4
    <3>4. CASE moduleJson[m] # "module"
      <4>1. /\ pc' = [pc EXCEPT ![p] = "idle"]
            /\ answer' = [answer EXCEPT ![p] = "notFound"]
            /\ mods' = mods /\ listed' = listed /\ promised' = promised
        BY <3>pick, <3>4
      <4> QED
        BY <3>1, <4>1
    <3> QED
      BY <3>3, <3>4
  <2>l. LocalInv'
    BY <1>11 DEF GetModule, AckedVersions
  <2> QED
    BY <2>t, <2>l
<1>12. ASSUME NEW p \in Clients, ListModules(p) PROVE TypeInv'
  <2>t. TypeOK'
    BY <1>12 DEF ListModules, AckedVersions
  <2>l. LocalInv'
    BY <1>12 DEF ListModules, AckedVersions
  <2> QED
    BY <2>t, <2>l
<1>13. ASSUME NEW p \in Clients, ReadModules(p) PROVE TypeInv'
  <2>1. CASE todo[p] = {}
    <3>1. /\ pc[p] = "readModules"
          /\ ListOrDone(p, mods[p])
          /\ UNCHANGED <<todo, scan, store, key, mem, cur, started, crashes, acked, disturbed>>
      BY <1>13, <2>1 DEF ReadModules
    <3>2. CASE mods[p] = {}
      <4>1. /\ pc' = [pc EXCEPT ![p] = "idle"]
            /\ answer' = [answer EXCEPT ![p] = "ok"]
        BY <3>1, <3>2 DEF ListOrDone
      <4>2. TypeOK'
        BY <3>1, <4>1
      <4>3. LocalInv'
        BY <3>1, <4>1
      <4> QED
        BY <4>2, <4>3
    <3>3. CASE mods[p] # {}
      <4>1. pc' = [pc EXCEPT ![p] = "readDir"] /\ answer' = answer
        BY <3>1, <3>3 DEF ListOrDone
      <4>2. TypeOK'
        BY <3>1, <4>1
      <4>3. LocalInv'
        BY <3>1, <4>1
      <4> QED
        BY <4>2, <4>3
    <3> QED
      BY <3>2, <3>3
  <2>2. ASSUME NEW m \in todo[p], moduleJson[m] = "module",
               todo' = [todo EXCEPT ![p] = @ \ {m}], UNCHANGED <<pc, answer, scan>>
        PROVE  TypeInv'
    BY <1>13, <2>2 DEF ReadModules
  <2>3. CASE todo' = [todo EXCEPT ![p] = {}] /\ Fail(p)
    BY <1>13, <2>3 DEF ReadModules, Fail
  <2> QED
    BY <1>13, <2>1, <2>2, <2>3 DEF ReadModules
<1>14. ASSUME NEW p \in Clients, ReadVersionsDir(p) PROVE TypeInv'
  <2>t. TypeOK'
    <3>1. CASE Fail(p) /\ UNCHANGED todo
      BY <1>14, <3>1 DEF ReadVersionsDir, Fail
    <3>2. ASSUME NEW m \in mods[p],
                 todo' = [todo EXCEPT ![p] = {k \in versionDir : k[1] = m}],
                 mods' = [mods EXCEPT ![p] = @ \ {m}],
                 Goto(p, "readEntry"), UNCHANGED <<answer, listed, promised>>
          PROVE  TypeOK'
      BY <1>14, <3>2 DEF ReadVersionsDir
    <3> QED
      BY <1>14, <3>1, <3>2 DEF ReadVersionsDir
  <2>l. LocalInv'
    BY <1>14 DEF ReadVersionsDir, Fail
  <2> QED
    BY <2>t, <2>l
<1>15. ASSUME NEW p \in Clients, ReadVersionEntry(p) PROVE TypeInv'
  <2>t. TypeOK'
    <3>1. CASE todo[p] = {}
      BY <1>15, <3>1 DEF ReadVersionEntry, ListOrDone
    <3>2. ASSUME NEW k \in todo[p], todo' = [todo EXCEPT ![p] = @ \ {k}],
                 listed' = [listed EXCEPT ![p] = @ \cup {k}],
                 UNCHANGED <<pc, answer, mods, promised>>
          PROVE  TypeOK'
      BY <1>15, <3>2 DEF ReadVersionEntry
    <3>3. CASE todo' = [todo EXCEPT ![p] = {}] /\ Fail(p)
      BY <1>15, <3>3 DEF ReadVersionEntry, Fail
    <3> QED
      BY <1>15, <3>1, <3>2, <3>3 DEF ReadVersionEntry
  <2>l. LocalInv'
    BY <1>15 DEF ReadVersionEntry, ListOrDone, Fail
  <2> QED
    BY <2>t, <2>l
<1>16. CASE StartCompile
  BY <1>16 DEF StartCompile, GetVersion, Overlap
<1>17. CASE CompileLanguage
  <2>1. mem[Sprocket] \in Snapshots
    BY <1>17 DEF CompileLanguage
  <2>2. \A l \in todo[Sprocket] : l \in Languages
    BY <1>17 DEF CompileLanguage
  <2> PICK l \in todo[Sprocket] :
         /\ todo' = [todo EXCEPT ![Sprocket] = @ \ {l}]
         /\ \/ UNCHANGED <<pc, mem>>
            \/ /\ mem' = [mem EXCEPT ![Sprocket].info = @ \cup {l}]
               /\ Goto(Sprocket, "updTrunc")
    BY <1>17 DEF CompileLanguage
  <2>3. /\ pc[Sprocket] = "compile"
        /\ UNCHANGED <<store, key, cur, answer, started, crashes, acked, disturbed, scan>>
    BY <1>17 DEF CompileLanguage
  <2>4. [mem[Sprocket] EXCEPT !.info = @ \cup {l}] \in Snapshots
    BY <2>1, <2>2 DEF Snapshots
  <2>5. CASE UNCHANGED <<pc, mem>>
    BY <2>3, <2>5
  <2>6. CASE mem' = [mem EXCEPT ![Sprocket].info = @ \cup {l}] /\ Goto(Sprocket, "updTrunc")
    BY <2>2, <2>3, <2>4, <2>6
  <2> QED
    BY <2>5, <2>6
<1>18. CASE UpdateTrunc
  BY <1>18 DEF UpdateTrunc, MkVersionDir, Keys
<1>19. CASE UpdateWrite
  <2>1. mem[Sprocket] \in Snapshots /\ key[Sprocket] \in Keys
    BY <1>19 DEF UpdateWrite
  <2>2. versionJson' \in [Keys -> Snapshots \cup {Absent, Empty, Mixed}]
    BY <1>19, <2>1, WriteJsonLemma DEF UpdateWrite
  <2> QED
    BY <1>19, <2>1, <2>2 DEF UpdateWrite
<1>20. CASE CompileDone
  BY <1>20 DEF CompileDone
<1>21. CASE UpdateFails
  BY <1>21 DEF UpdateFails
<1>22. ASSUME NEW ps \in {Clients, {Sprocket}}, Crash(ps) PROVE TypeInv'
  BY <1>22 DEF Crash, Reset, Interrupted
<1>23. CASE UNCHANGED vars
  BY <1>23 DEF vars, local, history
<1> QED
  BY <1>1, <1>2, <1>3, <1>4, <1>5, <1>6, <1>7, <1>8, <1>9, <1>10, <1>11, <1>12, <1>13, <1>14,
     <1>15, <1>16, <1>17, <1>18, <1>19, <1>20, <1>21, <1>22, <1>23
  DEF Next, Request, SprocketStep

\* The storage directory and the requests on it are type correct.
THEOREM TypeCorrect == Spec => []TypeOK
<1>1. TypeInv => TypeOK
  BY DEF TypeInv
<1> QED
  BY <1>1, InitType, NextType, PTL DEF Spec
-----------------------------------------------------------------------------
\* A step that writes no version and moves no process that is writing one.
WritePCs == PushPCs \cup UpdatePCs

Quiet ==
    /\ UNCHANGED <<versionDir, versionJson, protoFile, acked, disturbed>>
    /\ \A q \in Procs : pc[q] \in WritePCs \/ pc'[q] \in WritePCs =>
          /\ pc'[q] = pc[q] /\ key'[q] = key[q] /\ mem'[q] = mem[q]
          /\ todo'[q] = todo[q] /\ cur'[q] = cur[q]

QuietStep(p) ==
    \/ CreateModule(p) \/ TruncModule(p) \/ WriteModule(p)
    \/ ListVersions(p) \/ GetModule(p) \/ ListModules(p)
    \/ ReadModules(p) \/ ReadVersionsDir(p) \/ ReadVersionEntry(p)

\* Creating a module and listing are quiet.
LEMMA QuietLemma == ASSUME TypeInv, NEW p \in Clients, QuietStep(p) PROVE Quiet
<1> USE DEF TypeInv, TypeOK, Quiet, WritePCs, PushPCs, UpdatePCs, Procs, Start, Goto, Answer,
        scan, store
<1>1. CASE CreateModule(p) \/ TruncModule(p) \/ WriteModule(p)
  BY <1>1 DEF CreateModule, TruncModule, WriteModule
<1>2. CASE ListVersions(p) \/ GetModule(p) \/ ListModules(p)
  BY <1>2 DEF ListVersions, GetModule, ListModules
<1>3. CASE ReadModules(p)
  BY <1>3 DEF ReadModules, ListOrDone, Fail
<1>4. CASE ReadVersionsDir(p)
  BY <1>4 DEF ReadVersionsDir, Fail
<1>5. CASE ReadVersionEntry(p)
  BY <1>5 DEF ReadVersionEntry, ListOrDone, Fail
<1> QED
  BY <1>1, <1>2, <1>3, <1>4, <1>5 DEF QuietStep

\* Once there, version.json may be truncated or overwritten but not removed.
LEMMA JsonStays ==
  ASSUME TypeInv, [Next]_vars, NEW k \in Keys, versionJson[k] # Absent
  PROVE  versionJson'[k] # Absent
<1> USE DEF TypeInv
<1>a. Empty # Absent /\ Mixed # Absent /\ \A s \in Snapshots : s # Absent
  BY RegistryAssumption, SnapshotLemma
<1>1. ASSUME NEW p \in Clients, QuietStep(p) PROVE versionJson'[k] # Absent
  BY <1>1, QuietLemma DEF Quiet
<1>2. ASSUME NEW p \in Clients, CreateVersion(p) \/ TruncFile(p) \/ WriteFile(p) \/ PushFails(p)
      PROVE  versionJson'[k] # Absent
  BY <1>2 DEF CreateVersion, TruncFile, WriteFile, PushFails, store
<1>3. ASSUME NEW p \in Clients, TruncJson(p) PROVE versionJson'[k] # Absent
  BY <1>3, <1>a DEF TruncJson, TypeOK
<1>4. ASSUME NEW p \in Clients, WriteVersionJson(p) PROVE versionJson'[k] # Absent
  <2>1. mem[p] \in Snapshots /\ key[p] \in Keys /\ WriteJson(key[p], mem[p])
    BY <1>4 DEF WriteVersionJson, LocalInv, PushPCs, TypeOK, Procs
  <2> QED
    BY <1>a, <2>1, WriteJsonLemma
<1>5. CASE StartCompile \/ CompileLanguage \/ CompileDone \/ UpdateFails
  BY <1>5 DEF StartCompile, CompileLanguage, CompileDone, UpdateFails, store
<1>6. CASE UpdateTrunc
  BY <1>6, <1>a DEF UpdateTrunc, TypeOK
<1>7. CASE UpdateWrite
  <2>1. mem[Sprocket] \in Snapshots /\ key[Sprocket] \in Keys
    BY <1>7 DEF UpdateWrite, LocalInv, UpdatePCs, TypeOK, Procs
  <2> QED
    BY <1>7, <1>a, <2>1, WriteJsonLemma DEF UpdateWrite
<1>8. ASSUME NEW ps \in {Clients, {Sprocket}}, Crash(ps) PROVE versionJson'[k] # Absent
  BY <1>8 DEF Crash, store
<1>9. CASE UNCHANGED vars
  BY <1>9 DEF vars, store
<1> QED
  BY <1>1, <1>2, <1>3, <1>4, <1>5, <1>6, <1>7, <1>8, <1>9
  DEF Next, Request, SprocketStep, QuietStep

\* A step that does not write proto files and sends no process to write them.
LEMMA MetadataStable ==
  ASSUME MetadataInv, TypeInv', [Next]_vars, protoFile' = protoFile,
         \A q \in Procs : pc'[q] \in {"truncFile", "writeFile"} =>
             key'[q] \in Keys /\ versionJson'[key'[q]] # Absent
  PROVE  MetadataInv'
<1>1. \A k \in Keys : versionJson[k] # Absent => versionJson'[k] # Absent
  BY JsonStays DEF MetadataInv
<1> QED
  BY <1>1 DEF MetadataInv, JsonFirst, MetadataBeforeFiles, GetFile

\* CreateVersion writes version.json before any proto file, whatever else
\* happens to the version in the meantime.
LEMMA NextMetadata == MetadataInv /\ [Next]_vars => MetadataInv'
<1> SUFFICES ASSUME MetadataInv, [Next]_vars PROVE MetadataInv'
  OBVIOUS
<1>t. TypeInv /\ TypeInv' /\ TypeOK
  BY NextType DEF MetadataInv, TypeInv
<1>j. \A k \in Keys : versionJson[k] # Absent => versionJson'[k] # Absent
  BY <1>t, JsonStays
<1>f. \A q \in Procs : key[q] \in Keys
  BY <1>t DEF TypeOK
<1>1. ASSUME NEW p \in Clients, QuietStep(p) PROVE MetadataInv'
  BY <1>1, <1>t, <1>f, QuietLemma, MetadataStable
  DEF Quiet, WritePCs, PushPCs, MetadataInv, JsonFirst
<1>2. ASSUME NEW p \in Clients, CreateVersion(p) \/ TruncJson(p) \/ PushFails(p)
      PROVE  MetadataInv'
  <2>1. \A q \in Procs : pc'[q] \in {"truncFile", "writeFile"} => pc[q] = pc'[q] /\ key'[q] = key[q]
    BY <1>2, <1>t DEF CreateVersion, TruncJson, PushFails, Goto, Answer, TypeOK, Procs
  <2>2. protoFile' = protoFile
    BY <1>2 DEF CreateVersion, TruncJson, PushFails, store
  <2> QED
    BY <1>t, <1>j, <1>f, <2>1, <2>2, MetadataStable DEF MetadataInv, JsonFirst
<1>3. ASSUME NEW p \in Clients, WriteVersionJson(p) PROVE MetadataInv'
  <2>1. mem[p] \in Snapshots /\ key[p] \in Keys
    BY <1>3, <1>t DEF WriteVersionJson, TypeInv, LocalInv, PushPCs, TypeOK, Procs
  <2>2. versionJson'[key[p]] # Absent
    BY <1>3, <1>t, <2>1, WriteJsonLemma, SnapshotLemma, RegistryAssumption DEF WriteVersionJson
  <2>3. \A q \in Procs \ {p} : pc'[q] = pc[q]
    BY <1>3, <1>t DEF WriteVersionJson, FilesOrDone, Goto, Answer, TypeOK
  <2>4. protoFile' = protoFile /\ key' = key
    BY <1>3 DEF WriteVersionJson
  <2> QED
    BY <1>t, <1>j, <1>f, <2>2, <2>3, <2>4, MetadataStable DEF MetadataInv, JsonFirst
<1>4. ASSUME NEW p \in Clients, TruncFile(p) \/ WriteFile(p) PROVE MetadataInv'
  <2>1. versionJson[key[p]] # Absent /\ key[p] \in Keys
    BY <1>4, <1>f DEF TruncFile, WriteFile, MetadataInv, JsonFirst, Procs
  <2>2. versionJson' = versionJson /\ key' = key
    BY <1>4 DEF TruncFile, WriteFile
  <2>3. \A q \in Procs \ {p} : pc'[q] = pc[q]
    BY <1>4, <1>t DEF TruncFile, WriteFile, FilesOrDone, Goto, Answer, TypeOK
  <2>4. \A j \in Keys \ {key[p]} : protoFile'[j] = protoFile[j]
    <3>1. CASE TruncFile(p)
      BY <3>1, <1>t DEF TruncFile, TypeOK
    <3>2. CASE WriteFile(p)
      <4>1. mem[p] \in Snapshots /\ cur[p] \in DOMAIN mem[p].files
        BY <3>2, <1>t DEF WriteFile, TypeInv, LocalInv, PushPCs, Procs
      <4> QED
        BY <3>2, <1>t, <1>f, <2>1, <4>1, SnapshotLemma, WriteProtoLemma DEF WriteFile
    <3> QED
      BY <1>4, <3>1, <3>2
  <2> QED
    BY <1>t, <2>1, <2>2, <2>3, <2>4 DEF MetadataInv, JsonFirst, MetadataBeforeFiles, GetFile
<1>5. CASE SprocketStep
  <2>1. protoFile' = protoFile
    BY <1>5 DEF SprocketStep, StartCompile, CompileLanguage, UpdateTrunc, UpdateWrite,
                CompileDone, UpdateFails, store
  <2>2. pc'[Sprocket] \in {"idle"} \cup UpdatePCs
    BY <1>t DEF TypeInv, TypeOK
  <2>3. \A q \in Procs \ {Sprocket} : pc'[q] = pc[q] /\ key'[q] = key[q]
    BY <1>5, <1>t DEF SprocketStep, StartCompile, CompileLanguage, UpdateTrunc, UpdateWrite,
                CompileDone, UpdateFails, Goto, TypeOK
  <2> QED
    BY <1>t, <1>j, <1>f, <2>1, <2>2, <2>3, MetadataStable DEF MetadataInv, JsonFirst, UpdatePCs
<1>6. ASSUME NEW ps \in {Clients, {Sprocket}}, Crash(ps) PROVE MetadataInv'
  <2>1. \A q \in Procs : pc'[q] # "idle" => pc'[q] = pc[q]
    BY <1>6 DEF Crash, Reset
  <2>2. protoFile' = protoFile /\ key' = key
    BY <1>6 DEF Crash, store
  <2> QED
    BY <1>t, <1>j, <1>f, <2>1, <2>2, MetadataStable DEF MetadataInv, JsonFirst
<1>7. CASE UNCHANGED vars
  BY <1>7, <1>t, <1>f, MetadataStable DEF vars, store, local, MetadataInv, JsonFirst
<1> QED
  BY <1>1, <1>2, <1>3, <1>4, <1>5, <1>6, <1>7 DEF Next, Request, QuietStep

\* A version whose proto files can be fetched has a version.json: no order of
\* requests, failures and crashes leaves files without it.
THEOREM MetadataFirst == Spec => []MetadataBeforeFiles
<1>1. Init => MetadataInv
  <2> SUFFICES ASSUME Init PROVE JsonFirst /\ MetadataBeforeFiles
    BY InitType DEF MetadataInv
  <2> QED
    BY DEF Init, JsonFirst, MetadataBeforeFiles, GetFile
<1>2. MetadataInv => MetadataBeforeFiles
  BY DEF MetadataInv
<1> QED
  BY <1>1, <1>2, NextMetadata, PTL DEF Spec
-----------------------------------------------------------------------------
\* What a step of p that may touch version k leaves alone: other processes
\* and other versions.  Any other writer of k makes k disturbed.
Frame(p, k) ==
    /\ \A q \in Procs \ {p} : /\ pc'[q] = pc[q] /\ key'[q] = key[q] /\ mem'[q] = mem[q]
                              /\ todo'[q] = todo[q] /\ cur'[q] = cur[q]
    /\ \A j \in Keys \ {k} : /\ versionJson'[j] = versionJson[j]
                             /\ protoFile'[j] = protoFile[j] /\ acked'[j] = acked[j]
    /\ disturbed \subseteq disturbed' /\ versionDir' \subseteq versionDir \cup {k}
    /\ \A q \in Procs \ {p} : Writing(q, k) => k \in disturbed'
    /\ pc[p] \in WritePCs => key[p] = k
    /\ pc'[p] \in WritePCs => key'[p] = k

\* Such a step keeps everything that is said of other processes and versions.
LEMMA FrameLemma ==
  ASSUME ServedInv, NEW p \in Procs, NEW k \in Keys, Frame(p, k)
  PROVE  /\ OneWriter'
         /\ \A q \in Clients \ {p} : PushOK(q)'
         /\ p # Sprocket => UpdateOK'
         /\ \A j \in Keys \ {k} : SettledOK(j)'
<1>k. \A q \in Procs : key[q] \in Keys
  BY DEF ServedInv, TypeInv, TypeOK
<1>w. \A q \in Procs, j \in Keys : Writing(q, j) <=> pc[q] \in WritePCs /\ key[q] = j
  BY DEF Writing, WritePCs
<1>v. \A q \in Procs, j \in Keys : Writing(q, j)' <=> pc'[q] \in WritePCs /\ key'[q] = j
  BY DEF Writing, WritePCs
<1>1. OneWriter'
  <2> SUFFICES ASSUME NEW j \in Keys, j \notin disturbed', NEW q \in Procs, NEW r \in Procs,
                      Writing(q, j)', Writing(r, j)'
               PROVE  q = r
    BY DEF OneWriter
  <2>1. CASE q # p /\ r # p
    BY <2>1, <1>w, <1>v DEF Frame, ServedInv, OneWriter
  <2>2. CASE q = p \/ r = p
    BY <2>2, <1>w, <1>v DEF Frame
  <2> QED
    BY <2>1, <2>2
<1>2. ASSUME NEW q \in Clients \ {p} PROVE PushOK(q)'
  <2> SUFFICES ASSUME pc[q] \in PushPCs, key[q] \notin disturbed' PROVE PushOK(q)'
    BY DEF PushOK, Frame, Procs
  <2>1. key[q] \in Keys \ {k} /\ q \in Procs
    BY <1>k, <1>w DEF Frame, WritePCs, Procs
  <2> QED
    BY <2>1 DEF PushOK, ServedInv, Frame
<1>3. ASSUME p # Sprocket PROVE UpdateOK'
  <2> SUFFICES ASSUME pc[Sprocket] \in UpdatePCs, key[Sprocket] \notin disturbed' PROVE UpdateOK'
    BY <1>3 DEF UpdateOK, Frame, Procs
  <2>1. key[Sprocket] \in Keys \ {k} /\ Sprocket \in Procs
    BY <1>3, <1>k, <1>w DEF Frame, WritePCs, Procs
  <2> QED
    BY <1>3, <2>1 DEF UpdateOK, ServedInv, Frame, Matches, ProtosMatch
<1>4. ASSUME NEW j \in Keys \ {k} PROVE SettledOK(j)'
  <2> SUFFICES ASSUME j \in versionDir' \ disturbed', ~Busy(j)' PROVE SettledOK(j)'
    BY DEF SettledOK
  <2>1. j \in versionDir \ disturbed
    BY DEF Frame
  <2>2. ~Busy(j)
    BY <1>w, <1>v DEF Busy, Frame
  <2> QED
    BY <2>1, <2>2 DEF SettledOK, ServedInv, Frame, Matches, ProtosMatch
<1> QED
  BY <1>1, <1>2, <1>3, <1>4

\* Everything written lies in a version directory, and stays there.
LEMMA NextDirectory == TypeInv /\ InDirectory /\ [Next]_vars => InDirectory'
<1> SUFFICES ASSUME TypeInv, InDirectory, [Next]_vars PROVE InDirectory'
  OBVIOUS
<1>t. TypeOK /\ TypeOK'
  BY NextType DEF TypeInv
<1>1. ASSUME NEW p \in Clients, QuietStep(p) PROVE InDirectory'
  BY <1>1, <1>t, QuietLemma DEF Quiet, InDirectory, WritePCs
<1>2. ASSUME NEW p \in Clients, CreateVersion(p) PROVE InDirectory'
  BY <1>2, <1>t DEF CreateVersion, MkVersionDir, Goto, InDirectory, TypeOK, Procs
<1>3. ASSUME NEW p \in Clients, TruncJson(p) PROVE InDirectory'
  BY <1>3, <1>t DEF TruncJson, Goto, InDirectory, TypeOK, Procs, PushPCs
<1>4. ASSUME NEW p \in Clients, WriteVersionJson(p) PROVE InDirectory'
  <2>1. /\ mem[p] \in Snapshots /\ key[p] \in Keys /\ key[p] \in versionDir
        /\ WriteJson(key[p], mem[p])
    BY <1>4, <1>t DEF WriteVersionJson, TypeInv, LocalInv, PushPCs, TypeOK, Procs, InDirectory
  <2>2. \A j \in Keys \ {key[p]} : versionJson'[j] = versionJson[j]
    BY <1>t, <2>1, WriteJsonLemma
  <2> QED
    BY <1>4, <1>t, <2>1, <2>2
    DEF WriteVersionJson, FilesOrDone, Goto, Answer, InDirectory, TypeOK, PushPCs, Procs
<1>5. ASSUME NEW p \in Clients, TruncFile(p) \/ WriteFile(p) PROVE InDirectory'
  <2>1. key' = key /\ versionDir' = versionDir /\ versionJson' = versionJson
    BY <1>5 DEF TruncFile, WriteFile
  <2>2. key[p] \in versionDir /\ p \in Procs
    BY <1>5 DEF TruncFile, WriteFile, InDirectory, PushPCs, Procs
  <2>3. \A q \in Procs \ {p} : pc'[q] = pc[q]
    BY <1>5, <1>t DEF TruncFile, WriteFile, FilesOrDone, Goto, Answer, TypeOK
  <2>4. \A k \in Keys \ {key[p]} : acked'[k] = acked[k]
    BY <1>5, <1>t DEF TruncFile, WriteFile, FilesOrDone, TypeOK
  <2> QED
    BY <2>1, <2>2, <2>3, <2>4 DEF InDirectory
<1>6. ASSUME NEW p \in Clients, PushFails(p) PROVE InDirectory'
  BY <1>6, <1>t DEF PushFails, Goto, Answer, InDirectory, TypeOK, store, PushPCs, UpdatePCs
<1>7. CASE StartCompile
  BY <1>7, <1>t, SnapshotLemma
  DEF StartCompile, GetVersion, Goto, InDirectory, TypeOK, store, Procs
<1>8. CASE CompileLanguage \/ CompileDone \/ UpdateFails
  BY <1>8, <1>t DEF CompileLanguage, CompileDone, UpdateFails, Goto, InDirectory, TypeOK,
                    store, PushPCs, UpdatePCs, Procs
<1>9. CASE UpdateTrunc
  BY <1>9, <1>t DEF UpdateTrunc, MkVersionDir, Goto, InDirectory, TypeOK, UpdatePCs, Procs
<1>10. CASE UpdateWrite
  <2>1. mem[Sprocket] \in Snapshots /\ key[Sprocket] \in Keys /\ key[Sprocket] \in versionDir
    BY <1>10, <1>t DEF UpdateWrite, TypeInv, LocalInv, UpdatePCs, TypeOK, Procs, InDirectory
  <2>2. \A j \in Keys \ {key[Sprocket]} : versionJson'[j] = versionJson[j]
    BY <1>10, <1>t, <2>1, WriteJsonLemma DEF UpdateWrite
  <2> QED
    BY <1>10, <1>t, <2>1, <2>2 DEF UpdateWrite, Goto, InDirectory, TypeOK, UpdatePCs
<1>11. ASSUME NEW ps \in {Clients, {Sprocket}}, Crash(ps) PROVE InDirectory'
  BY <1>11, <1>t DEF Crash, Reset, InDirectory, store, PushPCs, UpdatePCs
<1>12. CASE UNCHANGED vars
  BY <1>12 DEF vars, store, local, history, InDirectory
<1> QED
  BY <1>1, <1>2, <1>3, <1>4, <1>5, <1>6, <1>7, <1>8, <1>9, <1>10, <1>11, <1>12
  DEF Next, Request, SprocketStep, QuietStep
-----------------------------------------------------------------------------
\* A step of a process that is writing a version, on that version.
LEMMA WriterFrame ==
  ASSUME ServedInv, NEW p \in Procs, pc[p] \in WritePCs, key' = key,
         \A q \in Procs \ {p} : /\ pc'[q] = pc[q] /\ mem'[q] = mem[q]
                                /\ todo'[q] = todo[q] /\ cur'[q] = cur[q],
         \A j \in Keys \ {key[p]} : /\ versionJson'[j] = versionJson[j]
                                    /\ protoFile'[j] = protoFile[j] /\ acked'[j] = acked[j],
         disturbed \subseteq disturbed', versionDir' \subseteq versionDir \cup {key[p]}
  PROVE  Frame(p, key[p]) /\ key[p] \in Keys
<1>1. key[p] \in Keys
  BY DEF ServedInv, TypeInv, TypeOK
<1>2. \A q \in Procs \ {p} : Writing(q, key[p]) => key[p] \in disturbed
  BY <1>1 DEF ServedInv, OneWriter, Writing, WritePCs
<1> QED
  BY <1>1, <1>2 DEF Frame

\* A quiet step keeps all that is said of versions and their writers.
LEMMA QuietServed ==
  ASSUME ServedInv, TypeInv', InDirectory', Quiet
  PROVE  ServedInv'
<1>w. \A q \in Procs, j \in Keys : Writing(q, j)' <=> Writing(q, j)
  BY DEF Quiet, Writing, WritePCs
<1>1. OneWriter'
  BY <1>w DEF ServedInv, OneWriter, Quiet
<1>2. \A p \in Clients : PushOK(p)'
  BY DEF ServedInv, PushOK, Quiet, WritePCs, Procs
<1>3. UpdateOK'
  BY DEF ServedInv, UpdateOK, Quiet, WritePCs, Procs, Matches, ProtosMatch
<1>4. \A k \in Keys : SettledOK(k)'
  BY <1>w DEF ServedInv, SettledOK, Busy, Quiet, Matches, ProtosMatch
<1> QED
  BY <1>1, <1>2, <1>3, <1>4 DEF ServedInv

\* A push or a compilation that goes on: the version is still being written.
LEMMA BusySettled ==
  ASSUME NEW p \in Procs, NEW k \in Keys, pc'[p] \in WritePCs, key'[p] = k
  PROVE  SettledOK(k)'
  BY DEF SettledOK, Busy, Writing, WritePCs

\* What is left to show for a step of a client on version k.
LEMMA ClientServed ==
  ASSUME ServedInv, TypeInv', InDirectory', NEW p \in Clients, NEW k \in Keys, Frame(p, k),
         PushOK(p)', SettledOK(k)'
  PROVE  ServedInv'
<1>1. p \in Procs /\ p # Sprocket
  BY RegistryAssumption DEF Procs
<1> QED
  BY <1>1, FrameLemma DEF ServedInv

\* The same for Sprocket.
LEMMA SprocketServed ==
  ASSUME ServedInv, TypeInv', InDirectory', NEW k \in Keys, Frame(Sprocket, k),
         UpdateOK', SettledOK(k)'
  PROVE  ServedInv'
<1>1. Sprocket \in Procs /\ Sprocket \notin Clients
  BY RegistryAssumption DEF Procs
<1> QED
  BY <1>1, FrameLemma DEF ServedInv
-----------------------------------------------------------------------------
\* CreateVersion, from the directory to the answer, and its failure.
LEMMA PushServed ==
  ASSUME ServedInv, TypeInv', InDirectory', NEW p \in Clients,
         \/ CreateVersion(p) \/ TruncJson(p) \/ WriteVersionJson(p) \/ TruncFile(p)
         \/ WriteFile(p) \/ PushFails(p)
  PROVE  ServedInv'
<1>t. TypeOK /\ TypeInv /\ LocalInv /\ p \in Procs /\ key[p] \in Keys /\ PushOK(p)
  BY DEF ServedInv, TypeInv, TypeOK, Procs
<1>k. PICK c \in Keys : c = key[p]
  BY <1>t
<1>1. CASE CreateVersion(p)
  <2> PICK k \in Keys, b \in Bodies :
         /\ key' = [key EXCEPT ![p] = k]
         /\ mem' = [mem EXCEPT ![p] = [files |-> b, info |-> {}]]
         /\ todo' = [todo EXCEPT ![p] = DOMAIN b]
         /\ MkVersionDir(k) /\ Overlap(p, k)
    BY <1>1 DEF CreateVersion
  <2>1. pc[p] = "idle" /\ pc'[p] = "truncJson" /\ key'[p] = k
    BY <1>1, <1>t DEF CreateVersion, Start, Goto, TypeOK
  <2>2. Frame(p, k)
    BY <1>1, <1>t, <2>1 DEF CreateVersion, Goto, MkVersionDir, Overlap, Frame, TypeOK,
                            WritePCs, PushPCs, UpdatePCs
  <2>3. PushOK(p)'
    BY <2>1 DEF PushOK
  <2>4. SettledOK(k)'
    BY <1>t, <2>1, BusySettled DEF WritePCs, PushPCs
  <2> QED
    BY <2>2, <2>3, <2>4, ClientServed
<1>2. CASE TruncJson(p)
  <2>1. pc[p] = "truncJson" /\ pc'[p] = "writeJson" /\ versionJson'[key[p]] = Empty /\ key' = key
    BY <1>2, <1>t DEF TruncJson, Goto, TypeOK
  <2>2. Frame(p, c)
    BY <1>2, <1>t, <1>k, <2>1, WriterFrame DEF TruncJson, Goto, TypeOK, WritePCs, PushPCs
  <2>3. PushOK(p)'
    BY <2>1 DEF PushOK
  <2>4. SettledOK(c)'
    BY <1>t, <1>k, <2>1, BusySettled DEF WritePCs, PushPCs
  <2> QED
    BY <1>t, <1>k, <2>2, <2>3, <2>4, ClientServed
<1>3. CASE WriteVersionJson(p)
  <2>1. /\ pc[p] = "writeJson" /\ key' = key /\ mem[p] \in Snapshots
        /\ todo' = todo /\ todo[p] = DOMAIN mem[p].files
        /\ WriteJson(key[p], mem[p]) /\ UNCHANGED <<protoFile, disturbed, versionDir, cur>>
    BY <1>3, <1>t DEF WriteVersionJson, LocalInv, PushPCs
  <2>2. /\ \A j \in Keys \ {key[p]} : versionJson'[j] = versionJson[j]
        /\ key[p] \notin disturbed => versionJson'[key[p]] = mem[p]
    BY <1>t, <1>k, <2>1, WriteJsonLemma DEF PushOK, PushPCs
  <2>3. Frame(p, c)
    BY <1>3, <1>t, <1>k, <2>1, <2>2, WriterFrame
    DEF WriteVersionJson, FilesOrDone, Goto, Answer, TypeOK, WritePCs, PushPCs
  <2>4. CASE todo[p] = {}
    <3>1. pc'[p] = "idle" /\ acked'[key[p]] = mem[p].files
      BY <1>3, <1>t, <2>4 DEF WriteVersionJson, FilesOrDone, Answer, Goto, TypeOK
    <3>2. PushOK(p)'
      BY <3>1 DEF PushOK, PushPCs
    <3>3. SettledOK(c)'
      BY <1>k, <2>1, <2>2, <2>4, <3>1 DEF SettledOK, Matches, ProtosMatch
    <3> QED
      BY <1>t, <1>k, <2>3, <3>2, <3>3, ClientServed
  <2>5. CASE todo[p] # {}
    <3>1. pc'[p] = "truncFile" /\ mem' = mem
      BY <1>3, <1>t, <2>5 DEF WriteVersionJson, FilesOrDone, Goto, TypeOK
    <3>2. PushOK(p)'
      BY <2>1, <2>2, <3>1 DEF PushOK
    <3>3. SettledOK(c)'
      BY <1>t, <1>k, <2>1, <3>1, BusySettled DEF WritePCs, PushPCs
    <3> QED
      BY <1>t, <1>k, <2>3, <3>2, <3>3, ClientServed
  <2> QED
    BY <2>4, <2>5
<1>4. CASE TruncFile(p)
  <2> PICK f \in todo[p] :
         /\ cur' = [cur EXCEPT ![p] = f]
         /\ todo' = [todo EXCEPT ![p] = @ \ {f}]
         /\ protoFile' = [protoFile EXCEPT ![key[p]][f] = Empty]
    BY <1>4 DEF TruncFile
  <2>1. /\ pc[p] = "truncFile" /\ pc'[p] = "writeFile" /\ mem[p] \in Snapshots
        /\ todo[p] \subseteq DOMAIN mem[p].files
        /\ UNCHANGED <<key, mem, versionJson, versionDir, acked, disturbed>>
    BY <1>4, <1>t DEF TruncFile, Goto, TypeOK, LocalInv, PushPCs
  <2>2. f \in Paths /\ DOMAIN mem[p].files \subseteq Paths
    BY <2>1, SnapshotLemma
  <2>3. Frame(p, c)
    BY <1>4, <1>t, <1>k, <2>1, WriterFrame DEF TruncFile, Goto, TypeOK, WritePCs, PushPCs
  <2>4. /\ protoFile'[key[p]][f] = Empty /\ cur'[p] = f /\ todo'[p] = todo[p] \ {f}
        /\ \A g \in Paths \ {f} : protoFile'[key[p]][g] = protoFile[key[p]][g]
    BY <1>t, <1>k, <2>2 DEF TypeOK
  <2>5. PushOK(p)'
    <3> SUFFICES ASSUME key[p] \notin disturbed PROVE PushOK(p)'
      BY <2>1 DEF PushOK
    <3>1. /\ versionJson[key[p]] = mem[p]
          /\ \A g \in DOMAIN mem[p].files \ todo[p] : protoFile[key[p]][g] = mem[p].files[g]
      BY <1>t, <1>k, <2>1 DEF PushOK, PushPCs
    <3>2. \A g \in DOMAIN mem[p].files \ todo'[p] :
             protoFile'[key[p]][g] = IF g = f THEN Empty ELSE mem[p].files[g]
      BY <2>2, <2>4, <3>1
    <3> QED
      BY <2>1, <2>4, <3>1, <3>2 DEF PushOK
  <2>6. SettledOK(c)'
    BY <1>t, <1>k, <2>1, BusySettled DEF WritePCs, PushPCs
  <2> QED
    BY <1>t, <1>k, <2>3, <2>5, <2>6, ClientServed
<1>5. CASE WriteFile(p)
  <2>1. /\ pc[p] = "writeFile" /\ mem[p] \in Snapshots
        /\ cur[p] \in DOMAIN mem[p].files \ todo[p]
        /\ WriteProto(key[p], cur[p], mem[p].files[cur[p]])
        /\ UNCHANGED <<key, todo, versionJson, versionDir, disturbed>>
    BY <1>5, <1>t DEF WriteFile, LocalInv, PushPCs
  <2>2. cur[p] \in Paths /\ DOMAIN mem[p].files \subseteq Paths /\ mem[p].files[cur[p]] \in Nat
    BY <2>1, SnapshotLemma
  <2>3. /\ \A j \in Keys \ {key[p]} : protoFile'[j] = protoFile[j]
        /\ \A g \in Paths \ {cur[p]} : protoFile'[key[p]][g] = protoFile[key[p]][g]
        /\ protoFile[key[p]][cur[p]] = Empty => protoFile'[key[p]][cur[p]] = mem[p].files[cur[p]]
    BY <1>t, <1>k, <2>1, <2>2, WriteProtoLemma
  <2>4. key[p] \notin disturbed =>
           /\ versionJson[key[p]] = mem[p]
           /\ \A g \in DOMAIN mem[p].files \ todo[p] : protoFile'[key[p]][g] = mem[p].files[g]
    BY <1>t, <1>k, <2>1, <2>2, <2>3 DEF PushOK, PushPCs
  <2>5. Frame(p, c)
    BY <1>5, <1>t, <1>k, <2>1, <2>3, WriterFrame
    DEF WriteFile, FilesOrDone, Goto, Answer, TypeOK, WritePCs, PushPCs
  <2>6. CASE todo[p] = {}
    <3>1. pc'[p] = "idle" /\ acked'[key[p]] = mem[p].files
      BY <1>5, <1>t, <2>6 DEF WriteFile, FilesOrDone, Answer, Goto, TypeOK
    <3>2. PushOK(p)'
      BY <3>1 DEF PushOK, PushPCs
    <3>3. SettledOK(c)'
      BY <1>k, <2>1, <2>4, <2>6, <3>1 DEF SettledOK, Matches, ProtosMatch
    <3> QED
      BY <1>t, <1>k, <2>5, <3>2, <3>3, ClientServed
  <2>7. CASE todo[p] # {}
    <3>1. pc'[p] = "truncFile" /\ mem' = mem
      BY <1>5, <1>t, <2>7 DEF WriteFile, FilesOrDone, Goto, TypeOK
    <3>2. PushOK(p)'
      BY <2>1, <2>4, <3>1 DEF PushOK
    <3>3. SettledOK(c)'
      BY <1>t, <1>k, <2>1, <3>1, BusySettled DEF WritePCs, PushPCs
    <3> QED
      BY <1>t, <1>k, <2>5, <3>2, <3>3, ClientServed
  <2> QED
    BY <2>6, <2>7
<1>6. CASE PushFails(p)
  <2>1. /\ pc[p] \in WritePCs /\ pc'[p] = "idle" /\ key[p] \in disturbed'
        /\ UNCHANGED <<key, versionJson, protoFile, versionDir, acked>>
    BY <1>6, <1>t DEF PushFails, Answer, Goto, store, TypeOK, WritePCs
  <2>2. Frame(p, c)
    BY <1>6, <1>t, <1>k, <2>1, WriterFrame DEF PushFails, Answer, Goto, TypeOK
  <2>3. PushOK(p)' /\ SettledOK(c)'
    BY <1>k, <2>1 DEF PushOK, SettledOK, PushPCs
  <2> QED
    BY <1>t, <1>k, <2>2, <2>3, ClientServed
<1> QED
  BY <1>1, <1>2, <1>3, <1>4, <1>5, <1>6
-----------------------------------------------------------------------------
\* Sprocket's read-modify-write of version.json, and its failure.
LEMMA CompileServed ==
  ASSUME ServedInv, TypeInv', InDirectory', SprocketStep
  PROVE  ServedInv'
<1>t. /\ TypeOK /\ TypeInv /\ LocalInv /\ InDirectory /\ UpdateOK
      /\ Sprocket \in Procs /\ key[Sprocket] \in Keys
  BY DEF ServedInv, TypeInv, TypeOK, Procs
<1>k. PICK c \in Keys : c = key[Sprocket]
  BY <1>t
<1>1. CASE StartCompile
  <2> PICK k \in Keys :
         IF GetVersion(k) = None
         THEN UNCHANGED <<pc, key, mem, todo, disturbed>>
         ELSE /\ key' = [key EXCEPT ![Sprocket] = k]
              /\ mem' = [mem EXCEPT ![Sprocket] = GetVersion(k)]
              /\ todo' = [todo EXCEPT ![Sprocket] = Languages]
              /\ Goto(Sprocket, "compile") /\ Overlap(Sprocket, k)
    BY <1>1 DEF StartCompile
  <2>u. pc[Sprocket] = "idle" /\ UNCHANGED <<store, cur, acked>>
    BY <1>1 DEF StartCompile, Start
  <2>1. CASE GetVersion(k) = None
    BY <2>1, <2>u, QuietServed DEF Quiet, store
  <2>2. CASE GetVersion(k) # None
    <3>1. /\ pc'[Sprocket] = "compile" /\ key'[Sprocket] = k /\ mem'[Sprocket] = versionJson[k]
          /\ versionJson[k] \in Snapshots
      BY <1>t, <2>2 DEF Goto, GetVersion, TypeOK
    <3>2. Frame(Sprocket, k)
      BY <1>t, <2>2, <2>u, <3>1 DEF Frame, Goto, Overlap, TypeOK, store, WritePCs, PushPCs, UpdatePCs
    <3>3. k \notin disturbed' => k \in versionDir \ disturbed /\ ~Busy(k)
      <4>1. k \in versionDir
        BY <1>t, <3>1, SnapshotLemma DEF InDirectory
      <4>2. ~Writing(Sprocket, k)
        BY <2>u DEF Writing, PushPCs, UpdatePCs
      <4> QED
        BY <3>2, <4>1, <4>2 DEF Frame, Busy
    <3>4. UpdateOK'
      BY <2>u, <3>1, <3>3 DEF UpdateOK, ServedInv, SettledOK, Matches, ProtosMatch, store
    <3>5. SettledOK(k)'
      BY <1>t, <3>1, BusySettled DEF WritePCs, UpdatePCs
    <3> QED
      BY <3>2, <3>4, <3>5, SprocketServed
  <2> QED
    BY <2>1, <2>2
<1>2. CASE CompileLanguage
  <2>1. /\ pc[Sprocket] = "compile" /\ pc'[Sprocket] \in {"compile", "updTrunc"}
        /\ mem[Sprocket] \in Snapshots /\ mem'[Sprocket].files = mem[Sprocket].files
        /\ UNCHANGED <<key, store, acked, disturbed>>
    BY <1>2, <1>t DEF CompileLanguage, Goto, TypeOK, LocalInv, UpdatePCs, Snapshots
  <2>2. Frame(Sprocket, c)
    BY <1>2, <1>t, <1>k, <2>1, WriterFrame
    DEF CompileLanguage, Goto, TypeOK, WritePCs, UpdatePCs, store
  <2>3. UpdateOK'
    BY <1>t, <2>1 DEF UpdateOK, Matches, ProtosMatch, store, UpdatePCs
  <2>4. SettledOK(c)'
    BY <1>t, <1>k, <2>1, BusySettled DEF WritePCs, UpdatePCs
  <2> QED
    BY <2>2, <2>3, <2>4, SprocketServed
<1>3. CASE UpdateTrunc
  <2>1. /\ pc[Sprocket] = "updTrunc" /\ pc'[Sprocket] = "updWrite"
        /\ versionJson'[key[Sprocket]] = Empty
        /\ \A j \in Keys \ {key[Sprocket]} : versionJson'[j] = versionJson[j]
        /\ UNCHANGED <<key, mem, todo, cur, protoFile, acked, disturbed>>
        /\ versionDir' = versionDir \cup {key[Sprocket]}
    BY <1>3, <1>t DEF UpdateTrunc, MkVersionDir, Goto, TypeOK
  <2>2. Frame(Sprocket, c)
    BY <1>3, <1>t, <1>k, <2>1, WriterFrame DEF UpdateTrunc, Goto, TypeOK, WritePCs, UpdatePCs
  <2>3. UpdateOK'
    BY <1>t, <2>1 DEF UpdateOK, Matches, ProtosMatch, UpdatePCs
  <2>4. SettledOK(c)'
    BY <1>t, <1>k, <2>1, BusySettled DEF WritePCs, UpdatePCs
  <2> QED
    BY <2>2, <2>3, <2>4, SprocketServed
<1>4. CASE UpdateWrite
  <2>1. /\ pc[Sprocket] = "updWrite" /\ pc'[Sprocket] = "compile" /\ mem[Sprocket] \in Snapshots
        /\ WriteJson(key[Sprocket], mem[Sprocket])
        /\ UNCHANGED <<key, mem, todo, cur, protoFile, versionDir, acked, disturbed>>
    BY <1>4, <1>t DEF UpdateWrite, Goto, TypeOK, LocalInv, UpdatePCs
  <2>2. /\ \A j \in Keys \ {key[Sprocket]} : versionJson'[j] = versionJson[j]
        /\ key[Sprocket] \notin disturbed => versionJson'[key[Sprocket]] = mem[Sprocket]
    BY <1>t, <2>1, WriteJsonLemma DEF UpdateOK, UpdatePCs
  <2>3. Frame(Sprocket, c)
    BY <1>4, <1>t, <1>k, <2>1, <2>2, WriterFrame DEF UpdateWrite, Goto, TypeOK, WritePCs, UpdatePCs
  <2>4. UpdateOK'
    BY <1>t, <2>1, <2>2 DEF UpdateOK, Matches, ProtosMatch, UpdatePCs
  <2>5. SettledOK(c)'
    BY <1>t, <1>k, <2>1, BusySettled DEF WritePCs, UpdatePCs
  <2> QED
    BY <2>3, <2>4, <2>5, SprocketServed
<1>5. CASE CompileDone
  <2>1. /\ pc[Sprocket] = "compile" /\ pc'[Sprocket] = "idle"
        /\ UNCHANGED <<key, store, acked, disturbed>>
    BY <1>5, <1>t DEF CompileDone, Goto, TypeOK
  <2>2. Frame(Sprocket, c)
    BY <1>5, <1>t, <1>k, <2>1, WriterFrame DEF CompileDone, Goto, TypeOK, WritePCs, UpdatePCs, store
  <2>3. UpdateOK'
    BY <2>1 DEF UpdateOK, UpdatePCs
  <2>4. SettledOK(c)'
    BY <1>t, <1>k, <2>1 DEF SettledOK, UpdateOK, UpdatePCs, Matches, ProtosMatch, store
  <2> QED
    BY <2>2, <2>3, <2>4, SprocketServed
<1>6. CASE UpdateFails
  <2>1. /\ pc[Sprocket] \in WritePCs /\ key[Sprocket] \in disturbed'
        /\ UNCHANGED <<key, store, acked>>
    BY <1>6 DEF UpdateFails, WritePCs, UpdatePCs
  <2>2. Frame(Sprocket, c)
    BY <1>6, <1>t, <1>k, <2>1, WriterFrame DEF UpdateFails, Goto, TypeOK, store
  <2>3. UpdateOK' /\ SettledOK(c)'
    BY <1>k, <2>1 DEF UpdateOK, SettledOK
  <2> QED
    BY <2>2, <2>3, SprocketServed
<1> QED
  BY <1>1, <1>2, <1>3, <1>4, <1>5, <1>6 DEF SprocketStep

\* A crash disturbs the versions it interrupts and no other.
LEMMA CrashServed ==
  ASSUME ServedInv, TypeInv', InDirectory', NEW ps \in SUBSET Procs, Crash(ps)
  PROVE  ServedInv'
<1>1. /\ UNCHANGED <<store, key, acked>> /\ disturbed' = disturbed \cup Interrupted(ps)
      /\ \A q \in Procs \ ps : /\ pc'[q] = pc[q] /\ mem'[q] = mem[q]
                               /\ todo'[q] = todo[q] /\ cur'[q] = cur[q]
      /\ \A q \in ps : pc'[q] = "idle"
  BY DEF Crash, Reset
<1>2. \A q \in Procs, j \in Keys : Writing(q, j)' => Writing(q, j) /\ q \notin ps
  BY <1>1 DEF Writing, PushPCs, UpdatePCs
<1>3. \A j \in Keys \ disturbed' : Busy(j) => Busy(j)'
  <2> SUFFICES ASSUME NEW j \in Keys \ disturbed', NEW q \in Procs, Writing(q, j)
               PROVE  Writing(q, j)'
    BY DEF Busy
  <2>1. q \notin ps
    BY <1>1 DEF Interrupted
  <2> QED
    BY <1>1, <2>1 DEF Writing
<1>4. OneWriter'
  BY <1>1, <1>2 DEF ServedInv, OneWriter
<1>5. ASSUME NEW p \in Clients PROVE PushOK(p)'
  <2> SUFFICES ASSUME p \notin ps PROVE PushOK(p)'
    BY <1>1 DEF PushOK, PushPCs
  <2> QED
    BY <1>1 DEF ServedInv, PushOK, store, Procs
<1>6. UpdateOK'
  <2>1. CASE Sprocket \in ps
    BY <1>1, <2>1 DEF UpdateOK, UpdatePCs
  <2>2. CASE Sprocket \notin ps
    BY <1>1, <2>2 DEF ServedInv, UpdateOK, Matches, ProtosMatch, store, Procs
  <2> QED
    BY <2>1, <2>2
<1>7. \A j \in Keys : SettledOK(j)'
  BY <1>1, <1>3 DEF ServedInv, SettledOK, Matches, ProtosMatch, store
<1> QED
  BY <1>4, <1>5, <1>6, <1>7 DEF ServedInv

\* The invariant behind the next two theorems is inductive.
LEMMA NextServed == ServedInv /\ [Next]_vars => ServedInv'
<1> SUFFICES ASSUME ServedInv, [Next]_vars PROVE ServedInv'
  OBVIOUS
<1>t. TypeInv /\ TypeInv' /\ InDirectory'
  BY NextType, NextDirectory DEF ServedInv
<1>1. ASSUME NEW p \in Clients, QuietStep(p) PROVE ServedInv'
  BY <1>1, <1>t, QuietLemma, QuietServed
<1>2. ASSUME NEW p \in Clients,
             \/ CreateVersion(p) \/ TruncJson(p) \/ WriteVersionJson(p) \/ TruncFile(p)
             \/ WriteFile(p) \/ PushFails(p)
      PROVE  ServedInv'
  BY <1>2, <1>t, PushServed
<1>3. CASE SprocketStep
  BY <1>3, <1>t, CompileServed
<1>4. CASE Crash(Clients) \/ Crash({Sprocket})
  BY <1>4, <1>t, CrashServed DEF Procs
<1>5. CASE UNCHANGED vars
  BY <1>5, <1>t, QuietServed DEF Quiet, vars, store, local, history
<1> QED
  BY <1>1, <1>2, <1>3, <1>4, <1>5 DEF Next, Request, QuietStep

\* The empty storage directory satisfies it.
LEMMA InitServed == Init => ServedInv
<1> SUFFICES ASSUME Init PROVE ServedInv
  OBVIOUS
<1>1. /\ \A p \in Procs : pc[p] = "idle"
      /\ versionDir = {} /\ \A k \in Keys : versionJson[k] = Absent /\ acked[k] = None
  BY DEF Init
<1>2. OneWriter /\ InDirectory
  BY <1>1 DEF OneWriter, InDirectory, Writing, PushPCs, UpdatePCs
<1>3. (\A p \in Clients : PushOK(p)) /\ UpdateOK /\ \A k \in Keys : SettledOK(k)
  BY <1>1 DEF PushOK, UpdateOK, SettledOK, PushPCs, UpdatePCs, Procs
<1> QED
  BY <1>2, <1>3, InitType DEF ServedInv

\* A push answered 201 that no other writer overlapped and no crash or error
\* cut short is what GetVersion and GetFile serve, while Sprocket writes its
\* compilation results into the same version.json.
THEOREM AckedServed == Spec => []AckedPushServed
<1>1. ServedInv => AckedPushServed
  <2> SUFFICES ASSUME ServedInv, NEW k \in Keys, acked[k] # None, k \notin disturbed, ~Busy(k)
               PROVE  /\ GetVersion(k) # None /\ GetVersion(k).files = acked[k]
                      /\ \A f \in DOMAIN acked[k] : GetFile(k, f) = acked[k][f]
    BY DEF AckedPushServed
  <2>1. k \in versionDir
    BY DEF ServedInv, InDirectory
  <2>2. versionJson[k] \in Snapshots /\ acked[k] = versionJson[k].files /\ ProtosMatch(k)
    BY <2>1 DEF ServedInv, SettledOK, Matches
  <2>3. \A f \in DOMAIN acked[k] : acked[k][f] \in Nat
    BY <2>2, SnapshotLemma
  <2>4. Absent \notin Nat
    BY RegistryAssumption
  <2> QED
    BY <2>2, <2>3, <2>4, SnapshotLemma DEF GetVersion, GetFile, ProtosMatch
<1> QED
  BY <1>1, InitServed, NextServed, PTL DEF Spec

\* A version directory that nobody is writing and nobody left half written is
\* readable, so ListVersions and ListModules do not fail on it.
THEOREM ListingWorks == Spec => []ListingAvailable
<1>1. ServedInv => ListingAvailable
  <2> SUFFICES ASSUME ServedInv, NEW k \in versionDir, ~Busy(k), k \notin disturbed
               PROVE  GetVersion(k) # None
    BY DEF ListingAvailable
  <2>1. k \in Keys
    BY DEF ServedInv, TypeInv, TypeOK
  <2> QED
    BY <2>1, SnapshotLemma DEF ServedInv, SettledOK, GetVersion
<1> QED
  BY <1>1, InitServed, NextServed, PTL DEF Spec

-----------------------------------------------------------------------------
(* A listing that succeeds is complete.  The argument follows a listing    *)
(* through its scan: each version it owes is in a module still to be read, *)
(* among the entries still to be read, or listed already.                  *)

\* A version directory lies in a module directory.
ParentDirs == \A k \in versionDir : k[1] \in moduleDir

\* What the listing of p owes and where it still is.
Scanned(p) ==
    /\ pc[p] \in ListPCs => promised[p] \subseteq versionDir
    /\ pc[p] = "readModules" => \A k \in promised[p] : k[1] \in mods[p]
    /\ pc[p] = "readDir" => \A k \in promised[p] : k[1] \in mods[p] \/ k \in listed[p]
    /\ pc[p] = "readEntry" =>
          \A k \in promised[p] : k[1] \in mods[p] \/ k \in todo[p] \/ k \in listed[p]
    /\ pc[p] = "idle" /\ answer[p] = "ok" => promised[p] \subseteq listed[p]

ScanInv == TypeInv /\ InDirectory /\ ParentDirs /\ \A p \in Clients : Scanned(p)

\* No step removes a directory, and MkdirAll creates the parents first.
LEMMA DirsGrow ==
  ASSUME TypeInv, ParentDirs, [Next]_vars
  PROVE  versionDir \subseteq versionDir' /\ ParentDirs'
<1>1. ASSUME NEW k \in Keys, MkVersionDir(k) PROVE versionDir \subseteq versionDir' /\ ParentDirs'
  BY <1>1 DEF MkVersionDir, ParentDirs
<1>2. ASSUME NEW p \in Clients, CreateModule(p) PROVE versionDir \subseteq versionDir' /\ ParentDirs'
  BY <1>2 DEF CreateModule, ParentDirs
<1>3. ASSUME NEW p \in Clients, CreateVersion(p) PROVE versionDir \subseteq versionDir' /\ ParentDirs'
  BY <1>1, <1>3 DEF CreateVersion
<1>4. CASE UpdateTrunc
  <2>1. key[Sprocket] \in Keys
    BY DEF TypeInv, TypeOK, Procs
  <2> QED
    BY <1>1, <1>4, <2>1 DEF UpdateTrunc
<1>5. CASE UNCHANGED <<moduleDir, versionDir>>
  BY <1>5 DEF ParentDirs
<1>6. ASSUME NEW p \in Clients, Request(p), ~CreateModule(p), ~CreateVersion(p)
      PROVE  UNCHANGED <<moduleDir, versionDir>>
  BY <1>6 DEF Request, TruncModule, WriteModule, TruncJson, WriteVersionJson, TruncFile,
              WriteFile, PushFails, ListVersions, GetModule, ListModules, ReadModules,
              ReadVersionsDir, ReadVersionEntry, store
<1>7. CASE SprocketStep /\ ~UpdateTrunc
  BY <1>5, <1>7 DEF SprocketStep, StartCompile, CompileLanguage, UpdateWrite, CompileDone,
                    UpdateFails, store
<1>8. ASSUME NEW ps, Crash(ps) PROVE UNCHANGED <<moduleDir, versionDir>>
  BY <1>8 DEF Crash, store
<1>9. CASE UNCHANGED vars
  BY <1>5, <1>9 DEF vars, store
<1> QED
  BY <1>2, <1>3, <1>4, <1>5, <1>6, <1>7, <1>8, <1>9 DEF Next

\* A step that is not p's leaves the scan of p as it was.
LEMMA ScanFrame ==
  ASSUME NEW p \in Clients, Scanned(p), versionDir \subseteq versionDir',
         pc'[p] = pc[p], todo'[p] = todo[p], mods'[p] = mods[p], listed'[p] = listed[p],
         promised'[p] = promised[p], answer'[p] = answer[p]
  PROVE  Scanned(p)'
  BY DEF Scanned

\* Nothing is owed while p does something else, or once its request failed.
LEMMA ScanOver ==
  ASSUME NEW p, pc'[p] \notin ListPCs, ~(pc'[p] = "idle" /\ answer'[p] = "ok")
  PROVE  Scanned(p)'
  BY DEF Scanned, ListPCs

\* What was acknowledged when a listing of the modules ms starts.
LEMMA OwedLemma ==
  ASSUME InDirectory, NEW ms
  PROVE  AckedVersions(ms) \subseteq versionDir /\ \A k \in AckedVersions(ms) : k[1] \in ms
  BY DEF InDirectory, AckedVersions

\* The steps of the listing's own goroutine.
LEMMA OwnScan ==
  ASSUME TypeInv, InDirectory, ParentDirs, NEW p \in Clients, Scanned(p), Request(p),
         versionDir \subseteq versionDir'
  PROVE  Scanned(p)'
<1> USE DEF Start, Goto, Answer, scan, ListPCs, PushPCs, Procs
<1>t. /\ pc \in [Procs -> {"idle"} \cup PushPCs \cup UpdatePCs \cup ModulePCs \cup ListPCs]
      /\ answer \in [Procs -> {"none", "created", "ok", "notFound", "error"}]
      /\ todo \in [Procs -> SUBSET (Paths \cup Languages \cup Modules \cup Keys)]
      /\ mods \in [Procs -> SUBSET Modules]
      /\ listed \in [Procs -> SUBSET Keys] /\ promised \in [Procs -> SUBSET Keys]
      /\ versionDir \subseteq Keys
  BY DEF TypeInv, TypeOK
<1>1. CASE CreateModule(p) \/ TruncModule(p) \/ WriteModule(p) \/ CreateVersion(p)
             \/ TruncJson(p) \/ WriteVersionJson(p) \/ TruncFile(p) \/ WriteFile(p) \/ PushFails(p)
  <2>1. pc'[p] \notin ListPCs /\ ~(pc'[p] = "idle" /\ answer'[p] = "ok")
    BY <1>t, <1>1 DEF CreateModule, TruncModule, WriteModule, CreateVersion, TruncJson,
         WriteVersionJson, TruncFile, WriteFile, PushFails, FilesOrDone
  <2> QED
    BY <2>1, ScanOver
<1>2. CASE ListVersions(p)
  <2> PICK m \in Modules :
         /\ mods' = [mods EXCEPT ![p] = {m}]
         /\ promised' = [promised EXCEPT ![p] = AckedVersions({m})]
    BY <1>2 DEF ListVersions
  <2>1. mods'[p] = {m} /\ promised'[p] = AckedVersions({m}) /\ pc'[p] = "readDir"
    BY <1>t, <1>2 DEF ListVersions
  <2> QED
    BY <2>1, OwedLemma DEF Scanned
<1>3. CASE GetModule(p)
  <2> PICK m \in Modules :
         IF moduleJson[m] = "module"
         THEN /\ mods' = [mods EXCEPT ![p] = {m}]
              /\ promised' = [promised EXCEPT ![p] = AckedVersions({m})]
              /\ listed' = [listed EXCEPT ![p] = {}]
              /\ Goto(p, "readDir") /\ UNCHANGED answer
         ELSE Answer(p, "notFound") /\ UNCHANGED scan
    BY <1>3 DEF GetModule
  <2>1. CASE moduleJson[m] = "module"
    <3>1. mods'[p] = {m} /\ promised'[p] = AckedVersions({m}) /\ pc'[p] = "readDir"
      BY <1>t, <2>1
    <3> QED
      BY <3>1, OwedLemma DEF Scanned
  <2>2. CASE moduleJson[m] # "module"
    <3>1. pc'[p] = "idle" /\ answer'[p] = "notFound"
      BY <1>t, <2>2
    <3> QED
      BY <3>1, ScanOver
  <2> QED
    BY <2>1, <2>2
<1>4. CASE ListModules(p)
  <2>1. mods'[p] = moduleDir /\ promised'[p] = AckedVersions(Modules) /\ pc'[p] = "readModules"
    BY <1>t, <1>4 DEF ListModules
  <2>2. \A k \in AckedVersions(Modules) : k \in versionDir /\ k[1] \in moduleDir
    BY OwedLemma DEF ParentDirs
  <2> QED
    BY <2>1, <2>2 DEF Scanned
<1>5. CASE ReadModules(p)
  <2>0. promised[p] \subseteq versionDir /\ \A k \in promised[p] : k[1] \in mods[p]
    BY <1>5 DEF ReadModules, Scanned
  <2>1. CASE todo[p] = {}
    <3>1. ListOrDone(p, mods[p]) /\ UNCHANGED scan
      BY <1>5, <2>1 DEF ReadModules
    <3>2. CASE mods[p] = {}
      BY <1>t, <2>0, <3>1, <3>2 DEF ListOrDone, Scanned
    <3>3. CASE mods[p] # {}
      BY <1>t, <2>0, <3>1, <3>3 DEF ListOrDone, Scanned
    <3> QED
      BY <3>2, <3>3
  <2>2. CASE todo[p] # {}
    <3> PICK m \in todo[p] :
           IF moduleJson[m] = "module"
           THEN todo' = [todo EXCEPT ![p] = @ \ {m}] /\ UNCHANGED <<pc, answer, scan>>
           ELSE todo' = [todo EXCEPT ![p] = {}] /\ Fail(p)
      BY <1>5, <2>2 DEF ReadModules
    <3>1. CASE moduleJson[m] = "module"
      <4>1. UNCHANGED <<pc, answer, scan>> /\ pc[p] = "readModules"
        BY <1>5, <3>1 DEF ReadModules
      <4> QED
        BY <2>0, <4>1 DEF Scanned
    <3>2. CASE moduleJson[m] # "module"
      <4>1. pc'[p] = "idle" /\ answer'[p] = "error"
        BY <1>t, <3>2 DEF Fail
      <4> QED
        BY <4>1, ScanOver
    <3> QED
      BY <3>1, <3>2
  <2> QED
    BY <2>1, <2>2
<1>6. CASE ReadVersionsDir(p)
  <2>0. /\ promised[p] \subseteq versionDir
        /\ \A k \in promised[p] : k[1] \in mods[p] \/ k \in listed[p]
    BY <1>6 DEF ReadVersionsDir, Scanned
  <2> PICK m \in mods[p] :
         IF m \in versionsDir
         THEN /\ todo' = [todo EXCEPT ![p] = {k \in versionDir : k[1] = m}]
              /\ mods' = [mods EXCEPT ![p] = @ \ {m}]
              /\ Goto(p, "readEntry") /\ UNCHANGED <<answer, listed, promised>>
         ELSE Fail(p) /\ UNCHANGED todo
    BY <1>6 DEF ReadVersionsDir
  <2>1. CASE m \in versionsDir
    <3>1. /\ todo'[p] = {k \in versionDir : k[1] = m} /\ mods'[p] = mods[p] \ {m}
          /\ pc'[p] = "readEntry" /\ listed'[p] = listed[p] /\ promised'[p] = promised[p]
      BY <1>t, <2>1
    <3> QED
      BY <2>0, <3>1 DEF Scanned
  <2>2. CASE m \notin versionsDir
    <3>1. pc'[p] = "idle" /\ answer'[p] = "error"
      BY <1>t, <2>2 DEF Fail
    <3> QED
      BY <3>1, ScanOver
  <2> QED
    BY <2>1, <2>2
<1>7. CASE ReadVersionEntry(p)
  <2>0. /\ promised[p] \subseteq versionDir
        /\ \A k \in promised[p] : k[1] \in mods[p] \/ k \in todo[p] \/ k \in listed[p]
    BY <1>7 DEF ReadVersionEntry, Scanned
  <2>1. CASE todo[p] = {}
    <3>1. ListOrDone(p, mods[p]) /\ UNCHANGED scan
      BY <1>7, <2>1 DEF ReadVersionEntry
    <3>2. \A k \in promised[p] : k[1] \in mods[p] \/ k \in listed[p]
      BY <2>0, <2>1
    <3>3. CASE mods[p] = {}
      BY <1>t, <3>1, <3>2, <3>3 DEF ListOrDone, Scanned
    <3>4. CASE mods[p] # {}
      BY <1>t, <2>0, <3>1, <3>2, <3>4 DEF ListOrDone, Scanned
    <3> QED
      BY <3>3, <3>4
  <2>2. CASE todo[p] # {}
    <3> PICK k \in todo[p] :
           IF GetVersion(k) # None
           THEN /\ todo' = [todo EXCEPT ![p] = @ \ {k}]
                /\ listed' = [listed EXCEPT ![p] = @ \cup {k}]
                /\ UNCHANGED <<pc, answer, mods, promised>>
           ELSE todo' = [todo EXCEPT ![p] = {}] /\ Fail(p)
      BY <1>7, <2>2 DEF ReadVersionEntry
    <3>1. CASE GetVersion(k) # None
      <4>1. /\ todo'[p] = todo[p] \ {k} /\ listed'[p] = listed[p] \cup {k}
            /\ pc'[p] = "readEntry" /\ mods'[p] = mods[p] /\ promised'[p] = promised[p]
        BY <1>t, <1>7, <3>1 DEF ReadVersionEntry
      <4> QED
        BY <2>0, <4>1 DEF Scanned
    <3>2. CASE GetVersion(k) = None
      <4>1. pc'[p] = "idle" /\ answer'[p] = "error"
        BY <1>t, <3>2 DEF Fail
      <4> QED
        BY <4>1, ScanOver
    <3> QED
      BY <3>1, <3>2
  <2> QED
    BY <2>1, <2>2
<1> QED
  BY <1>1, <1>2, <1>3, <1>4, <1>5, <1>6, <1>7 DEF Request

\* Every step keeps every scan.
LEMMA NextScan == ScanInv /\ [Next]_vars => ScanInv'
<1> SUFFICES ASSUME ScanInv, [Next]_vars PROVE ScanInv'
  OBVIOUS
<1>1. TypeInv' /\ InDirectory'
  BY NextType, NextDirectory DEF ScanInv
<1>2. versionDir \subseteq versionDir' /\ ParentDirs'
  BY DirsGrow DEF ScanInv
<1>3. ASSUME NEW p \in Clients PROVE Scanned(p)'
  <2>t. TypeInv /\ InDirectory /\ ParentDirs /\ Scanned(p)
    BY <1>3 DEF ScanInv
  <2>f. /\ DOMAIN pc = Procs /\ DOMAIN todo = Procs /\ DOMAIN mods = Procs
        /\ DOMAIN listed = Procs /\ DOMAIN promised = Procs /\ DOMAIN answer = Procs
        /\ p \in Procs /\ p # Sprocket
    BY <2>t, RegistryAssumption DEF TypeInv, TypeOK, Procs
  <2>1. ASSUME NEW q \in Clients, Request(q) PROVE Scanned(p)'
    <3>1. CASE q = p
      BY <1>2, <2>t, <2>1, <3>1, OwnScan
    <3>2. CASE q # p
      <4>1. pc'[p] = pc[p] /\ answer'[p] = answer[p]
        BY <2>f, <2>1, <3>2, Zenon DEF Request, CreateModule, TruncModule, WriteModule, CreateVersion,
             TruncJson, WriteVersionJson, TruncFile, WriteFile, PushFails, FilesOrDone,
             ListVersions, GetModule, ListModules, ReadModules, ReadVersionsDir,
             ReadVersionEntry, ListOrDone, Fail, Start, Goto, Answer, scan
      <4>2. todo'[p] = todo[p]
        BY <2>f, <2>1, <3>2 DEF Request, CreateModule, TruncModule, WriteModule, CreateVersion,
             TruncJson, WriteVersionJson, TruncFile, WriteFile, PushFails,
             ListVersions, GetModule, ListModules, ReadModules, ReadVersionsDir,
             ReadVersionEntry
      <4>3. mods'[p] = mods[p] /\ listed'[p] = listed[p] /\ promised'[p] = promised[p]
        BY <2>f, <2>1, <3>2 DEF Request, CreateModule, TruncModule, WriteModule, CreateVersion,
             TruncJson, WriteVersionJson, TruncFile, WriteFile, PushFails,
             ListVersions, GetModule, ListModules, ReadModules, ReadVersionsDir,
             ReadVersionEntry, Fail, scan
      <4> QED
        BY <1>2, <2>t, <4>1, <4>2, <4>3, ScanFrame
    <3> QED
      BY <3>1, <3>2
  <2>2. CASE SprocketStep
    <3>1. /\ pc'[p] = pc[p] /\ todo'[p] = todo[p]
          /\ UNCHANGED <<mods, listed, promised, answer>>
      BY <2>f, <2>2 DEF SprocketStep, StartCompile, CompileLanguage, UpdateTrunc, UpdateWrite,
           CompileDone, UpdateFails, Goto, scan
    <3> QED
      BY <1>2, <2>t, <3>1, ScanFrame
  <2>3. CASE Crash(Clients)
    <3>1. pc'[p] = "idle" /\ answer'[p] = "none"
      BY <2>f, <2>3 DEF Crash, Reset
    <3> QED
      BY <3>1, ScanOver DEF ListPCs
  <2>4. CASE Crash({Sprocket})
    <3>1. pc'[p] = pc[p] /\ todo'[p] = todo[p] /\ answer'[p] = answer[p]
      BY <2>f, <2>4 DEF Crash, Reset
    <3>2. UNCHANGED <<mods, listed, promised>>
      BY <2>4 DEF Crash, scan
    <3> QED
      BY <1>2, <2>t, <3>1, <3>2, ScanFrame
  <2>5. CASE UNCHANGED vars
    BY <1>2, <2>t, <2>5, ScanFrame DEF vars, local, history
  <2> QED
    BY <2>1, <2>2, <2>3, <2>4, <2>5 DEF Next
<1> QED
  BY <1>1, <1>2, <1>3 DEF ScanInv

\* ListVersions, GetModule and ListModules read a directory and then its
\* entries while other requests write: an answer that is not an error leaves
\* out no version whose push was acknowledged before the listing began.
THEOREM ListingIsComplete == Spec => []ListingComplete
<1>1. Init => ScanInv
  <2> SUFFICES ASSUME Init PROVE ScanInv
    OBVIOUS
  <2>1. TypeInv /\ InDirectory
    BY InitServed DEF ServedInv
  <2>2. ParentDirs
    BY DEF Init, ParentDirs
  <2>3. \A p \in Clients : Scanned(p)
    BY DEF Init, Scanned, ListPCs, Procs
  <2> QED
    BY <2>1, <2>2, <2>3 DEF ScanInv
<1>2. ScanInv => ListingComplete
  BY DEF ScanInv, Scanned, ListingComplete
<1> QED
  BY <1>1, <1>2, NextScan, PTL DEF Spec

\* Listings fail only on a version that a write in flight, cut short or
\* overlapped has left unreadable, and those that succeed are complete.
\* pkg/storage/filesystem.go:92 and 114
THEOREM ListingsAreWhole == Spec => []ListingsWhole
<1>1. ListingAvailable /\ ListingComplete => ListingsWhole
  BY DEF ListingsWhole
<1> QED
  BY <1>1, ListingWorks, ListingIsComplete, PTL
=============================================================================
