------------------------------ MODULE Plugins -------------------------------
(***************************************************************************)
(* pkg/plugins and pkg/codegen/languages: processes that start load the    *)
(* plugins of their directories and register the languages these bring.    *)
(* A plugin of the Buf registry is downloaded into a directory that all    *)
(* processes of the user share, and taken from there when it is found.     *)
(* A binary is its content: absent, in part, or whole.                     *)
(***************************************************************************)
EXTENDS Naturals, FiniteSets, TLC

CONSTANTS
    Loaders,    \* processes with a Loader of their own
    Dirs,       \* plugin directories
    Manifests,  \* [Dirs -> id, sound (readable and valid), api, buf, image]
    NoEntry,    \* metadata that is not there, a plugin that is not loaded
    MaxAge,     \* maxAge of PruneOldEntries
    MaxDay,     \* bound: days
    MaxBreaks   \* bound: failed downloads and processes that die

Ids == {Manifests[d].id : d \in Dirs}
ASSUME PluginsAssumption ==
    /\ \A d \in Dirs : {Manifests[d].sound, Manifests[d].buf, Manifests[d].image} \subseteq BOOLEAN
    /\ MaxAge \in Nat /\ MaxDay \in Nat /\ MaxBreaks \in Nat

VARIABLES
    binary,      \* [Ids -> content of the binary in ~/.buf/plugins]
    entry,       \* [Ids -> NoEntry, or content (its checksum), used: metadata of Cache]
    day,
    loader,      \* [Loaders -> step, dirs still to visit, the directory at work]
    loaded,      \* [Loaders -> loadedPlugins: [Ids -> NoEntry, or the kind of plugin]]
    languages,   \* [Loaders -> ids in the language registry]
    registered,  \* [Loaders -> ids in the global plugin registry]
    heard,       \* the answer of a query in this step
    breaks,
    cutShort     \* history: ids whose extraction was cut short, or met another one
pluginVars == <<binary, entry, day, loader, loaded, languages, registered, heard, breaks, cutShort>>

Off == [step |-> "off", todo |-> {}, dir |-> NoEntry]
NoPlugins == [i \in Ids |-> NoEntry]
PluginsInit ==
    /\ binary = [i \in Ids |-> "absent"] /\ entry = [i \in Ids |-> NoEntry] /\ day = 0
    /\ loader = [p \in Loaders |-> Off] /\ loaded = [p \in Loaders |-> NoPlugins]
    /\ languages = [p \in Loaders |-> {}] /\ registered = [p \in Loaders |-> {}]
    /\ heard = NoEntry /\ breaks = 0 /\ cutShort = {}

disk == <<binary, entry, cutShort>>
Quietly == heard' = NoEntry
To(p, step) == loader' = [loader EXCEPT ![p].step = step]
Reached(p, step) == loader[p].step = step
Manifest(p) == Manifests[loader[p].dir]
Extracting(i) == \E q \in Loaders : Reached(q, "extract") /\ Manifest(q).id = i

-----------------------------------------------------------------------------
(* Loader.                                                                 *)

\* Directories are visited in order; one that cannot be loaded is skipped.
LoadPlugins(p) ==
    /\ Reached(p, "off") /\ Quietly
    /\ loader' = [loader EXCEPT ![p] = [step |-> "scan", todo |-> Dirs, dir |-> NoEntry]]
    /\ UNCHANGED <<disk, day, loaded, languages, registered, breaks>>
DiscoverPlugins(p) ==
    /\ Reached(p, "scan") /\ Quietly
    /\ IF loader[p].todo = {} THEN To(p, "ready")
       ELSE \E d \in loader[p].todo :
               loader' = [loader EXCEPT ![p] = [step |-> "manifest", todo |-> @.todo \ {d}, dir |-> d]]
    /\ UNCHANGED <<disk, day, loaded, languages, registered, breaks>>
LoadManifestFromDir(d) == Manifests[d].sound
ValidateManifest(m) == m.sound
IsCompatibleAPIVersion(m) == m.api = "1"
isBufPlugin(m) == m.buf
loadPluginFromDir(p) ==
    LET m == Manifest(p) IN
    /\ Reached(p, "manifest") /\ Quietly
    /\ To(p, IF ~LoadManifestFromDir(loader[p].dir) \/ ~ValidateManifest(m)
                \/ ~IsCompatibleAPIVersion(m) THEN "scan"
             ELSE IF isBufPlugin(m) THEN "stat" ELSE "load")
    /\ UNCHANGED <<disk, day, loaded, languages, registered, breaks>>
\* BufPluginAdapter.Load: a file that is there is taken for the binary.
isCached(i) == binary[i] # "absent"
BufLoad(p) ==
    /\ Reached(p, "stat") /\ Quietly /\ To(p, IF isCached(Manifest(p).id) THEN "verify" ELSE "download")
    /\ UNCHANGED <<disk, day, loaded, languages, registered, breaks>>
\* Download looks once more, gets the archive, and extracts over the file.
Download(p) ==
    LET i == Manifest(p).id IN
    /\ Reached(p, "download") /\ Quietly
    /\ \/ isCached(i) /\ To(p, "verify") /\ UNCHANGED <<binary, cutShort, breaks>>
       \/ /\ ~isCached(i) /\ To(p, "extract") /\ binary' = [binary EXCEPT ![i] = "part"]
          /\ UNCHANGED <<cutShort, breaks>>
       \/ /\ ~isCached(i) /\ breaks < MaxBreaks /\ breaks' = breaks + 1 /\ To(p, "scan")
          /\ UNCHANGED <<binary, cutShort>>
    /\ UNCHANGED <<entry, day, loaded, languages, registered>>
extractEarly(p) ==
    /\ Reached(p, "extract") /\ Quietly /\ To(p, "verify")
    /\ UNCHANGED <<disk, day, loaded, languages, registered, breaks>>
extractZip(p) ==
    LET i == Manifest(p).id IN
    /\ Reached(p, "extract") /\ Quietly
    /\ \/ /\ To(p, "verify") /\ UNCHANGED <<breaks, cutShort>>
          /\ binary' = [binary EXCEPT ![i] = IF @ = "absent" THEN @ ELSE "whole"]
       \/ /\ breaks < MaxBreaks /\ breaks' = breaks + 1 /\ To(p, "scan")
          /\ cutShort' = cutShort \cup {i} /\ UNCHANGED binary
    /\ UNCHANGED <<entry, day, loaded, languages, registered>>
verifyBinary(p) ==
    /\ Reached(p, "verify") /\ Quietly
    /\ To(p, IF isCached(Manifest(p).id) THEN "load" ELSE "scan")
    /\ UNCHANGED <<disk, day, loaded, languages, registered, breaks>>
Loaded(p) ==
    /\ Reached(p, "load") /\ Quietly /\ To(p, "register")
    /\ loaded' = [loaded EXCEPT ![p][Manifest(p).id] = IF isBufPlugin(Manifest(p)) THEN "buf" ELSE "basic"]
    /\ UNCHANGED <<disk, day, languages, registered, breaks>>
\* A specification needs a Docker image: that of a Buf plugin has none, and
\* that of a basic plugin only if its directory gives one.
Validate(m) == ~isBufPlugin(m) /\ m.image
Register(p) ==
    LET m == Manifest(p) IN
    /\ Reached(p, "register") /\ Quietly /\ To(p, "scan")
    /\ languages' = [languages EXCEPT ![p] = IF Validate(m) THEN @ \cup {m.id} ELSE @]
    /\ UNCHANGED <<disk, day, loaded, registered, breaks>>
UnloadPlugin(p) ==
    /\ Reached(p, "ready") /\ Quietly
    /\ \E i \in Ids : loaded[p][i] # NoEntry /\ loaded' = [loaded EXCEPT ![p][i] = NoEntry]
    /\ UNCHANGED <<disk, day, loader, languages, registered, breaks>>
\* The process ends or is killed, also in the middle of an extraction.
Exit(p) ==
    /\ loader[p].step # "off" /\ Quietly
    /\ loader[p].step # "ready" => breaks < MaxBreaks
    /\ breaks' = IF Reached(p, "ready") THEN breaks ELSE breaks + 1
    /\ cutShort' = IF Reached(p, "extract") THEN cutShort \cup {Manifest(p).id} ELSE cutShort
    /\ loader' = [loader EXCEPT ![p] = Off] /\ loaded' = [loaded EXCEPT ![p] = NoPlugins]
    /\ languages' = [languages EXCEPT ![p] = {}] /\ registered' = [registered EXCEPT ![p] = {}]
    /\ UNCHANGED <<binary, entry, day>>

\* The registry of the package, for plugins that register themselves.
RegisterPlugin(p) ==
    /\ Reached(p, "ready") /\ Quietly
    /\ \E i \in Ids \ registered[p] : registered' = [registered EXCEPT ![p] = @ \cup {i}]
    /\ UNCHANGED <<disk, day, loader, loaded, languages, breaks>>
Unregister(p) ==
    /\ Reached(p, "ready") /\ Quietly
    /\ \E i \in registered[p] : registered' = [registered EXCEPT ![p] = @ \ {i}]
    /\ UNCHANGED <<disk, day, loader, loaded, languages, breaks>>
Clear(p) ==
    /\ Reached(p, "ready") /\ Quietly /\ registered[p] # {}
    /\ registered' = [registered EXCEPT ![p] = {}]
    /\ UNCHANGED <<disk, day, loader, loaded, languages, breaks>>

-----------------------------------------------------------------------------
(* Cache: metadata beside the binaries.                                    *)

GetEntry(i) == entry[i]
SaveEntry(i, e) == entry' = [entry EXCEPT ![i] = e]
CreateEntry(i) ==
    /\ Quietly /\ isCached(i) /\ SaveEntry(i, [content |-> binary[i], used |-> day])
    /\ UNCHANGED <<binary, day, loader, loaded, languages, registered, breaks, cutShort>>
UpdateLastUsed(i) ==
    /\ Quietly /\ GetEntry(i) # NoEntry /\ SaveEntry(i, [entry[i] EXCEPT !.used = day])
    /\ UNCHANGED <<binary, day, loader, loaded, languages, registered, breaks, cutShort>>
\* The binary goes with its entry, also under an extraction.
Removed(S) ==
    /\ binary' = [i \in Ids |-> IF i \in S THEN "absent" ELSE binary[i]]
    /\ entry' = [i \in Ids |-> IF i \in S THEN NoEntry ELSE entry[i]]
    /\ cutShort' = (cutShort \ S) \cup {i \in S : Extracting(i)}
RemoveEntry(i) ==
    /\ Quietly /\ GetEntry(i) # NoEntry /\ Removed({i})
    /\ UNCHANGED <<day, loader, loaded, languages, registered, breaks>>
PruneOldEntries ==
    LET old == {i \in Ids : entry[i] # NoEntry /\ (entry[i] # NoEntry => entry[i].used + MaxAge < day)}
    IN  /\ Quietly /\ old # {} /\ Removed(old)
        /\ UNCHANGED <<day, loader, loaded, languages, registered, breaks>>
ClearCache ==
    /\ Quietly /\ \E i \in Ids : isCached(i) \/ entry[i] # NoEntry
    /\ Removed(Ids) /\ UNCHANGED <<day, loader, loaded, languages, registered, breaks>>
VerifyIntegrity ==
    /\ heard' = {i \in Ids : entry[i] # NoEntry /\ (entry[i] # NoEntry => entry[i].content # binary[i])}
    /\ UNCHANGED <<disk, day, loader, loaded, languages, registered, breaks>>
ListCachedPlugins ==
    /\ heard' = {i \in Ids : isCached(i)}
    /\ UNCHANGED <<disk, day, loader, loaded, languages, registered, breaks>>
NextDay ==
    /\ day < MaxDay /\ day' = day + 1 /\ Quietly
    /\ UNCHANGED <<disk, loader, loaded, languages, registered, breaks>>

PluginsNext ==
    \/ \E p \in Loaders :
          \/ LoadPlugins(p) \/ DiscoverPlugins(p) \/ loadPluginFromDir(p) \/ BufLoad(p)
          \/ Download(p) \/ extractZip(p) \/ verifyBinary(p) \/ Loaded(p) \/ Register(p)
          \/ UnloadPlugin(p) \/ Exit(p) \/ RegisterPlugin(p) \/ Unregister(p) \/ Clear(p)
    \/ \E i \in Ids : CreateEntry(i) \/ UpdateLastUsed(i) \/ RemoveEntry(i)
    \/ PruneOldEntries \/ ClearCache \/ VerifyIntegrity \/ ListCachedPlugins \/ NextDay

-----------------------------------------------------------------------------
(* A binary that lies in the directory in part is being extracted, or its  *)
(* extraction was cut short: nothing else ever leaves one behind.  Since a *)
(* file that is there is taken as it is, a cut extraction breaks its       *)
(* plugin for every later process until the cache is cleared.              *)
PartOnlyWhereCut ==
    \A i \in Ids : binary[i] = "part" => Extracting(i) \/ i \in cutShort
=============================================================================
