------------------------------- MODULE Schemas ------------------------------
(* The storage as the schema tools see it: versions with the text of their  *)
(* first file, of either backend, read through GetVersion and ListVersions. *)
EXTENDS ProtoParser

CONSTANTS
    Content,        \* name of a text -> its lines
    VersionNames,   \* the version names in the order of a directory listing
    Parts,          \* version name -> its parts: value (-1: not a number) and rank of the text
    Empty           \* a version that has no files

VARIABLES
    backend,        \* "fs" or "postgres"
    store,          \* <<module, version>> -> [c: text, at: time of creation]
    answer          \* what the last request was told

schemaVars == <<backend, store, answer>>

\* Parsing is a function of the text, so each text is parsed once here.
Parsed == [c \in DOMAIN Content |-> ParseString(Content[c])]
NoAnswer == [op |-> "none"]

SchemasInit ==
    backend \in {"fs", "postgres"} /\ store = <<>> /\ answer = NoAnswer

\* A directory is listed by name, with the files; the table by creation,
\* newest first, and its rows come without files.
ListVersions(m) ==
    LET Named(v) == <<m, v>> \in DOMAIN store
        Later(v, w) == store[<<m, v>>].at > store[<<m, w>>].at
    IN  IF backend = "fs"
        THEN Map(LAMBDA v : [v |-> v, c |-> store[<<m, v>>].c], SelectSeq(VersionNames, Named))
        ELSE Map(LAMBDA v : [v |-> v, c |-> Empty], SortSeq(SelectSeq(VersionNames, Named), Later))

\* The comparison function of getLatestVersion: is v to be listed before w?
Newer(m, v, w) ==
    LET p == Parts[v]
        q == Parts[w]
        Differ(k) == IF p[k].n < 0 \/ q[k].n < 0 THEN p[k].s # q[k].s ELSE p[k].n # q[k].n
        ks == {k \in DOMAIN p \cap DOMAIN q : Differ(k)}
    IN  IF ks # {} THEN LET k == Min(ks)
                        IN  IF p[k].n < 0 \/ q[k].n < 0 THEN p[k].s > q[k].s ELSE p[k].n > q[k].n
        ELSE IF Len(p) # Len(q) THEN Len(p) > Len(q)
        ELSE store[<<m, v>>].at > store[<<m, w>>].at
\* The first element once sort.Slice has run, which sorts so few by insertion:
\* an element moves left past its neighbour while it is to come before it.
Insert(m, s, v) ==
    LET stay == {i \in DOMAIN s : ~Newer(m, v, s[i])}
    IN  InsertAt(s, 1 + Max({0} \cup stay), v)
getLatestVersion(m, all) ==
    IF all = <<>> THEN [ok |-> FALSE]
    ELSE [ok |-> TRUE, c |-> store[<<m, Head(FoldLeft(LAMBDA s, x : Insert(m, s, x.v), <<>>, all))>>].c]

\* [ok, c]: the version and its text.
GetVersion(m, v) ==
    IF backend = "fs" /\ v = "latest" THEN getLatestVersion(m, ListVersions(m))
    ELSE IF <<m, v>> \in DOMAIN store THEN [ok |-> TRUE, c |-> store[<<m, v>>].c]
    ELSE [ok |-> FALSE]

CreateVersion(m, v, c) ==
    /\ <<m, v>> \notin DOMAIN store
    /\ store' = (<<m, v>> :> [c |-> c, at |-> Cardinality(DOMAIN store) + 1]) @@ store
    /\ answer' = NoAnswer /\ UNCHANGED backend

Answer(a) == answer' = a /\ UNCHANGED <<backend, store>>
\* The client has read its answer.
Done == answer # NoAnswer /\ answer' = NoAnswer /\ UNCHANGED <<backend, store>>
=============================================================================
