------------------------------- MODULE Audit --------------------------------
(***************************************************************************)
(* pkg/audit: a MultiLogger hands every event to a FileLogger and to a     *)
(* DBLogger, each on a goroutine of its own when it is asynchronous.  The  *)
(* FileLogger rotates audit.log by size into files named by the second and *)
(* keeps the newest of them; the API reads what the DBLogger stored.       *)
(* An event is written by one emitter, whose name it bears.                *)
(***************************************************************************)
EXTENDS Naturals, SequencesExt

CONSTANTS
    Emitters,      \* handlers that log one event each
    Statuses,      \* status codes a handler may answer
    MaxSize,       \* events in audit.log before it is rotated
    MaxFiles,      \* rotated files that are kept
    DefaultLimit,  \* of a page of events
    Nothing,       \* no answer, no file
    MaxSec,        \* bound: seconds
    MaxIO          \* bound: failures of the file system and the database

ASSUME AuditAssumption ==
    /\ MaxSize \in Nat \ {0} /\ MaxFiles \in Nat \ {0} /\ MaxSec \in Nat
    /\ Nothing \notin Nat /\ Nothing \notin Seq(Emitters)

Sinks == {"file", "db"}
VARIABLES
    async,    \* MultiLogger.async
    writer,   \* [Emitters -> [Sinks -> "none", "running", "done", "failed"]]
    event,    \* [Emitters -> the event: status, at; Nothing before it is logged]
    ctx,      \* [Emitters -> the context of the request is live]
    errChan,  \* open, n: the errors in the channel
    handle,   \* FileLogger.file: "open", "nil"
    encoder,  \* the file below the encoder: "open", "closed"
    current,  \* events of audit.log, in the order they were written
    rotated,  \* [0..MaxSec -> Nothing, or the events of audit-<second>.log]
    table,    \* rows of audit_logs, by id; a row that was deleted is Nothing
    sec, io,
    aborted,  \* a panic that nobody recovers has ended the process
    heard,    \* answer of a read of the API
    pruned,   \* history: <<file, event>> for the files that cleanupOldFiles removed
    replaced  \* history: events of files that a rename in the same second replaced
logVars == <<async, writer, event, ctx, errChan, handle, encoder, current, rotated, table, sec, io,
             aborted, heard, pruned, replaced>>

AuditInit ==
    /\ async \in BOOLEAN /\ writer = [e \in Emitters |-> [s \in Sinks |-> "none"]]
    /\ event = [e \in Emitters |-> Nothing] /\ ctx = [e \in Emitters |-> TRUE]
    /\ errChan = [open |-> TRUE, n |-> 0] /\ handle = "open" /\ encoder = "open" /\ current = <<>>
    /\ rotated = [s \in 0..MaxSec |-> Nothing] /\ table = <<>> /\ sec = 0 /\ io = 0
    /\ aborted = FALSE /\ heard = Nothing /\ pruned = {} /\ replaced = {}

files == <<handle, encoder, current, rotated, pruned, replaced>>
Silent == heard' = Nothing
Fails == io < MaxIO /\ io' = io + 1
Working == {p \in Emitters \X Sinks : writer[p[1]][p[2]] = "running"}

-----------------------------------------------------------------------------
(* The events, and MultiLogger.Log.                                        *)

buildBaseEvent(status) == [status |-> status, at |-> sec]
LogHTTPRequest(code) ==
    buildBaseEvent(IF code = 403 THEN "denied" ELSE IF code >= 400 THEN "failure" ELSE "success")
shouldLogRequest(mutation, code, sensitive) == mutation \/ code >= 400 \/ sensitive
\* One emitter logs: the goroutines start, or the loggers are called in turn.
Log(e, ev) ==
    /\ writer[e]["file"] = "none" /\ event' = [event EXCEPT ![e] = ev]
    /\ writer' = [writer EXCEPT ![e] = [s \in Sinks |-> IF async \/ s = "file" THEN "running" ELSE "none"]]
LogSuccess(e) == Log(e, buildBaseEvent("success"))
LogFailure(e) == Log(e, buildBaseEvent("failure"))
LogDenied(e) == Log(e, buildBaseEvent("denied"))
\* Middleware.Handler: the request is served, and logged if it matters.
Handler(e) ==
    /\ ~aborted /\ Silent
    /\ \E all, mutation, sensitive \in BOOLEAN, code \in Statuses :
          /\ all \/ shouldLogRequest(mutation, code, sensitive)
          /\ Log(e, LogHTTPRequest(code))
    /\ UNCHANGED <<async, ctx, errChan, files, table, sec, io, aborted>>
\* MultiLogger.Log returns once it called the loggers, or started them.
Returned(e) == \A s \in Sinks : writer[e][s] \in IF async THEN {"running", "done", "failed"}
                                                          ELSE {"done", "failed"}
\* Synchronously the second logger is called whatever the first returned.
logSync(e, s) == IF ~async /\ s = "file" THEN [writer[e] EXCEPT ![s] = "done", !["db"] = "running"]
                 ELSE [writer[e] EXCEPT ![s] = "done"]
Succeed(e, s) ==
    writer' = [writer EXCEPT ![e] = logSync(e, s)] /\ UNCHANGED <<errChan, aborted>>
\* An error goes into the channel if it has room.  A send on the closed
\* channel panics, and so does the send of the function that recovers it.
Fail(e, s) ==
    /\ writer' = [writer EXCEPT ![e] = [logSync(e, s) EXCEPT ![s] = "failed"]]
    /\ IF ~async THEN UNCHANGED <<errChan, aborted>>
       ELSE IF ~errChan.open THEN aborted' = TRUE /\ UNCHANGED errChan
       ELSE errChan' = [errChan EXCEPT !.n = IF @ < Cardinality(Sinks) THEN @ + 1 ELSE @]
            /\ UNCHANGED aborted
GetErrors ==
    /\ ~aborted /\ errChan.n > 0 /\ errChan' = [errChan EXCEPT !.n = 0] /\ Silent
    /\ UNCHANGED <<async, writer, event, ctx, files, table, sec, io, aborted>>
\* MultiLogger.Close waits for the goroutines that were started.
Close ==
    /\ Working = {} /\ errChan.open
    /\ errChan' = [errChan EXCEPT !.open = FALSE] /\ handle' = "nil"
    /\ encoder' = IF handle = "open" THEN "closed" ELSE encoder
    /\ UNCHANGED <<async, writer, event, ctx, current, rotated, table, sec, io, aborted, pruned, replaced>>

-----------------------------------------------------------------------------
(* FileLogger.  Its lock makes Log one step.                               *)

Names == {s \in 0..MaxSec : rotated[s] # Nothing}
Oldest(S, n) == {s \in S : Cardinality({t \in S : t > s}) >= n}
Newest(S, n) == {s \in S : Cardinality({t \in S : t < s}) >= n}
cleanupNewest(S) == Newest(S, MaxFiles)
cleanupOldFiles(S) == Oldest(S, MaxFiles)
InFiles(S) == UNION {ToSet(rotated[s]) : s \in S}
\* The rename replaces the file of an earlier rotation in the same second.
rotateFile ==
    LET gone == cleanupOldFiles(Names \cup {sec}) IN
    /\ rotated' = [s \in 0..MaxSec |-> IF s \in gone THEN Nothing
                                       ELSE IF s = sec THEN current ELSE rotated[s]]
    /\ pruned' = pruned \cup {p \in gone \X Emitters :
                              p[2] \in ToSet(IF p[1] = sec THEN current ELSE rotated[p[1]])}
    /\ replaced' = IF rotated[sec] = Nothing THEN replaced ELSE replaced \cup ToSet(rotated[sec])
Full == handle = "open" /\ Len(current) >= MaxSize
FileLog(e) ==
    /\ ~aborted /\ writer[e]["file"] = "running" /\ Silent
    /\ \/ /\ ~Full /\ encoder = "open"
          /\ current' = Append(current, e) /\ Succeed(e, "file")
          /\ UNCHANGED <<handle, encoder, rotated, pruned, replaced, io>>
       \/ /\ encoder = "open" /\ ~Full /\ Fails /\ Fail(e, "file") /\ UNCHANGED files
       \* audit.log was closed, by Close or by a rotation that failed
       \/ /\ encoder = "closed" /\ Fail(e, "file") /\ UNCHANGED <<files, io>>
       \/ /\ Full /\ rotateFile /\ current' = <<e>> /\ Succeed(e, "file")
          /\ UNCHANGED <<handle, encoder, io>>
       \* the rename fails: the old file is closed and never opened again
       \/ /\ Full /\ Fails /\ handle' = "nil" /\ encoder' = "closed" /\ Fail(e, "file")
          /\ UNCHANGED <<current, rotated, pruned, replaced>>
       \* the open after the rename fails
       \/ /\ Full /\ Fails /\ rotateFile /\ current' = <<>> /\ handle' = "nil"
          /\ encoder' = "closed" /\ Fail(e, "file")
    /\ UNCHANGED <<async, event, ctx, table, sec>>

-----------------------------------------------------------------------------
(* DBLogger and DBStore.                                                   *)

\* A cancelled context fails the insert.
DBLog(e) ==
    /\ ~aborted /\ writer[e]["db"] = "running" /\ Silent
    /\ \/ /\ ctx[e] /\ table' = Append(table, event[e]) /\ Succeed(e, "db") /\ UNCHANGED io
       \/ /\ ~ctx[e] /\ Fail(e, "db") /\ UNCHANGED <<table, io>>
       \/ /\ ctx[e] /\ Fails /\ Fail(e, "db") /\ UNCHANGED table
    /\ UNCHANGED <<async, event, ctx, files, sec>>
\* A limit that is no number leaves the page without a limit.
parseFilter(limit) == IF limit = "absent" THEN DefaultLimit ELSE IF limit = "bad" THEN 0 ELSE 1
Ids == {i \in DOMAIN table : table[i] # Nothing}
\* The newest first; rows of one second come in any order.
Search(status, limit, offset) ==
    LET hits == {i \in Ids : status = "any" \/ table[i].status = status}
        byTime == {s \in [1..Cardinality(hits) -> hits] :
                      /\ \A i \in hits : \E k \in DOMAIN s : s[k] = i
                      /\ \A k, l \in DOMAIN s : k < l => table[s[k]].at >= table[s[l]].at}
        last(s) == IF limit > 0 /\ offset + limit < Len(s) THEN offset + limit ELSE Len(s)
    IN  {<<"page", SubSeq(s, offset + 1, last(s))>> : s \in byTime}
listEvents ==
    \E limit \in {"absent", "bad", "one"}, offset \in 0..1, status \in {"any", "denied"} :
        heard' \in Search(status, parseFilter(limit), offset)
\* Get looks for the id in the first row of the search alone.
Get(id) == {<<"event", IF id \in ToSet(p[2]) THEN id ELSE 0>> : p \in Search("any", 1, 0)}
getEvent == \E id \in DOMAIN table : heard' \in Get(id)
exportEvents == heard' \in Search("any", parseFilter("absent"), 0)
GetStats ==
    heard' = <<"stats", [s \in {"success", "failure", "denied"} |->
                             Cardinality({i \in Ids : table[i].status = s})]>>
Read ==
    /\ ~aborted
    /\ listEvents \/ getEvent \/ exportEvents \/ GetStats
    /\ UNCHANGED <<async, writer, event, ctx, errChan, files, table, sec, io, aborted>>
\* Rows of earlier seconds are deleted.
Cleanup ==
    /\ ~aborted /\ Silent /\ \E i \in Ids : table[i].at < sec
    /\ table' = [i \in DOMAIN table |-> IF i \in Ids /\ (i \in Ids => table[i].at < sec)
                                        THEN Nothing ELSE table[i]]
    /\ UNCHANGED <<async, writer, event, ctx, errChan, files, sec, io, aborted>>
\* The server cancels the context once the handler has returned.
Cancel(e) == ctx' = [ctx EXCEPT ![e] = FALSE]
RequestEnds(e) ==
    /\ ~aborted /\ ctx[e] /\ Returned(e) /\ Cancel(e) /\ Silent
    /\ UNCHANGED <<async, writer, event, errChan, files, table, sec, io, aborted>>
Second ==
    /\ sec < MaxSec /\ sec' = sec + 1 /\ Silent
    /\ UNCHANGED <<async, writer, event, ctx, errChan, files, table, io, aborted>>
AuditStep ==
    \/ \E e \in Emitters : FileLog(e) \/ DBLog(e)
    \/ GetErrors \/ Read \/ Cleanup \/ Second

-----------------------------------------------------------------------------
(* What the file logger reported as written is in audit.log or in one of   *)
(* the rotated files, except what a rotation in the same second replaced   *)
(* and what cleanupOldFiles removed; and it removes no file that is newer  *)
(* than one it keeps.                                                      *)
LogRetained ==
    /\ \A e \in Emitters : writer[e]["file"] = "done" =>
          \/ e \in ToSet(current) \cup InFiles(Names) \cup replaced
          \/ \E p \in pruned : p[2] = e
    /\ Cardinality(Names) <= MaxFiles
    /\ \A p \in pruned, s \in Names : p[1] < s
=============================================================================
