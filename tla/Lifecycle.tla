----------------------------- MODULE Lifecycle ------------------------------
(***************************************************************************)
(* pkg/httputil and pkg/observability around pkg/audit: a server whose     *)
(* handlers log an event each, under RecoveryMiddleware or also under      *)
(* TimeoutMiddleware, and the ShutdownManager that stops it.  One of the   *)
(* shutdown functions closes the audit logger.                             *)
(***************************************************************************)
EXTENDS Audit

CONSTANTS Funcs   \* the shutdown functions, "audit" among them

ASSUME LifecycleAssumption == "audit" \in Funcs

VARIABLES
    limited,  \* the handlers run under TimeoutMiddleware
    outer,    \* [Emitters -> the server's goroutine: "none", "serving", "returned"]
    inner,    \* [Emitters -> the handler: "none", "run", "logged", "written", "stuck", "gone"]
    answer,   \* [Emitters -> the status code of the answer, 0 before it has one]
    manager,  \* ShutdownManager: "serving", "server", "functions", "returned"
    func,     \* [Funcs -> "none", "running", "done", "failed"]
    expired,  \* the context of the shutdown
    health,   \* answer of the last readiness probe
    late      \* history: emitters that logged after their request was answered
lifeVars == <<logVars, limited, outer, inner, answer, manager, func, expired, health, late>>

LifecycleInit ==
    /\ AuditInit /\ limited \in BOOLEAN
    /\ outer = [e \in Emitters |-> "none"] /\ inner = [e \in Emitters |-> "none"]
    /\ answer = [e \in Emitters |-> 0] /\ manager = "serving"
    /\ func = [f \in Funcs |-> "none"] /\ expired = FALSE /\ health = Nothing /\ late = {}

Alive == ~aborted /\ manager # "returned"
Unlogged == UNCHANGED <<async, writer, event, errChan, files, table, sec, io, aborted>> /\ Silent
Unmanaged == UNCHANGED <<limited, manager, func, expired>> /\ health' = Nothing
Become(e, o, i, code) ==
    /\ outer' = [outer EXCEPT ![e] = o] /\ inner' = [inner EXCEPT ![e] = i]
    /\ answer' = [answer EXCEPT ![e] = IF @ = 0 THEN code ELSE @]
    /\ IF o = "returned" THEN Cancel(e) ELSE UNCHANGED ctx

-----------------------------------------------------------------------------
(* A request.                                                              *)

Accept(e) ==
    /\ Alive /\ manager = "serving" /\ outer[e] = "none" /\ Become(e, "serving", "run", 0)
    /\ Unlogged /\ Unmanaged /\ UNCHANGED late
\* A preflight request and a wrong content type never reach the handler.
CORSMiddleware(e) ==
    /\ Alive /\ manager = "serving" /\ outer[e] = "none" /\ Become(e, "returned", "gone", 200)
    /\ Unlogged /\ Unmanaged /\ UNCHANGED late
ContentTypeMiddleware(e) ==
    /\ Alive /\ manager = "serving" /\ outer[e] = "none" /\ Become(e, "returned", "gone", 400)
    /\ Unlogged /\ Unmanaged /\ UNCHANGED late
HandlerLogs(e) ==
    /\ Alive /\ inner[e] = "run" /\ Become(e, outer[e], "logged", 0)
    /\ LogSuccess(e) \/ LogFailure(e) \/ LogDenied(e)
    /\ late' = IF outer[e] = "returned" THEN late \cup {e} ELSE late
    /\ Silent /\ Unmanaged
    /\ UNCHANGED <<async, errChan, files, table, sec, io, aborted>>
\* After the timeout the writer is no longer the handler's, and is written to.
HandlerWrites(e) ==
    /\ Alive /\ inner[e] = "logged" /\ Returned(e)
    /\ \E code \in Statuses : Become(e, outer[e], "written", code)
    /\ Unlogged /\ Unmanaged /\ UNCHANGED late
\* Without a timeout the handler runs on the server's goroutine.
HandlerReturns(e) ==
    /\ Alive /\ ~limited /\ inner[e] = "written" /\ Become(e, "returned", "gone", 0)
    /\ Unlogged /\ Unmanaged /\ UNCHANGED late
RecoveryMiddleware(e) ==
    /\ Alive /\ ~limited /\ inner[e] \in {"run", "logged"} /\ Become(e, "returned", "gone", 500)
    /\ Unlogged /\ Unmanaged /\ UNCHANGED late
\* done <- true: nobody receives after the timeout, and the goroutine stays.
TimeoutMiddleware(e) ==
    /\ Alive /\ limited /\ inner[e] = "written"
    /\ IF outer[e] = "serving" THEN Become(e, "returned", "gone", 0)
       ELSE Become(e, outer[e], "stuck", 0)
    /\ Unlogged /\ Unmanaged /\ UNCHANGED late
\* A panic under the timeout is recovered there: the request ends without an
\* answer of its own, at once or, if the select was not reached, at the timeout.
HandlerPanics(e) ==
    /\ Alive /\ limited /\ inner[e] \in {"run", "logged"}
    /\ \/ outer[e] = "serving" /\ Become(e, "returned", "gone", 200)
       \/ Become(e, outer[e], "gone", 0)
    /\ Unlogged /\ Unmanaged /\ UNCHANGED late
RequestTimeout(e) ==
    /\ Alive /\ limited /\ outer[e] = "serving" /\ Become(e, "returned", inner[e], 504)
    /\ Unlogged /\ Unmanaged /\ UNCHANGED late
RequestStep(e) ==
    \/ Accept(e) \/ CORSMiddleware(e) \/ ContentTypeMiddleware(e) \/ HandlerLogs(e)
    \/ HandlerWrites(e) \/ HandlerReturns(e) \/ RecoveryMiddleware(e) \/ TimeoutMiddleware(e)
    \/ HandlerPanics(e) \/ RequestTimeout(e)

-----------------------------------------------------------------------------
(* HealthChecker.  A pool without a maximum has 0 of them, which counts as *)
(* exhausted.                                                              *)

checkDatabase(db) == IF db \in {"down", "query fails"} THEN "unhealthy"
                     ELSE IF db \in {"exhausted", "no maximum"} THEN "degraded" ELSE "healthy"
checkRedis(redis) == IF redis = "down" THEN "unhealthy" ELSE "healthy"
Check(db, redis) ==
    LET ofDB == IF db = "none" THEN "healthy" ELSE checkDatabase(db)
    IN  IF redis # "none" /\ checkRedis(redis) = "unhealthy" /\ ofDB # "unhealthy"
        THEN "degraded" ELSE ofDB
Readiness ==
    /\ Alive
    /\ \E db \in {"none", "down", "query fails", "exhausted", "no maximum", "up"},
          redis \in {"none", "down", "up"} :
          health' = IF Check(db, redis) = "unhealthy" THEN 503 ELSE 200
    /\ Unlogged /\ UNCHANGED <<ctx, limited, outer, inner, answer, manager, func, expired, late>>

-----------------------------------------------------------------------------
(* ShutdownManager.                                                        *)

Unserved == UNCHANGED <<ctx, outer, inner, answer, limited, late>> /\ health' = Nothing
WaitForShutdown ==
    /\ Alive /\ manager = "serving" /\ manager' = "server"
    /\ Unlogged /\ Unserved /\ UNCHANGED <<func, expired>>
Expire ==
    /\ Alive /\ manager \in {"server", "functions"} /\ ~expired /\ expired' = TRUE
    /\ Unlogged /\ Unserved /\ UNCHANGED <<func, manager>>
StartFunctions == manager' = "functions" /\ func' = [f \in Funcs |-> "running"]
ServerShutdownAnyway ==
    /\ Alive /\ manager = "server"
    /\ expired \/ \A e \in Emitters : outer[e] # "serving"
    /\ StartFunctions /\ Unlogged /\ Unserved /\ UNCHANGED expired
\* A server that does not stop in time ends the shutdown before its functions.
ServerShutdown ==
    /\ Alive /\ manager = "server"
    /\ \/ (\A e \in Emitters : outer[e] # "serving") /\ StartFunctions
       \/ expired /\ manager' = "returned" /\ UNCHANGED func
    /\ Unlogged /\ Unserved /\ UNCHANGED expired
\* A shutdown function of the server or of the telemetry, which may fail.
RunFunction(f) ==
    /\ Alive /\ f # "audit" /\ func[f] = "running"
    /\ \E r \in {"done", "failed"} : func' = [func EXCEPT ![f] = r]
    /\ Unlogged /\ Unserved /\ UNCHANGED <<manager, expired>>
CloseAudit ==
    /\ Alive /\ func["audit"] = "running" /\ Close /\ Silent
    /\ func' = [func EXCEPT !["audit"] = "done"]
    /\ UNCHANGED <<outer, inner, answer, limited, late, manager, expired>> /\ health' = Nothing
Finished == \A f \in Funcs : func[f] \in {"done", "failed"}
AwaitAll ==
    /\ Alive /\ manager = "functions" /\ Finished /\ manager' = "returned"
    /\ Unlogged /\ Unserved /\ UNCHANGED <<func, expired>>
Await ==
    /\ Alive /\ manager = "functions" /\ (Finished \/ expired) /\ manager' = "returned"
    /\ Unlogged /\ Unserved /\ UNCHANGED <<func, expired>>
ShutdownStep ==
    \/ WaitForShutdown \/ Expire \/ ServerShutdown \/ CloseAudit \/ Await
    \/ \E f \in Funcs : RunFunction(f)

LogNext == /\ AuditStep \/ \E e \in Emitters : Handler(e) \/ RequestEnds(e)
           /\ UNCHANGED <<limited, outer, inner, answer, manager, func, expired, health, late>>
WriterStep == /\ Alive /\ \E e \in Emitters : FileLog(e) \/ DBLog(e)
              /\ UNCHANGED <<limited, outer, inner, answer, manager, func, expired, late>>
              /\ health' = Nothing
LifecycleNext == (\E e \in Emitters : RequestStep(e)) \/ Readiness \/ ShutdownStep \/ WriterStep

-----------------------------------------------------------------------------
(* The process is ended by a send on the closed channel of errors only     *)
(* where a handler logged after its request had timed out: no handler that *)
(* the server waited for, and no goroutine of the logger, outlives Close.  *)
AbortNeedsOrphan == aborted => late # {}
(* A shutdown that has begun ends, though a handler or the database hangs. *)
ShutdownEnds == (manager # "serving") ~> (manager = "returned" \/ aborted)
=============================================================================
