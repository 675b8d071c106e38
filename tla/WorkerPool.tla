----------------------------- MODULE WorkerPool -----------------------------
(***************************************************************************)
(* pkg/async/goroutine.go: a WorkerPool used either directly (goroutines   *)
(* that Submit one task each, one that calls Shutdown) or through Batch    *)
(* (one caller that submits every item, closes the channel and waits).     *)
(* The work channel is a set: which queued task a worker receives does not *)
(* matter to any property, its capacity does.                              *)
(***************************************************************************)
EXTENDS Naturals, FiniteSets

CONSTANTS
    Workers,    \* worker goroutines
    Tasks,      \* tasks: one per submitting goroutine, or the items of Batch
    QueueCap,   \* capacity of workCh, 2 * workers in NewWorkerPool
    ErrCap      \* capacity of errCh, 10 * workers in NewWorkerPool

ASSUME PoolAssumption ==
    /\ IsFiniteSet(Workers) /\ Workers # {} /\ IsFiniteSet(Tasks)
    /\ QueueCap \in Nat /\ ErrCap \in Nat

NoTask == "none"
ASSUME NoTaskAssumption == NoTask \notin Tasks

VARIABLES
    mode,       \* "pool" or "batch": who drives the pool
    workCh,     \* tasks in the work channel
    closed,     \* workCh is closed
    done,       \* doneCh is closed
    errs,       \* number of errors in errCh
    cancelled,  \* the pool's context is done
    parentGone, \* its parent context was cancelled by the caller's owner
    worker,     \* [Workers -> "select", "run" or "exited"]
    running,    \* [Workers -> task the worker executes, NoTask if none]
    submit,     \* [Tasks -> step of the Submit call for the task]
    result,     \* [Tasks -> what Submit returned]
    outcome,    \* [Tasks -> "none", "ok" or "error" once the task ran]
    shutdown,   \* step of Shutdown
    batch,      \* step of Batch
    reported    \* number of errors Batch returned

chans == <<workCh, closed, done, errs>>
ctx == <<cancelled, parentGone>>
calls == <<submit, result>>
vars == <<mode, chans, ctx, worker, running, calls, outcome, shutdown, batch, reported>>

Init ==
    /\ mode \in {"pool", "batch"}
    /\ workCh = {} /\ closed = FALSE /\ done = FALSE /\ errs = 0
    /\ cancelled = FALSE /\ parentGone = FALSE
    /\ worker = [w \in Workers |-> "select"]
    /\ running = [w \in Workers |-> NoTask]
    /\ submit = [t \in Tasks |-> "new"]
    /\ result = [t \in Tasks |-> "none"]
    /\ outcome = [t \in Tasks |-> "none"]
    /\ shutdown = "none" /\ batch = "items" /\ reported = 0
-----------------------------------------------------------------------------
(* Submit.                                                                 *)
Return(t, r) ==
    /\ submit' = [submit EXCEPT ![t] = "returned"]
    /\ result' = [result EXCEPT ![t] = r]

SubmitCheck(t) ==
    /\ submit[t] = "new"
    /\ IF done THEN Return(t, "error")
               ELSE submit' = [submit EXCEPT ![t] = "send"] /\ UNCHANGED result

\* Mutant: a full channel drops the task.
SubmitSelectDrops(t) ==
    /\ submit[t] = "send"
    /\ \/ /\ ~closed /\ Cardinality(workCh) < QueueCap
          /\ workCh' = workCh \cup {t}
          /\ Return(t, "nil")
       \/ Cardinality(workCh) = QueueCap /\ Return(t, "nil") /\ UNCHANGED workCh

\* The select of Submit.  A send on the closed channel panics; the deferred
\* recover swallows the panic and Submit returns the zero value, nil.
SubmitSelect(t) ==
    /\ submit[t] = "send"
    /\ \/ /\ ~closed /\ Cardinality(workCh) < QueueCap
          /\ workCh' = workCh \cup {t}
          /\ Return(t, "nil")
       \/ closed /\ Return(t, "nil") /\ UNCHANGED workCh
       \/ done /\ Return(t, "error") /\ UNCHANGED workCh

PoolSubmit(t) ==
    /\ mode = "pool"
    /\ \/ SubmitCheck(t) /\ UNCHANGED workCh
       \/ SubmitSelect(t)
    /\ UNCHANGED <<mode, closed, done, errs, ctx, worker, running, outcome, shutdown,
                   batch, reported>>
-----------------------------------------------------------------------------
(* Workers: a select over the context and the channel.                     *)
\* Mutant: a worker leaves as soon as the channel is closed.
WorkerExitEarly(w) ==
    /\ worker[w] = "select"
    /\ cancelled \/ closed
    /\ worker' = [worker EXCEPT ![w] = "exited"]
    /\ UNCHANGED <<mode, chans, ctx, running, calls, outcome, shutdown, batch, reported>>

WorkerExit(w) ==
    /\ worker[w] = "select"
    /\ cancelled \/ (closed /\ workCh = {})
    /\ worker' = [worker EXCEPT ![w] = "exited"]
    /\ UNCHANGED <<mode, chans, ctx, running, calls, outcome, shutdown, batch, reported>>

WorkerReceive(w) ==
    /\ worker[w] = "select"
    /\ \E t \in workCh :
         /\ workCh' = workCh \ {t}
         /\ running' = [running EXCEPT ![w] = t]
    /\ worker' = [worker EXCEPT ![w] = "run"]
    /\ UNCHANGED <<mode, closed, done, errs, ctx, calls, outcome, shutdown, batch, reported>>

\* The task returns nil, or returns an error or panics: both go to errCh,
\* and are dropped when it is full.
WorkerFinish(w) ==
    /\ worker[w] = "run"
    /\ \/ outcome' = [outcome EXCEPT ![running[w]] = "ok"] /\ UNCHANGED errs
       \/ /\ outcome' = [outcome EXCEPT ![running[w]] = "error"]
          /\ errs' = IF errs < ErrCap THEN errs + 1 ELSE errs
    /\ worker' = [worker EXCEPT ![w] = "select"]
    /\ running' = [running EXCEPT ![w] = NoTask]
    /\ UNCHANGED <<mode, workCh, closed, done, ctx, calls, shutdown, batch, reported>>

\* wg.Wait, then close(doneCh).
AllDone ==
    /\ ~done /\ \A w \in Workers : worker[w] = "exited"
    /\ done' = TRUE
    /\ UNCHANGED <<mode, workCh, closed, errs, ctx, worker, running, calls, outcome,
                   shutdown, batch, reported>>

\* The caller's own context ends, at any time.
ParentCancel ==
    /\ ~parentGone
    /\ parentGone' = TRUE /\ cancelled' = TRUE
    /\ UNCHANGED <<mode, chans, worker, running, calls, outcome, shutdown, batch, reported>>
-----------------------------------------------------------------------------
(* Shutdown, once: close the channel, wait for doneCh or the timeout.      *)
ShutdownClose ==
    /\ shutdown = "none" /\ (mode = "pool" \/ batch = "returned")
    /\ closed' = TRUE
    /\ shutdown' = "wait"
    /\ UNCHANGED <<mode, workCh, done, errs, ctx, worker, running, calls, outcome, batch,
                   reported>>

ShutdownDone ==
    /\ shutdown = "wait" /\ done
    /\ cancelled' = TRUE /\ shutdown' = "nil"
    /\ UNCHANGED <<mode, chans, parentGone, worker, running, calls, outcome, batch, reported>>

ShutdownTimeout ==
    /\ shutdown = "wait"
    /\ cancelled' = TRUE /\ shutdown' = "timeout"
    /\ UNCHANGED <<mode, chans, parentGone, worker, running, calls, outcome, batch, reported>>
-----------------------------------------------------------------------------
(* Batch.  Its deferred Shutdown runs after every return.                  *)
Submitted == {t \in Tasks : submit[t] = "returned"}

\* The submission loop: the context check and the first half of Submit for
\* the next item; after the last item the context is not looked at again.
BatchItem ==
    /\ mode = "batch" /\ batch = "items"
    /\ \A t \in Tasks : submit[t] # "send" /\ result[t] # "error"
    /\ IF Submitted = Tasks
       THEN batch' = "close" /\ UNCHANGED <<calls, reported>>
       ELSE IF parentGone
       THEN batch' = "returned" /\ reported' = 1 /\ UNCHANGED calls
       ELSE (\E t \in Tasks : SubmitCheck(t)) /\ UNCHANGED <<batch, reported>>
    /\ UNCHANGED <<mode, chans, ctx, worker, running, outcome, shutdown>>

\* Submit's select; an error ends the batch.
BatchSend ==
    /\ mode = "batch" /\ batch = "items"
    /\ \E t \in Tasks : SubmitSelect(t)
    /\ UNCHANGED <<mode, closed, done, errs, ctx, worker, running, outcome, shutdown,
                   batch, reported>>

BatchSubmitFailed ==
    /\ mode = "batch" /\ batch = "items"
    /\ \E t \in Tasks : result[t] = "error"
    /\ batch' = "returned" /\ reported' = 1
    /\ UNCHANGED <<mode, chans, ctx, worker, running, calls, outcome, shutdown>>

\* Mutant: the channel is left open.
BatchCloseForgets ==
    /\ batch = "close" /\ batch' = "wait"
    /\ UNCHANGED <<mode, chans, ctx, worker, running, calls, outcome, shutdown, reported>>

BatchClose ==
    /\ batch = "close"
    /\ closed' = TRUE /\ batch' = "wait"
    /\ UNCHANGED <<mode, workCh, done, errs, ctx, worker, running, calls, outcome,
                   shutdown, reported>>

\* Mutant: errors are collected without waiting for the workers.
BatchCollectEarly ==
    /\ batch = "wait"
    /\ cancelled' = TRUE
    /\ reported' = errs /\ errs' = 0
    /\ batch' = "returned"
    /\ UNCHANGED <<mode, workCh, closed, done, parentGone, worker, running, calls, outcome,
                   shutdown>>

\* doneCh is closed: cancel, then drain errCh without blocking.
BatchCollect ==
    /\ batch = "wait" /\ done
    /\ cancelled' = TRUE
    /\ reported' = errs /\ errs' = 0
    /\ batch' = "returned"
    /\ UNCHANGED <<mode, workCh, closed, done, parentGone, worker, running, calls, outcome,
                   shutdown>>
-----------------------------------------------------------------------------
\* Every call returned and every goroutine exited.
Terminated ==
    /\ shutdown \in {"nil", "timeout"} /\ done /\ parentGone
    /\ \A t \in Tasks : submit[t] = "returned" \/ mode = "batch"
    /\ UNCHANGED vars

WorkerStep(w) == WorkerExit(w) \/ WorkerReceive(w) \/ WorkerFinish(w)
BatchStep == BatchItem \/ BatchSend \/ BatchSubmitFailed \/ BatchClose \/ BatchCollect

Next ==
    \/ \E t \in Tasks : PoolSubmit(t)
    \/ \E w \in Workers : WorkerStep(w)
    \/ AllDone \/ ParentCancel
    \/ ShutdownClose \/ ShutdownDone \/ ShutdownTimeout
    \/ BatchStep
    \/ Terminated

\* Goroutines are scheduled and tasks return; nothing is assumed of the
\* callers of the pool, of its parent context or of the shutdown timer.
Fairness ==
    /\ \A w \in Workers : WF_vars(WorkerStep(w))
    /\ WF_vars(AllDone) /\ WF_vars(BatchStep)
    /\ WF_vars(\E t \in Tasks : PoolSubmit(t))

Spec == Init /\ [][Next]_vars
FairSpec == Spec /\ Fairness
-----------------------------------------------------------------------------
TypeOK ==
    /\ mode \in {"pool", "batch"}
    /\ workCh \subseteq Tasks /\ closed \in BOOLEAN /\ done \in BOOLEAN
    /\ errs \in 0..ErrCap
    /\ cancelled \in BOOLEAN /\ parentGone \in BOOLEAN
    /\ worker \in [Workers -> {"select", "run", "exited"}]
    /\ running \in [Workers -> Tasks \cup {NoTask}]
    /\ submit \in [Tasks -> {"new", "send", "returned"}]
    /\ result \in [Tasks -> {"none", "nil", "error"}]
    /\ outcome \in [Tasks -> {"none", "ok", "error"}]
    /\ shutdown \in {"none", "wait", "nil", "timeout"}
    /\ batch \in {"items", "close", "wait", "returned"}
    /\ reported \in Nat

\* The task is in the channel, being executed, or executed.
Located(t) ==
    t \in workCh \/ outcome[t] # "none" \/ \E w \in Workers : running[w] = t

\* Shutdown that returns nil has drained the pool: while the parent context
\* lives, nothing is left in the channel and no worker is still at work.
ShutdownDrains ==
    shutdown = "nil" /\ ~parentGone => workCh = {} /\ \A w \in Workers : running[w] = NoTask

\* A task for which Submit returned nil is lost only to a channel that was
\* closed under Submit, and with Batch, whose caller closes it, never.
AcceptedNotLost ==
    \A t \in Tasks : result[t] = "nil" /\ ~Located(t) => closed /\ mode = "pool"

Failed == {t \in Tasks : outcome[t] = "error"}

\* Batch that returns while its context lives has run every item, and reports
\* as many errors as failed, up to the capacity of errCh.
BatchComplete ==
    mode = "batch" /\ batch = "returned" /\ ~parentGone =>
        /\ \A t \in Tasks : outcome[t] # "none"
        /\ reported = IF Cardinality(Failed) < ErrCap THEN Cardinality(Failed) ELSE ErrCap

\* Batch returns, whenever its context ends and however its items fail: the
\* close of doneCh wakes a Submit blocked on a full channel.
BatchReturns == (mode = "batch") ~> (batch = "returned")

\* goroutine.go:119, "Returns error if pool is shut down": a Submit that
\* returns nil has handed its task to the pool.
SubmitNilMeansAccepted == \A t \in Tasks : result[t] = "nil" => Located(t)
=============================================================================
