-------------------------- MODULE WorkerPoolProofs --------------------------
(***************************************************************************)
(* The worker pool of pkg/async for any number of workers and tasks and    *)
(* any channel capacities: type correctness, what a nil from Shutdown and a *)
(* nil from Submit mean, and what Batch has done when it returns.          *)
(***************************************************************************)
EXTENDS WorkerPool, FiniteSetTheorems, TLAPS

\* A worker holds a task exactly while it runs one.
RunningIffRun == \A w \in Workers : worker[w] = "run" <=> running[w] # NoTask

\* A worker leaves for one of two reasons.
ExitReason ==
    \A w \in Workers : worker[w] = "exited" /\ ~cancelled => closed /\ workCh = {}

\* doneCh is closed by the last worker, and Shutdown returns nil after that.
DoneMeansExited ==
    /\ done => \A w \in Workers : worker[w] = "exited"
    /\ shutdown = "nil" => done

\* Who cancels the pool's context: its parent, a Shutdown that gave up, or
\* somebody who saw doneCh closed.
CancelReason == cancelled => parentGone \/ done \/ shutdown = "timeout"

\* A pool that ended by itself ended with an empty, closed channel.
DoneMeansDrained ==
    done /\ ~parentGone /\ shutdown # "timeout" => closed /\ workCh = {}

DrainInv ==
    /\ TypeOK /\ RunningIffRun /\ ExitReason /\ DoneMeansExited /\ CancelReason
    /\ DoneMeansDrained

\* Batch closes the channel after its last Submit has returned.
BatchCloseOrder ==
    /\ mode = "batch" /\ closed => batch # "items"
    /\ batch # "items" => mode = "batch"

AcceptInv == DrainInv /\ BatchCloseOrder /\ AcceptedNotLost
-----------------------------------------------------------------------------
\* The initial pool is well typed.
LEMMA InitTypeOK == Init => TypeOK
<1> SUFFICES ASSUME Init PROVE TypeOK
  OBVIOUS
<1>1. errs \in 0..ErrCap /\ reported \in Nat
  BY PoolAssumption DEF Init
<1>2. /\ worker \in [Workers -> {"select", "run", "exited"}]
      /\ running \in [Workers -> Tasks \cup {NoTask}]
      /\ submit \in [Tasks -> {"new", "send", "returned"}]
      /\ result \in [Tasks -> {"none", "nil", "error"}]
      /\ outcome \in [Tasks -> {"none", "ok", "error"}]
  BY DEF Init
<1> QED
  BY <1>1, <1>2 DEF Init, TypeOK

\* Every step of Submit, the workers, Shutdown and Batch keeps the types:
\* in particular errCh never holds more than its capacity.
LEMMA NextTypeOK == TypeOK /\ [Next]_vars => TypeOK'
<1> SUFFICES ASSUME TypeOK, [Next]_vars PROVE TypeOK'
  OBVIOUS
<1> USE PoolAssumption DEF TypeOK
<1>1. ASSUME NEW t \in Tasks, PoolSubmit(t) PROVE TypeOK'
  BY <1>1 DEF PoolSubmit, SubmitCheck, SubmitSelect, Return, ctx
<1>2. ASSUME NEW w \in Workers, WorkerExit(w) PROVE TypeOK'
  BY <1>2 DEF WorkerExit, chans, ctx, calls
<1>3. ASSUME NEW w \in Workers, WorkerReceive(w) PROVE TypeOK'
  BY <1>3 DEF WorkerReceive, ctx, calls
<1>4. ASSUME NEW w \in Workers, WorkerFinish(w) PROVE TypeOK'
  BY <1>4 DEF WorkerFinish, ctx, calls
<1>5. CASE AllDone
  BY <1>5 DEF AllDone, ctx, calls
<1>6. CASE ParentCancel
  BY <1>6 DEF ParentCancel, chans, calls
<1>7. CASE ShutdownClose
  BY <1>7 DEF ShutdownClose, ctx, calls
<1>8. CASE ShutdownDone \/ ShutdownTimeout
  BY <1>8 DEF ShutdownDone, ShutdownTimeout, chans, calls
<1>9. CASE BatchItem
  BY <1>9 DEF BatchItem, SubmitCheck, Return, chans, ctx, calls
<1>10. CASE BatchSend
  BY <1>10 DEF BatchSend, SubmitSelect, Return, ctx
<1>11. CASE BatchSubmitFailed
  BY <1>11 DEF BatchSubmitFailed, chans, ctx, calls
<1>12. CASE BatchClose
  BY <1>12 DEF BatchClose, ctx, calls
<1>13. CASE BatchCollect
  BY <1>13 DEF BatchCollect, calls
<1>14. CASE Terminated \/ UNCHANGED vars
  BY <1>14 DEF Terminated, vars, chans, ctx, calls
<1> QED
  BY <1>1, <1>2, <1>3, <1>4, <1>5, <1>6, <1>7, <1>8, <1>9, <1>10, <1>11, <1>12, <1>13, <1>14
  DEF Next, WorkerStep, BatchStep
-----------------------------------------------------------------------------
\* The pool of pkg/async is type correct, errCh within its capacity.
THEOREM TypeCorrect == Spec => []TypeOK
  BY InitTypeOK, NextTypeOK, PTL DEF Spec
-----------------------------------------------------------------------------
\* The drain invariant holds of a new pool.
LEMMA InitDrain == Init => DrainInv
  BY InitTypeOK DEF Init, DrainInv, RunningIffRun, ExitReason, DoneMeansExited,
                    CancelReason, DoneMeansDrained

\* Steps that leave the channel, the workers and the contexts alone.
LEMMA DrainStable ==
  ASSUME DrainInv, TypeOK',
         UNCHANGED <<workCh, closed, done, cancelled, parentGone, worker, running, shutdown>>
  PROVE  DrainInv'
  BY DEF DrainInv, RunningIffRun, ExitReason, DoneMeansExited, CancelReason, DoneMeansDrained

\* Submit puts nothing into a closed channel, so not into a drained pool.
LEMMA SubmitDrain ==
  ASSUME DrainInv, TypeOK', NEW t \in Tasks, SubmitSelect(t),
         UNCHANGED <<closed, done, cancelled, parentGone, worker, running, shutdown>>
  PROVE  DrainInv'
<1>1. closed => workCh' = workCh
  BY DEF SubmitSelect
<1> QED
  BY <1>1 DEF DrainInv, RunningIffRun, ExitReason, DoneMeansExited, CancelReason,
              DoneMeansDrained

\* The drain invariant is inductive.
LEMMA NextDrain == DrainInv /\ [Next]_vars => DrainInv'
<1> SUFFICES ASSUME DrainInv, [Next]_vars PROVE DrainInv'
  OBVIOUS
<1>t. TypeOK /\ TypeOK'
  BY NextTypeOK DEF DrainInv
<1>1. ASSUME NEW t \in Tasks, PoolSubmit(t) PROVE DrainInv'
  <2>1. CASE SubmitCheck(t) /\ UNCHANGED workCh
    BY <1>t, <1>1, <2>1, DrainStable DEF PoolSubmit, ctx
  <2>2. CASE SubmitSelect(t)
    BY <1>t, <1>1, <2>2, SubmitDrain DEF PoolSubmit, ctx
  <2> QED
    BY <1>1, <2>1, <2>2 DEF PoolSubmit
<1>2. ASSUME NEW w \in Workers, WorkerExit(w) PROVE DrainInv'
  BY <1>t, <1>2 DEF WorkerExit, chans, ctx, calls, TypeOK, DrainInv, RunningIffRun,
                    ExitReason, DoneMeansExited, CancelReason, DoneMeansDrained
<1>3. ASSUME NEW w \in Workers, WorkerReceive(w) PROVE DrainInv'
  <2> PICK t \in workCh : workCh' = workCh \ {t} /\ running' = [running EXCEPT ![w] = t]
    BY <1>3 DEF WorkerReceive
  <2>1. t \in Tasks /\ t # NoTask /\ ~done
    BY <1>t, <1>3, NoTaskAssumption DEF WorkerReceive, TypeOK, DrainInv, DoneMeansExited
  <2> QED
    BY <1>t, <1>3, <2>1 DEF WorkerReceive, ctx, TypeOK, DrainInv, RunningIffRun,
                            ExitReason, DoneMeansExited, CancelReason, DoneMeansDrained
<1>4. ASSUME NEW w \in Workers, WorkerFinish(w) PROVE DrainInv'
  BY <1>t, <1>4 DEF WorkerFinish, ctx, TypeOK, DrainInv, RunningIffRun,
                    ExitReason, DoneMeansExited, CancelReason, DoneMeansDrained
<1>5. CASE AllDone
  <2>1. PICK w \in Workers : worker[w] = "exited"
    BY <1>5, PoolAssumption DEF AllDone
  <2>2. ~parentGone /\ shutdown # "timeout" => closed /\ workCh = {}
    BY <1>5, <2>1 DEF AllDone, DrainInv, ExitReason, CancelReason
  <2> QED
    BY <1>t, <1>5, <2>2 DEF AllDone, ctx, TypeOK, DrainInv, RunningIffRun,
                            ExitReason, DoneMeansExited, CancelReason, DoneMeansDrained
<1>6. CASE ParentCancel
  BY <1>t, <1>6 DEF ParentCancel, chans, TypeOK, DrainInv, RunningIffRun, ExitReason,
                    DoneMeansExited, CancelReason, DoneMeansDrained
<1>7. CASE ShutdownClose
  BY <1>t, <1>7 DEF ShutdownClose, ctx, TypeOK, DrainInv, RunningIffRun, ExitReason,
                    DoneMeansExited, CancelReason, DoneMeansDrained
<1>8. CASE ShutdownDone
  BY <1>t, <1>8 DEF ShutdownDone, chans, TypeOK, DrainInv, RunningIffRun, ExitReason,
                    DoneMeansExited, CancelReason, DoneMeansDrained
<1>9. CASE ShutdownTimeout
  BY <1>t, <1>9 DEF ShutdownTimeout, chans, TypeOK, DrainInv, RunningIffRun, ExitReason,
                    DoneMeansExited, CancelReason, DoneMeansDrained
<1>10. CASE BatchItem
  BY <1>t, <1>10, DrainStable DEF BatchItem, chans, ctx
<1>11. CASE BatchSend
  BY <1>t, <1>11, SubmitDrain DEF BatchSend, ctx
<1>12. CASE BatchSubmitFailed
  BY <1>t, <1>12, DrainStable DEF BatchSubmitFailed, chans, ctx
<1>13. CASE BatchClose
  BY <1>t, <1>13 DEF BatchClose, ctx, TypeOK, DrainInv, RunningIffRun, ExitReason,
                     DoneMeansExited, CancelReason, DoneMeansDrained
<1>14. CASE BatchCollect
  BY <1>t, <1>14 DEF BatchCollect, TypeOK, DrainInv, RunningIffRun, ExitReason,
                     DoneMeansExited, CancelReason, DoneMeansDrained
<1>15. CASE Terminated \/ UNCHANGED vars
  BY <1>t, <1>15, DrainStable DEF Terminated, vars, chans, ctx
<1> QED
  BY <1>1, <1>2, <1>3, <1>4, <1>5, <1>6, <1>7, <1>8, <1>9, <1>10, <1>11, <1>12, <1>13,
     <1>14, <1>15 DEF Next, WorkerStep, BatchStep

\* Shutdown that returns nil has drained the pool: with the parent context
\* alive, no task is left in workCh and no worker is running one.
THEOREM ShutdownDrained == Spec => []ShutdownDrains
<1>1. DrainInv => ShutdownDrains
  BY DEF DrainInv, ShutdownDrains, DoneMeansDrained, DoneMeansExited, RunningIffRun
<1> QED
  BY <1>1, InitDrain, NextDrain, PTL DEF Spec
-----------------------------------------------------------------------------
\* The channel of a Batch is open until its submission loop has ended.
LEMMA NextBatchCloseOrder == TypeOK /\ BatchCloseOrder /\ [Next]_vars => BatchCloseOrder'
<1> SUFFICES ASSUME TypeOK, BatchCloseOrder, [Next]_vars PROVE BatchCloseOrder'
  OBVIOUS
<1> USE DEF TypeOK, BatchCloseOrder
<1>1. ASSUME NEW t \in Tasks, PoolSubmit(t) PROVE BatchCloseOrder'
  BY <1>1 DEF PoolSubmit
<1>2. ASSUME NEW w \in Workers, WorkerStep(w) PROVE BatchCloseOrder'
  BY <1>2 DEF WorkerStep, WorkerExit, WorkerReceive, WorkerFinish, chans
<1>3. CASE AllDone \/ ParentCancel
  BY <1>3 DEF AllDone, ParentCancel, chans
<1>4. CASE ShutdownClose \/ ShutdownDone \/ ShutdownTimeout
  BY <1>4 DEF ShutdownClose, ShutdownDone, ShutdownTimeout, chans
<1>5. CASE BatchStep
  BY <1>5 DEF BatchStep, BatchItem, BatchSend, BatchSubmitFailed, BatchClose, BatchCollect, chans
<1>6. CASE Terminated \/ UNCHANGED vars
  BY <1>6 DEF Terminated, vars, chans
<1> QED
  BY <1>1, <1>2, <1>3, <1>4, <1>5, <1>6 DEF Next

\* A step that loses no task from sight and accepts none keeps AcceptedNotLost.
LEMMA AcceptStable ==
  ASSUME AcceptedNotLost, mode' = mode, closed => closed',
         \A t \in Tasks : Located(t) => Located(t)',
         \A t \in Tasks : result'[t] = "nil" => result[t] = "nil"
  PROVE  AcceptedNotLost'
  BY DEF AcceptedNotLost

\* Submit's select accepts a task into an open channel, or says nil because
\* the channel was closed, which does not happen inside Batch.
LEMMA SubmitAccept ==
  ASSUME TypeOK, AcceptedNotLost, NEW t \in Tasks, SubmitSelect(t),
         UNCHANGED <<mode, closed, running, outcome>>,
         closed => mode = "pool"
  PROVE  AcceptedNotLost'
<1>1. \A u \in Tasks : Located(u) => Located(u)'
  BY DEF SubmitSelect, Located
<1>2. \A u \in Tasks \ {t} : result'[u] = result[u]
  BY DEF SubmitSelect, Return, TypeOK
<1>3. t \in workCh' \/ (closed /\ mode = "pool") \/ result'[t] = "error"
  BY DEF SubmitSelect, Return, TypeOK
<1>4. t \in workCh' => Located(t)'
  BY DEF Located
<1> QED
  BY <1>1, <1>2, <1>3, <1>4 DEF AcceptedNotLost

\* The invariant behind AcceptedNotLost is inductive.
LEMMA NextAccept == AcceptInv /\ [Next]_vars => AcceptInv'
<1> SUFFICES ASSUME AcceptInv, [Next]_vars PROVE AcceptInv'
  OBVIOUS
<1>d. DrainInv /\ TypeOK /\ BatchCloseOrder /\ AcceptedNotLost
  BY DEF AcceptInv, DrainInv
<1>e. DrainInv' /\ TypeOK' /\ BatchCloseOrder'
  BY <1>d, NextDrain, NextTypeOK, NextBatchCloseOrder
<1> SUFFICES AcceptedNotLost'
  BY <1>e DEF AcceptInv
<1>1. ASSUME NEW t \in Tasks, PoolSubmit(t) PROVE AcceptedNotLost'
  <2>1. CASE SubmitCheck(t) /\ UNCHANGED workCh
    BY <1>1, <1>d, <2>1, AcceptStable DEF PoolSubmit, SubmitCheck, Return, TypeOK, Located
  <2>2. CASE SubmitSelect(t)
    BY <1>1, <1>d, <2>2, SubmitAccept DEF PoolSubmit
  <2> QED
    BY <1>1, <2>1, <2>2 DEF PoolSubmit
<1>2. ASSUME NEW w \in Workers, WorkerExit(w) PROVE AcceptedNotLost'
  BY <1>2, <1>d, AcceptStable DEF WorkerExit, chans, calls, Located
<1>3. ASSUME NEW w \in Workers, WorkerReceive(w) PROVE AcceptedNotLost'
  <2>1. running[w] = NoTask
    BY <1>3, <1>d DEF WorkerReceive, DrainInv, RunningIffRun
  <2>2. \A t \in Tasks : Located(t) => Located(t)'
    BY <1>3, <1>d, <2>1, NoTaskAssumption DEF WorkerReceive, Located, TypeOK
  <2> QED
    BY <1>3, <1>d, <2>2, AcceptStable DEF WorkerReceive, calls
<1>4. ASSUME NEW w \in Workers, WorkerFinish(w) PROVE AcceptedNotLost'
  <2>1. \A t \in Tasks : Located(t) => Located(t)'
    BY <1>4, <1>d DEF WorkerFinish, Located, TypeOK
  <2> QED
    BY <1>4, <1>d, <2>1, AcceptStable DEF WorkerFinish, calls
<1>5. CASE AllDone \/ ParentCancel
  BY <1>5, <1>d, AcceptStable DEF AllDone, ParentCancel, chans, calls, Located
<1>6. CASE ShutdownClose
  BY <1>6, <1>d, AcceptStable DEF ShutdownClose, calls, Located
<1>7. CASE ShutdownDone \/ ShutdownTimeout
  BY <1>7, <1>d, AcceptStable DEF ShutdownDone, ShutdownTimeout, chans, calls, Located
<1>8. CASE BatchItem
  <2>1. \A t \in Tasks : result'[t] = "nil" => result[t] = "nil"
    BY <1>8, <1>d DEF BatchItem, SubmitCheck, Return, calls, TypeOK
  <2> QED
    BY <1>8, <1>d, <2>1, AcceptStable DEF BatchItem, chans, Located
<1>9. CASE BatchSend
  BY <1>9, <1>d, SubmitAccept DEF BatchSend, BatchCloseOrder
<1>10. CASE BatchSubmitFailed
  BY <1>10, <1>d, AcceptStable DEF BatchSubmitFailed, chans, calls, Located
<1>11. CASE BatchClose
  BY <1>11, <1>d, AcceptStable DEF BatchClose, calls, Located
<1>12. CASE BatchCollect
  BY <1>12, <1>d, AcceptStable DEF BatchCollect, calls, Located
<1>13. CASE Terminated \/ UNCHANGED vars
  BY <1>13, <1>d, AcceptStable DEF Terminated, vars, chans, calls, Located
<1> QED
  BY <1>1, <1>2, <1>3, <1>4, <1>5, <1>6, <1>7, <1>8, <1>9, <1>10, <1>11, <1>12, <1>13
  DEF Next, WorkerStep, BatchStep

\* A task for which Submit returned nil is queued, running or executed, unless
\* the channel was closed under a direct Submit; Batch never loses one.
THEOREM AcceptedTasksKept == Spec => []AcceptedNotLost
<1>1. Init => AcceptInv
  BY InitDrain DEF Init, AcceptInv, BatchCloseOrder, AcceptedNotLost
<1>2. AcceptInv => AcceptedNotLost
  BY DEF AcceptInv
<1> QED
  BY <1>1, <1>2, NextAccept, PTL DEF Spec
-----------------------------------------------------------------------------
(* Batch.                                                                  *)

\* A task is in one place: not submitted, queued, run by one worker, or over.
OnePlace ==
    /\ \A t \in workCh : outcome[t] = "none" /\ \A w \in Workers : running[w] # t
    /\ \A w \in Workers : running[w] # NoTask => outcome[running[w]] = "none"
    /\ \A v, w \in Workers : running[v] = running[w] /\ running[v] # NoTask => v = w
    /\ \A t \in Tasks : submit[t] # "returned" => ~Located(t)

\* errCh holds an error for each failed task, until it is full.
Errors == IF Cardinality(Failed) < ErrCap THEN Cardinality(Failed) ELSE ErrCap
ErrorsCounted == batch # "returned" => errs = Errors

\* While its context lives Batch submits every item, then closes the channel,
\* then waits for the workers; its own Shutdown comes last.
BatchFlow ==
    /\ \A t \in Tasks : submit[t] = "returned" => result[t] # "none"
    /\ mode = "batch" =>
         /\ batch # "returned" => shutdown = "none"
         /\ batch = "wait" => closed
         /\ batch \in {"close", "wait"} => \A t \in Tasks : result[t] = "nil"
         /\ ~parentGone => \A t \in Tasks : result[t] # "error"
         /\ batch = "returned" /\ ~parentGone => done

BatchInv == AcceptInv /\ OnePlace /\ ErrorsCounted /\ BatchFlow /\ BatchComplete

LEMMA FailedCounted == IsFiniteSet(Failed) /\ Cardinality(Failed) \in Nat
BY PoolAssumption, FS_Subset, FS_CardinalityType DEF Failed

LEMMA PlaceStable ==
  ASSUME OnePlace, UNCHANGED <<workCh, running, outcome>>,
         \A t \in Tasks : submit[t] = "returned" => submit'[t] = "returned"
  PROVE  OnePlace'
BY DEF OnePlace, Located

LEMMA PlaceSubmit ==
  ASSUME TypeOK, OnePlace, NEW t \in Tasks, SubmitSelect(t), UNCHANGED <<running, outcome>>
  PROVE  OnePlace'
<1>1. ~Located(t)
  BY DEF SubmitSelect, OnePlace
<1>2. workCh' \subseteq workCh \cup {t}
  BY DEF SubmitSelect
<1>3. \A u \in Tasks : submit'[u] = IF u = t THEN "returned" ELSE submit[u]
  BY DEF SubmitSelect, Return, TypeOK
<1>4. \A u \in workCh' : outcome'[u] = "none" /\ \A w \in Workers : running'[w] # u
  BY <1>1, <1>2 DEF OnePlace, Located
<1>5. \A u \in Tasks : submit'[u] # "returned" => ~Located(u)'
  BY <1>2, <1>3 DEF OnePlace, Located
<1> QED
  BY <1>4, <1>5 DEF OnePlace

LEMMA NextPlace == DrainInv /\ OnePlace /\ [Next]_vars => OnePlace'
<1> SUFFICES ASSUME DrainInv, OnePlace, [Next]_vars PROVE OnePlace'
  OBVIOUS
<1>t. TypeOK /\ RunningIffRun
  BY DEF DrainInv
<1>1. ASSUME NEW t \in Tasks, PoolSubmit(t) PROVE OnePlace'
  <2>1. CASE SubmitCheck(t) /\ UNCHANGED workCh
    BY <1>1, <1>t, <2>1, PlaceStable DEF PoolSubmit, SubmitCheck, Return, TypeOK
  <2>2. CASE SubmitSelect(t)
    BY <1>1, <1>t, <2>2, PlaceSubmit DEF PoolSubmit
  <2> QED
    BY <1>1, <2>1, <2>2 DEF PoolSubmit
<1>2. ASSUME NEW w \in Workers, WorkerReceive(w) PROVE OnePlace'
  <2>1. PICK t \in workCh : workCh' = workCh \ {t} /\ running' = [running EXCEPT ![w] = t]
    BY <1>2 DEF WorkerReceive
  <2>2. /\ UNCHANGED <<outcome, submit>> /\ t \in Tasks /\ t # NoTask /\ outcome[t] = "none"
        /\ \A v \in Workers : running[v] # t
    BY <1>2, <1>t, NoTaskAssumption DEF WorkerReceive, calls, TypeOK, OnePlace
  <2>3. running'[w] = t /\ \A v \in Workers \ {w} : running'[v] = running[v]
    BY <2>1, <1>t DEF TypeOK
  <2>4. \A u \in workCh' : outcome'[u] = "none" /\ \A v \in Workers : running'[v] # u
    BY <2>1, <2>2, <2>3 DEF OnePlace
  <2>5. \A v \in Workers : running'[v] # NoTask => outcome'[running'[v]] = "none"
    BY <2>2, <2>3 DEF OnePlace
  <2>6. \A u, v \in Workers : running'[u] = running'[v] /\ running'[u] # NoTask => u = v
    BY <2>2, <2>3 DEF OnePlace
  <2>7. \A u \in Tasks : submit'[u] # "returned" => ~Located(u)'
    BY <2>1, <2>2, <2>3 DEF OnePlace, Located
  <2> QED
    BY <2>4, <2>5, <2>6, <2>7 DEF OnePlace
<1>3. ASSUME NEW w \in Workers, WorkerFinish(w) PROVE OnePlace'
  <2>1. PICK t : t = running[w]
    OBVIOUS
  <2>2. /\ t \in Tasks /\ t # NoTask /\ UNCHANGED <<workCh, submit>>
        /\ running' = [running EXCEPT ![w] = NoTask]
    BY <1>3, <1>t, <2>1 DEF WorkerFinish, RunningIffRun, TypeOK, calls
  <2>3. \A u \in Tasks : u # t => outcome'[u] = outcome[u]
    BY <1>3, <1>t, <2>1 DEF WorkerFinish, TypeOK
  <2>4. running'[w] = NoTask /\ \A v \in Workers \ {w} : running'[v] = running[v] /\ running[v] # t
    BY <2>1, <2>2, <1>t DEF TypeOK, OnePlace
  <2>5. t \notin workCh /\ workCh \subseteq Tasks /\ submit[t] = "returned"
    BY <2>1, <2>2, <1>t DEF TypeOK, OnePlace, Located
  <2>6. \A u \in workCh' : outcome'[u] = "none" /\ \A v \in Workers : running'[v] # u
    BY <2>2, <2>3, <2>4, <2>5, NoTaskAssumption DEF OnePlace
  <2>7. \A v \in Workers : running'[v] # NoTask => outcome'[running'[v]] = "none"
    BY <2>3, <2>4, <1>t DEF OnePlace, TypeOK
  <2>8. \A u, v \in Workers : running'[u] = running'[v] /\ running'[u] # NoTask => u = v
    BY <2>4 DEF OnePlace
  <2>9. \A u \in Tasks : submit'[u] # "returned" => ~Located(u)'
    BY <2>2, <2>3, <2>4, <2>5, NoTaskAssumption DEF OnePlace, Located
  <2> QED
    BY <2>6, <2>7, <2>8, <2>9 DEF OnePlace
<1>4. CASE BatchItem
  BY <1>4, <1>t, PlaceStable DEF BatchItem, SubmitCheck, Return, calls, chans, TypeOK
<1>5. CASE BatchSend
  BY <1>5, <1>t, PlaceSubmit DEF BatchSend
<1>6. ASSUME UNCHANGED <<workCh, running, outcome, submit>> PROVE OnePlace'
  BY <1>6, PlaceStable
<1>7. ASSUME NEW w \in Workers, WorkerExit(w) PROVE OnePlace'
  BY <1>6, <1>7 DEF WorkerExit, chans, calls
<1>8. CASE \/ AllDone \/ ParentCancel \/ ShutdownClose \/ ShutdownDone \/ ShutdownTimeout
           \/ BatchSubmitFailed \/ BatchClose \/ BatchCollect \/ Terminated \/ UNCHANGED vars
  BY <1>6, <1>8 DEF AllDone, ParentCancel, ShutdownClose, ShutdownDone, ShutdownTimeout,
     BatchSubmitFailed, BatchClose, BatchCollect, Terminated, vars, chans, calls
<1> QED
  BY <1>1, <1>2, <1>3, <1>4, <1>5, <1>7, <1>8 DEF Next, WorkerStep, BatchStep

\* A failure is counted once, since its task was not over before.
LEMMA NextErrors == DrainInv /\ OnePlace /\ ErrorsCounted /\ [Next]_vars => ErrorsCounted'
<1> SUFFICES ASSUME DrainInv, OnePlace, ErrorsCounted, [Next]_vars PROVE ErrorsCounted'
  OBVIOUS
<1>t. TypeOK /\ RunningIffRun /\ ErrCap \in Nat
  BY PoolAssumption DEF DrainInv
<1>1. ASSUME UNCHANGED <<errs, outcome>>, batch' # "returned" => batch # "returned" PROVE ErrorsCounted'
  BY <1>1 DEF ErrorsCounted, Errors, Failed
<1>2. ASSUME NEW w \in Workers, WorkerFinish(w) PROVE ErrorsCounted'
  <2>1. PICK t : t = running[w]
    OBVIOUS
  <2>2. t \in Tasks /\ outcome[t] = "none" /\ UNCHANGED batch
    BY <1>2, <1>t, <2>1 DEF WorkerFinish, RunningIffRun, TypeOK, OnePlace
  <2>3. CASE outcome' = [outcome EXCEPT ![t] = "ok"] /\ UNCHANGED errs
    <3>1. Failed' = Failed
      BY <1>t, <2>2, <2>3 DEF Failed, TypeOK
    <3> QED
      BY <2>2, <2>3, <3>1 DEF ErrorsCounted, Errors
  <2>4. CASE /\ outcome' = [outcome EXCEPT ![t] = "error"]
             /\ errs' = IF errs < ErrCap THEN errs + 1 ELSE errs
    <3>1. Failed' = Failed \cup {t} /\ t \notin Failed
      BY <1>t, <2>2, <2>4 DEF Failed, TypeOK
    <3>2. Cardinality(Failed') = Cardinality(Failed) + 1
      BY <3>1, FailedCounted, FS_AddElement
    <3> QED
      BY <1>t, <2>2, <2>4, <3>2, FailedCounted DEF ErrorsCounted, Errors
  <2> QED
    BY <1>2, <2>1, <2>3, <2>4 DEF WorkerFinish
<1>3. CASE BatchCollect
  BY <1>3 DEF BatchCollect, ErrorsCounted
<1>4. ASSUME NEW t \in Tasks, PoolSubmit(t) PROVE ErrorsCounted'
  BY <1>1, <1>4 DEF PoolSubmit
<1>5. ASSUME NEW w \in Workers, WorkerExit(w) \/ WorkerReceive(w) PROVE ErrorsCounted'
  BY <1>1, <1>5 DEF WorkerExit, WorkerReceive, chans
<1>6. CASE \/ AllDone \/ ParentCancel \/ ShutdownClose \/ ShutdownDone \/ ShutdownTimeout
           \/ Terminated \/ UNCHANGED vars
  BY <1>1, <1>6 DEF AllDone, ParentCancel, ShutdownClose, ShutdownDone, ShutdownTimeout,
     Terminated, vars, chans
<1>7. CASE BatchItem \/ BatchSend \/ BatchSubmitFailed \/ BatchClose
  BY <1>1, <1>7 DEF BatchItem, BatchSend, BatchSubmitFailed, BatchClose, chans
<1> QED
  BY <1>2, <1>3, <1>4, <1>5, <1>6, <1>7 DEF Next, WorkerStep, BatchStep

\* While the submission loop runs, doneCh is closed only with the context gone.
LEMMA DoneInLoop ==
  ASSUME DrainInv, BatchCloseOrder, BatchFlow, mode = "batch", batch = "items", done
  PROVE  parentGone
BY DEF DrainInv, DoneMeansDrained, BatchCloseOrder, BatchFlow

LEMMA FlowStable ==
  ASSUME BatchFlow, UNCHANGED <<mode, submit, result, batch>>, done => done', closed => closed',
         parentGone => parentGone', UNCHANGED shutdown \/ mode = "pool" \/ batch = "returned"
  PROVE  BatchFlow'
BY DEF BatchFlow

\* A result of Submit in the loop of Batch.
LEMMA FlowSubmit ==
  ASSUME TypeOK, BatchFlow, NEW t \in Tasks, SubmitCheck(t) \/ SubmitSelect(t),
         UNCHANGED <<mode, batch, done, closed, parentGone, shutdown>>,
         mode = "pool" \/ (batch = "items" /\ (done => parentGone))
  PROVE  BatchFlow'
<1>1. \A u \in Tasks \ {t} : submit'[u] = submit[u] /\ result'[u] = result[u]
  BY DEF SubmitCheck, SubmitSelect, Return, TypeOK
<1>2. /\ submit'[t] = "returned" => result'[t] # "none"
      /\ result'[t] = "error" => done \/ result[t] = "error"
  BY DEF SubmitCheck, SubmitSelect, Return, TypeOK
<1>3. \A u \in Tasks : submit'[u] = "returned" => result'[u] # "none"
  BY <1>1, <1>2 DEF BatchFlow
<1>4. mode = "batch" /\ ~parentGone => \A u \in Tasks : result'[u] # "error"
  BY <1>1, <1>2 DEF BatchFlow
<1> QED
  BY <1>3, <1>4 DEF BatchFlow

LEMMA NextFlow == AcceptInv /\ BatchFlow /\ [Next]_vars => BatchFlow'
<1> SUFFICES ASSUME AcceptInv, BatchFlow, [Next]_vars PROVE BatchFlow'
  OBVIOUS
<1>t. TypeOK /\ DrainInv /\ BatchCloseOrder
  BY DEF AcceptInv, DrainInv
<1>1. ASSUME NEW t \in Tasks, PoolSubmit(t) PROVE BatchFlow'
  BY <1>1, <1>t, FlowSubmit DEF PoolSubmit, ctx
<1>2. ASSUME NEW w \in Workers, WorkerStep(w) PROVE BatchFlow'
  BY <1>2, FlowStable DEF WorkerStep, WorkerExit, WorkerReceive, WorkerFinish, chans, ctx, calls
<1>3. CASE AllDone \/ ParentCancel
  BY <1>3, FlowStable DEF AllDone, ParentCancel, chans, ctx, calls
<1>4. CASE ShutdownClose
  BY <1>4, <1>t, FlowStable DEF ShutdownClose, ctx, calls, TypeOK
<1>5. CASE ShutdownDone \/ ShutdownTimeout
  BY <1>5, <1>t, FlowStable DEF ShutdownDone, ShutdownTimeout, chans, calls, TypeOK, BatchFlow
<1>6. CASE BatchItem
  <2>1. /\ mode = "batch" /\ batch = "items" /\ UNCHANGED <<mode, closed, done, parentGone, shutdown>>
        /\ \A t \in Tasks : result[t] # "error"
    BY <1>6 DEF BatchItem, chans, ctx
  <2>2. CASE Submitted = Tasks
    <3>1. batch' = "close" /\ UNCHANGED <<submit, result>>
      BY <1>6, <2>2 DEF BatchItem, calls
    <3>2. \A t \in Tasks : submit[t] = "returned"
      BY <2>2 DEF Submitted
    <3>3. \A t \in Tasks : result[t] = "nil"
      BY <1>t, <2>1, <3>2 DEF BatchFlow, TypeOK
    <3> QED
      BY <2>1, <3>1, <3>3 DEF BatchFlow
  <2>3. CASE Submitted # Tasks /\ parentGone
    <3>1. batch' = "returned" /\ UNCHANGED <<submit, result>>
      BY <1>6, <2>3 DEF BatchItem, calls
    <3> QED
      BY <2>1, <2>3, <3>1 DEF BatchFlow
  <2>4. CASE Submitted # Tasks /\ ~parentGone
    <3>1. UNCHANGED batch /\ \E t \in Tasks : SubmitCheck(t)
      BY <1>6, <2>4 DEF BatchItem
    <3>2. done => parentGone
      BY <1>t, <2>1, DoneInLoop
    <3> QED
      BY <1>t, <2>1, <3>1, <3>2, FlowSubmit
  <2> QED
    BY <2>2, <2>3, <2>4
<1>7. CASE BatchSend
  <2>1. done => parentGone
    BY <1>7, <1>t, DoneInLoop DEF BatchSend
  <2> QED
    BY <1>7, <1>t, <2>1, FlowSubmit DEF BatchSend, ctx
<1>8. CASE BatchSubmitFailed
  <2>1. parentGone
    BY <1>8, <1>t DEF BatchSubmitFailed, BatchFlow, TypeOK
  <2> QED
    BY <1>8, <2>1 DEF BatchSubmitFailed, BatchFlow, chans, ctx, calls
<1>9. CASE BatchClose
  BY <1>9 DEF BatchClose, BatchFlow, ctx, calls
<1>10. CASE BatchCollect
  BY <1>10 DEF BatchCollect, BatchFlow, calls
<1>11. CASE Terminated \/ UNCHANGED vars
  BY <1>11, FlowStable DEF Terminated, vars, chans, ctx, calls
<1> QED
  BY <1>1, <1>2, <1>3, <1>4, <1>5, <1>6, <1>7, <1>8, <1>9, <1>10, <1>11 DEF Next, BatchStep

\* Batch collects from a pool that is drained, and nothing runs afterwards.
LEMMA NextComplete == BatchInv /\ [Next]_vars => BatchComplete'
<1> SUFFICES ASSUME BatchInv, [Next]_vars PROVE BatchComplete'
  OBVIOUS
<1>t. /\ TypeOK /\ DrainInv /\ BatchCloseOrder /\ AcceptedNotLost /\ BatchFlow /\ ErrorsCounted
      /\ BatchComplete
  BY DEF BatchInv, AcceptInv, DrainInv
<1>1. ASSUME UNCHANGED <<mode, outcome, reported>>, batch' = "returned" => batch = "returned",
             parentGone => parentGone'
      PROVE  BatchComplete'
  BY <1>1, <1>t DEF BatchComplete, Failed
<1>2. ASSUME NEW w \in Workers, WorkerFinish(w) PROVE BatchComplete'
  <2>1. ~done /\ UNCHANGED <<mode, batch, parentGone>>
    BY <1>2, <1>t DEF WorkerFinish, DrainInv, DoneMeansExited, ctx
  <2> QED
    BY <1>t, <2>1 DEF BatchFlow, BatchComplete
<1>3. CASE BatchCollect
  <2>1. /\ batch = "wait" /\ done /\ reported' = errs /\ UNCHANGED <<mode, outcome, parentGone>>
    BY <1>3 DEF BatchCollect
  <2>2. ASSUME mode = "batch", ~parentGone PROVE \A t \in Tasks : outcome[t] # "none"
    <3>1. shutdown = "none" /\ \A t \in Tasks : result[t] = "nil"
      BY <1>t, <2>1, <2>2 DEF BatchFlow
    <3>2. workCh = {}
      BY <1>t, <2>1, <2>2, <3>1 DEF DrainInv, DoneMeansDrained
    <3>3. \A w \in Workers : running[w] = NoTask
      BY <1>t, <2>1 DEF DrainInv, DoneMeansExited, RunningIffRun
    <3>4. \A t \in Tasks : Located(t)
      BY <1>t, <2>2, <3>1 DEF AcceptedNotLost
    <3> QED
      BY <3>2, <3>3, <3>4, NoTaskAssumption DEF Located
  <2>3. reported' = Errors
    BY <1>t, <2>1 DEF ErrorsCounted
  <2> QED
    BY <2>1, <2>2, <2>3 DEF BatchComplete, Errors, Failed
<1>4. CASE BatchItem
  <2>1. UNCHANGED <<mode, outcome, parentGone>> /\ (batch' = "returned" => parentGone)
    BY <1>4 DEF BatchItem, ctx
  <2> QED
    BY <2>1 DEF BatchComplete
<1>5. CASE BatchSubmitFailed
  <2>1. parentGone /\ UNCHANGED parentGone
    BY <1>5, <1>t DEF BatchSubmitFailed, BatchFlow, TypeOK, ctx
  <2> QED
    BY <2>1 DEF BatchComplete
<1>6. ASSUME NEW t \in Tasks, PoolSubmit(t) PROVE BatchComplete'
  BY <1>1, <1>6 DEF PoolSubmit, ctx
<1>7. ASSUME NEW w \in Workers, WorkerExit(w) \/ WorkerReceive(w) PROVE BatchComplete'
  BY <1>1, <1>7 DEF WorkerExit, WorkerReceive, ctx
<1>8. CASE \/ AllDone \/ ParentCancel \/ ShutdownClose \/ ShutdownDone \/ ShutdownTimeout
           \/ Terminated \/ UNCHANGED vars
  BY <1>1, <1>8 DEF AllDone, ParentCancel, ShutdownClose, ShutdownDone, ShutdownTimeout,
     Terminated, vars, ctx
<1>9. CASE BatchSend \/ BatchClose
  BY <1>1, <1>9 DEF BatchSend, BatchClose, ctx
<1> QED
  BY <1>2, <1>3, <1>4, <1>5, <1>6, <1>7, <1>8, <1>9 DEF Next, WorkerStep, BatchStep

\* A Batch that returns while its context lives has run every item, and its
\* errors are those of the items that failed, up to the capacity of errCh.
\* pkg/async/goroutine.go:241
THEOREM BatchIsComplete == Spec => []BatchComplete
<1>1. Init => BatchInv
  <2> SUFFICES ASSUME Init PROVE BatchInv
    OBVIOUS
  <2>1. AcceptInv
    BY InitDrain DEF Init, AcceptInv, BatchCloseOrder, AcceptedNotLost
  <2>2. OnePlace /\ BatchFlow /\ BatchComplete
    BY NoTaskAssumption DEF Init, OnePlace, BatchFlow, BatchComplete, Located
  <2>3. Failed = {} /\ errs = 0 /\ ErrCap \in Nat
    BY PoolAssumption DEF Init, Failed
  <2>4. ErrorsCounted
    BY <2>3, FS_EmptySet DEF ErrorsCounted, Errors
  <2> QED
    BY <2>1, <2>2, <2>4 DEF BatchInv
<1>2. BatchInv /\ [Next]_vars => BatchInv'
  BY NextAccept, NextPlace, NextErrors, NextFlow, NextComplete DEF BatchInv, AcceptInv
<1>3. BatchInv => BatchComplete
  BY DEF BatchInv
<1> QED
  BY <1>1, <1>2, <1>3, PTL DEF Spec
=============================================================================
