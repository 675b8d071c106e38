------------------------------ MODULE Webhooks ------------------------------
(***************************************************************************)
(* pkg/webhooks: the WebhookManager, its DeliveryLogStore, token buckets   *)
(* and RetryWorker.  Management requests and test dispatches run on HTTP   *)
(* goroutines, every first attempt on a goroutine of its own, retries on   *)
(* the goroutine of the worker.  The map of webhooks has no lock; the log  *)
(* store has one, but the logs in it are shared pointers.                  *)
(***************************************************************************)
EXTENDS Naturals, FiniteSets

CONSTANTS
    Hooks,       \* webhook ids; an id is registered at most once
    Types,       \* event types
    Requests,    \* requests that dispatch one event each
    EventType,   \* [Requests -> type of the event]
    MaxLogs,     \* DeliveryLogStore.maxLogs
    MaxAttempts, \* RetryConfig.MaxAttempts
    MaxTokens,   \* RateLimiter.maxTokens
    MaxAdmin,    \* bound: management requests
    MaxTicks     \* bound: refills of a token bucket

ASSUME WebhooksAssumption ==
    /\ IsFiniteSet(Hooks) /\ IsFiniteSet(Requests)
    /\ EventType \in [Requests -> Types]
    /\ MaxLogs \in Nat \ {0} /\ MaxAttempts \in Nat \ {0} /\ MaxTokens \in Nat \ {0}
    /\ MaxAdmin \in Nat /\ MaxTicks \in Nat

\* At most one delivery per dispatched event and webhook.
Deliveries == Requests \X Hooks
NoDelivery == <<>>

Completed == {"success", "failed"}

VARIABLES
    hook,     \* [Hooks -> "unknown", "active", "inactive" or "deleted"]
    subs,     \* [Hooks -> event types the webhook subscribed to]
    admin,    \* management requests so far
    request,  \* [Requests -> "new", "dispatch" or "returned": its context is done]
    left,     \* [Requests -> webhooks its range loop has still to visit]
    born,     \* [Deliveries -> rank of CreatedAt, 0 before the log is made]
    status,   \* [Deliveries -> DeliveryLog.Status]
    attempts, \* [Deliveries -> DeliveryLog.Attempts]
    due,      \* [Deliveries -> NextRetryAt: "nil", "later" or "past"]
    first,    \* [Deliveries -> step of the goroutine of the first attempt]
    store,    \* deliveries whose log is in the DeliveryLogStore
    tokens,   \* [Hooks -> tokens in the bucket of the webhook]
    ticks,    \* refills so far
    worker,   \* "select", "loop", "sending" or "exited"
    batch,    \* logs GetPendingRetries returned that are still to be handled
    cur,      \* the delivery the worker is sending
    stop,     \* stopCh is closed
    up,       \* FALSE once the runtime has aborted the process
    sent,     \* history: [Deliveries -> requests that reached the receiver]
    acks,     \* history: [Deliveries -> 2xx answers the manager read]
    intact,   \* history: deliveries acknowledged with the event's own data
    off       \* history: deliveries whose webhook was switched off since

registry == <<hook, subs, admin, off>>
dispatch == <<request, left>>
logs == <<born, status, attempts, due, first, store>>
limiter == <<tokens, ticks>>
retry == <<worker, batch, cur, stop>>
receiver == <<sent, acks, intact>>
vars == <<registry, dispatch, logs, limiter, retry, up, receiver>>

Init ==
    /\ hook = [h \in Hooks |-> "unknown"]
    /\ subs = [h \in Hooks |-> {}]
    /\ admin = 0 /\ off = {}
    /\ request = [r \in Requests |-> "new"]
    /\ left = [r \in Requests |-> {}]
    /\ born = [d \in Deliveries |-> 0]
    /\ status = [d \in Deliveries |-> "pending"]
    /\ attempts = [d \in Deliveries |-> 0]
    /\ due = [d \in Deliveries |-> "nil"]
    /\ first = [d \in Deliveries |-> "none"]
    /\ store = {}
    /\ tokens = [h \in Hooks |-> MaxTokens] /\ ticks = 0
    /\ worker = "select" /\ batch = {} /\ cur = NoDelivery /\ stop = FALSE
    /\ up = TRUE
    /\ sent = [d \in Deliveries |-> 0]
    /\ acks = [d \in Deliveries |-> 0]
    /\ intact = {}
-----------------------------------------------------------------------------
(* Management requests.  An insert into or a delete from the map while a   *)
(* Dispatch ranges over it may abort the process; when it does not, a key  *)
(* inserted is visited or not, a key deleted is not.                       *)
Registered(h) == hook[h] \in {"active", "inactive"}
Iterating == {r \in Requests : request[r] = "dispatch"}

MapWrite == up' = TRUE \/ (Iterating # {} /\ up' = FALSE)

Admin == up /\ admin < MaxAdmin /\ admin' = admin + 1

SwitchedOff(h) == off' = off \cup {d \in Deliveries : d[2] = h /\ born[d] # 0}

RegisterWebhook(h) ==
    /\ Admin
    /\ hook[h] = "unknown"
    /\ \E ts \in SUBSET Types \ {{}} : subs' = [subs EXCEPT ![h] = ts]
    /\ hook' = [hook EXCEPT ![h] = "active"]
    /\ \E seen \in SUBSET Iterating :
         left' = [r \in Requests |-> IF r \in seen THEN left[r] \cup {h} ELSE left[r]]
    /\ MapWrite
    /\ UNCHANGED <<off, request, logs, limiter, retry, receiver>>

UnregisterWebhook(h) ==
    /\ Admin
    /\ Registered(h)
    /\ hook' = [hook EXCEPT ![h] = "deleted"] /\ SwitchedOff(h)
    /\ left' = [r \in Requests |-> left[r] \ {h}]
    /\ MapWrite
    /\ UNCHANGED <<subs, request, logs, limiter, retry, receiver>>

\* The fields of the shared *Webhook change in place: no map write.
UpdateWebhook(h) ==
    /\ Admin
    /\ Registered(h)
    /\ \E ts \in SUBSET Types \ {{}} : subs' = [subs EXCEPT ![h] = ts]
    /\ UNCHANGED <<hook, off, dispatch, logs, limiter, retry, up, receiver>>

DeactivateWebhook(h) ==
    /\ Admin
    /\ Registered(h)
    /\ hook' = [hook EXCEPT ![h] = "inactive"] /\ SwitchedOff(h)
    /\ UNCHANGED <<subs, dispatch, logs, limiter, retry, up, receiver>>

ActivateWebhook(h) ==
    /\ Admin
    /\ Registered(h)
    /\ hook' = [hook EXCEPT ![h] = "active"]
    /\ UNCHANGED <<subs, off, dispatch, logs, limiter, retry, up, receiver>>
-----------------------------------------------------------------------------
(* The delivery log store.                                                 *)
EvictCount(n) == IF n \div 10 = 0 THEN 1 ELSE n \div 10

EvictOldest(s) ==
    {d \in s : Cardinality({e \in s : born[e] < born[d]}) < EvictCount(Cardinality(s))}

Add(d) ==
    store' = (IF Cardinality(store) >= MaxLogs THEN store \ EvictOldest(store) ELSE store)
             \cup {d}

\* Update puts the log back when it was evicted in the meantime.
Update(d) == store' = store \cup {d}

\* Mutant: every due log, whatever its status.
GetPendingRetriesAnyStatus == {d \in store : due[d] = "past"}

GetPendingRetries == {d \in store : status[d] = "retrying" /\ due[d] = "past"}
-----------------------------------------------------------------------------
(* Dispatch: one iteration of its range loop per step.                     *)
DispatchBegin(r) ==
    /\ up /\ request[r] = "new"
    /\ request' = [request EXCEPT ![r] = "dispatch"]
    /\ left' = [left EXCEPT ![r] = {h \in Hooks : Registered(h)}]
    /\ UNCHANGED <<registry, logs, limiter, retry, up, receiver>>

DispatchHook(r, h) ==
    /\ up /\ request[r] = "dispatch" /\ h \in left[r]
    /\ left' = [left EXCEPT ![r] = @ \ {h}]
    /\ IF hook[h] = "active" /\ EventType[r] \in subs[h]
       THEN /\ born' = [born EXCEPT ![<<r, h>>] =
                          Cardinality({d \in Deliveries : born[d] # 0}) + 1]
            /\ Add(<<r, h>>)
            /\ first' = [first EXCEPT ![<<r, h>>] = "spawned"]
       ELSE UNCHANGED <<born, store, first>>
    /\ UNCHANGED <<registry, request, status, attempts, due, limiter, retry, up,
                   receiver>>

\* The handler returns and net/http cancels the context of its request.
RequestReturns(r) ==
    /\ up /\ request[r] = "dispatch" /\ left[r] = {}
    /\ request' = [request EXCEPT ![r] = "returned"]
    /\ UNCHANGED <<registry, left, logs, limiter, retry, up, receiver>>
-----------------------------------------------------------------------------
(* One attempt: the rate limit, the request, the answer.                   *)
ShouldRetry(n) == n < MaxAttempts

\* Take: a token, or an error before anything is sent.
Allow(h) == tokens[h] > 0 /\ tokens' = [tokens EXCEPT ![h] = @ - 1]
Limited(h) == tokens[h] = 0 /\ UNCHANGED tokens

\* A period passes: Take adds one token per elapsed period, up to maxTokens.
Refill(h) ==
    /\ up /\ ticks < MaxTicks /\ tokens[h] < MaxTokens
    /\ ticks' = ticks + 1
    /\ tokens' = [tokens EXCEPT ![h] = @ + 1]
    /\ UNCHANGED <<registry, dispatch, logs, retry, up, receiver>>

\* Mutant: NextRetryAt is not set.
FailureNoNextRetry(d, n) ==
    /\ status' = [status EXCEPT ![d] = IF ShouldRetry(n) THEN "retrying" ELSE "failed"]
    /\ UNCHANGED due

\* What the log records of an attempt that failed, n attempts made so far.
Failure(d, n) ==
    IF ShouldRetry(n)
    THEN /\ status' = [status EXCEPT ![d] = "retrying"]
         /\ due' = [due EXCEPT ![d] = "later"]
    ELSE status' = [status EXCEPT ![d] = "failed"] /\ UNCHANGED due

\* Mutant: the status of a delivered log is not set.
SuccessNoStatus(d) == UNCHANGED <<status, due>>

Success(d) == status' = [status EXCEPT ![d] = "success"] /\ UNCHANGED due

\* client.Do: a 2xx answer; another status, or an answer that is lost or
\* late; or no connection at all.  A cancelled context never succeeds.
Do(d, live, data) ==
    \/ /\ live /\ Success(d)
       /\ sent' = [sent EXCEPT ![d] = @ + 1]
       /\ acks' = [acks EXCEPT ![d] = @ + 1]
       /\ intact' = IF data = "event" THEN intact \cup {d} ELSE intact
    \/ /\ Failure(d, attempts[d])
       /\ sent' = [sent EXCEPT ![d] = @ + 1]
       /\ UNCHANGED <<acks, intact>>
    \/ Failure(d, attempts[d]) /\ UNCHANGED <<sent, acks, intact>>
-----------------------------------------------------------------------------
(* sendWebhookWithDeliveryLog, the goroutine of the first attempt.         *)
First(d, from, to) == up /\ first[d] = from /\ first' = [first EXCEPT ![d] = to]

FirstAttempt(d) ==
    /\ attempts' = [attempts EXCEPT ![d] = @ + 1]
    /\ \/ First(d, "spawned", "sending") /\ Allow(d[2]) /\ UNCHANGED <<status, due>>
       \/ First(d, "spawned", "update") /\ Limited(d[2]) /\ Failure(d, attempts[d] + 1)
    /\ UNCHANGED <<registry, dispatch, born, store, ticks, retry, up, receiver>>

FirstAnswer(d) ==
    /\ First(d, "sending", "update")
    /\ Do(d, request[d[1]] = "dispatch", "event")
    /\ UNCHANGED <<registry, dispatch, born, attempts, store, limiter, retry, up>>

FirstUpdate(d) ==
    /\ First(d, "update", "done")
    /\ Update(d)
    /\ UNCHANGED <<registry, dispatch, born, status, attempts, due, limiter, retry, up,
                   receiver>>

\* Time reaches NextRetryAt.
RetryDue(d) ==
    /\ up /\ status[d] = "retrying" /\ due[d] = "later"
    /\ due' = [due EXCEPT ![d] = "past"]
    /\ UNCHANGED <<registry, dispatch, born, status, attempts, first, store, limiter,
                   retry, up, receiver>>
-----------------------------------------------------------------------------
(* The retry worker.                                                       *)
Tick ==
    /\ up /\ worker = "select"
    /\ GetPendingRetries # {}
    /\ worker' = "loop" /\ batch' = GetPendingRetries
    /\ UNCHANGED <<registry, dispatch, logs, limiter, cur, stop, up, receiver>>

\* The webhook is gone or inactive: the delivery is given up.
GiveUp(d) ==
    /\ up /\ worker = "loop" /\ d \in batch
    /\ hook[d[2]] # "active"
    /\ batch' = batch \ {d}
    /\ status' = [status EXCEPT ![d] = "failed"]
    /\ Update(d)
    /\ UNCHANGED <<registry, dispatch, born, attempts, due, first, limiter, worker, cur,
                   stop, up, receiver>>

RetryDelivery(d) ==
    /\ up /\ worker = "loop" /\ d \in batch
    /\ hook[d[2]] = "active"
    /\ batch' = batch \ {d}
    /\ attempts' = [attempts EXCEPT ![d] = @ + 1]
    /\ \/ /\ Allow(d[2])
          /\ worker' = "sending" /\ cur' = d
          /\ UNCHANGED <<status, due, store>>
       \/ /\ Limited(d[2])
          /\ Failure(d, attempts[d] + 1)
          /\ Update(d)
          /\ UNCHANGED <<worker, cur>>
    /\ UNCHANGED <<registry, dispatch, born, first, ticks, stop, up, receiver>>

\* The event is rebuilt from its log: its Data is an empty map.
RetryAnswer(d) ==
    /\ up /\ worker = "sending" /\ cur = d
    /\ Do(d, TRUE, "empty")
    /\ Update(d)
    /\ worker' = "loop" /\ cur' = NoDelivery
    /\ UNCHANGED <<registry, dispatch, born, attempts, first, limiter, batch, stop, up>>

LoopEnds ==
    /\ up /\ worker = "loop" /\ batch = {}
    /\ worker' = "select"
    /\ UNCHANGED <<registry, dispatch, logs, limiter, batch, cur, stop, up, receiver>>

Stop ==
    /\ up /\ ~stop
    /\ stop' = TRUE
    /\ UNCHANGED <<registry, dispatch, logs, limiter, worker, batch, cur, up, receiver>>

WorkerExits ==
    /\ up /\ stop /\ worker = "select"
    /\ worker' = "exited"
    /\ UNCHANGED <<registry, dispatch, logs, limiter, batch, cur, stop, up, receiver>>
-----------------------------------------------------------------------------
Manage(h) ==
    \/ RegisterWebhook(h) \/ UnregisterWebhook(h) \/ UpdateWebhook(h)
    \/ DeactivateWebhook(h) \/ ActivateWebhook(h) \/ Refill(h)
Dispatch(r) == DispatchBegin(r) \/ RequestReturns(r) \/ \E h \in Hooks : DispatchHook(r, h)
FirstStep(d) == FirstAttempt(d) \/ FirstAnswer(d) \/ FirstUpdate(d)
RetryStep == Tick \/ LoopEnds \/ \E d \in Deliveries : GiveUp(d) \/ RetryDelivery(d) \/ RetryAnswer(d)

Next ==
    \/ \E h \in Hooks : Manage(h)
    \/ \E r \in Requests : Dispatch(r)
    \/ \E d \in Deliveries : FirstStep(d) \/ RetryDue(d)
    \/ RetryStep
    \/ Stop \/ WorkerExits

\* Goroutines are scheduled, the HTTP client times out, the clock and the
\* ticker run.
Fairness ==
    /\ \A d \in Deliveries : WF_vars(FirstStep(d)) /\ WF_vars(RetryDue(d))
    /\ WF_vars(RetryStep)

Spec == Init /\ [][Next]_vars
FairSpec == Spec /\ Fairness
-----------------------------------------------------------------------------
\* The receiver is called at most once per attempt, its 2xx answer is read at
\* most once and ends the delivery: the retry worker never sends again what
\* the goroutine of the first attempt has delivered, or the other way round.
\* Only a retry can deliver an event without its data.
AttemptsAccounted ==
    \A d \in Deliveries :
        /\ sent[d] <= attempts[d]
        /\ acks[d] = IF status[d] = "success" THEN 1 ELSE 0
        /\ status[d] = "success" /\ attempts[d] = 1 => d \in intact

\* A delivery is given up before its last attempt only when its webhook was
\* deleted or deactivated after the event was dispatched to it.
GiveUpJustified ==
    \A d \in Deliveries :
        status[d] = "failed" => attempts[d] = MaxAttempts \/ d \in off

\* A log that reached success or failed is never touched again, however
\* stale the list of pending retries is that the worker goes through.
CompletedIsFinal ==
    [][\A d \in Deliveries : status[d] \in Completed =>
           status'[d] = status[d] /\ attempts'[d] = attempts[d]]_vars

PhaseOf(d) ==
    CASE first[d] = "none" -> "none"
      [] status[d] = "success" -> "delivered"
      [] status[d] = "failed" -> "abandoned"
      [] OTHER -> "trying"

Calling(d) == first[d] = "sending" \/ (worker = "sending" /\ cur = d)

Promise == INSTANCE DeliveryPromise WITH
    phase <- [d \in Deliveries |-> PhaseOf(d)],
    calling <- [d \in Deliveries |-> Calling(d)],
    tries <- attempts, received <- sent, revoked <- off

\* First attempts on goroutines of their own, a retry worker that goes through
\* a stale list, rate limits and a registry that changes meanwhile keep the
\* promise of DeliveryPromise together: one request at a time, a bound of
\* attempts, one end, and no delivery given up early without a reason.
\* pkg/webhooks/retry.go:143, webhooks.go:191
ImplementsPromise == Promise!Spec

\* While the process lives and the retry worker is not stopped, every
\* delivery succeeds, fails or is evicted from the full log store.
DeliveryEnds ==
    \A d \in Deliveries :
        born[d] # 0 ~> (status[d] \in Completed \/ d \notin store \/ stop \/ ~up)

=============================================================================
