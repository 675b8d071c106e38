-------------------------- MODULE OperationsProofs --------------------------
(***************************************************************************)
(* What works behind the requests, for any number of webhooks, events,     *)
(* attempts, emitters, files and shutdown functions.  The webhook manager: *)
(* attempts and answers are accounted for, a delivery is given up only for *)
(* a reason, and a completed delivery log is never touched again.  The     *)
(* audit logger and the shutdown: no event that was reported as written is *)
(* lost without a rotation that says so, and only a handler that outlives  *)
(* its request can end the process.                                        *)
(***************************************************************************)
EXTENDS Webhooks, Lifecycle, FiniteSetTheorems, WellFoundedInduction, TLAPS

-----------------------------------------------------------------------------
(* The webhook manager.                                                    *)
TypeOK ==
    /\ hook \in [Hooks -> {"unknown", "active", "inactive", "deleted"}]
    /\ subs \in [Hooks -> SUBSET Types]
    /\ admin \in Nat /\ ticks \in Nat
    /\ request \in [Requests -> {"new", "dispatch", "returned"}]
    /\ left \in [Requests -> SUBSET Hooks]
    /\ born \in [Deliveries -> Nat]
    /\ status \in [Deliveries -> {"pending", "retrying"} \cup Completed]
    /\ attempts \in [Deliveries -> Nat]
    /\ due \in [Deliveries -> {"nil", "later", "past"}]
    /\ first \in [Deliveries -> {"none", "spawned", "sending", "update", "done"}]
    /\ store \subseteq Deliveries
    /\ tokens \in [Hooks -> 0..MaxTokens]
    /\ worker \in {"select", "loop", "sending", "exited"}
    /\ batch \subseteq Deliveries
    /\ cur \in Deliveries \cup {NoDelivery}
    /\ stop \in BOOLEAN /\ up \in BOOLEAN
    /\ sent \in [Deliveries -> Nat]
    /\ acks \in [Deliveries -> Nat]
    /\ intact \subseteq Deliveries /\ off \subseteq Deliveries

\* The goroutine of the first attempt of d runs, or has not been started.
Opening(d) == first[d] \in {"none", "spawned", "sending"}

\* The worker waits for the answer to its request.
Retrying(d) == worker = "sending" /\ cur = d

\* A delivery is created at most once: a range loop still to visit a webhook
\* has not created its delivery, however the map changes under the loop.
CreatedOnce ==
    /\ \A d \in Deliveries : first[d] = "none" <=> born[d] = 0
    /\ \A d \in Deliveries :
         d[2] \in left[d[1]] => first[d] = "none" /\ request[d[1]] = "dispatch"
    /\ \A d \in Deliveries : request[d[1]] = "new" => first[d] = "none"
    /\ \A d \in Deliveries : hook[d[2]] = "unknown" => first[d] = "none"

\* A webhook that is not active now was switched off after each of its
\* deliveries was created.
OffRecorded ==
    \A d \in Deliveries : first[d] # "none" /\ hook[d[2]] # "active" => d \in off

\* The first attempt and the worker never own a log at the same time.
OneOwner ==
    /\ \A d \in Deliveries : Opening(d) <=> status[d] = "pending"
    /\ \A d \in batch : status[d] = "retrying"
    /\ \A d \in Deliveries : Retrying(d) => status[d] = "retrying" /\ d \notin batch
    /\ worker \in {"select", "exited"} => batch = {}

\* How many attempts a log counts at each point of its life.
AttemptCount ==
    \A d \in Deliveries :
        /\ first[d] \in {"none", "spawned"} => attempts[d] = 0
        /\ first[d] = "sending" => attempts[d] = 1
        /\ ~Opening(d) => attempts[d] \in 1..MaxAttempts
        /\ Retrying(d) => attempts[d] > 1
        /\ status[d] = "retrying" /\ ~Retrying(d) => attempts[d] < MaxAttempts

\* The request of the current attempt has not been counted as received yet.
SentCount ==
    \A d \in Deliveries :
        /\ first[d] = "sending" => sent[d] = 0
        /\ Retrying(d) => sent[d] < attempts[d]

DeliveryInv ==
    /\ TypeOK /\ CreatedOnce /\ OffRecorded /\ OneOwner /\ AttemptCount /\ SentCount
    /\ AttemptsAccounted /\ GiveUpJustified

\* What a log goes through, without the maps it hangs from.
LogInv ==
    OneOwner /\ AttemptCount /\ SentCount /\ AttemptsAccounted /\ GiveUpJustified
-----------------------------------------------------------------------------
\* A delivery is the pair of its event's request and its webhook.
LEMMA DeliveryPair ==
    /\ \A d \in Deliveries : d[1] \in Requests /\ d[2] \in Hooks /\ d = <<d[1], d[2]>>
    /\ \A r \in Requests, h \in Hooks :
         <<r, h>> \in Deliveries /\ <<r, h>>[1] = r /\ <<r, h>>[2] = h
BY DEF Deliveries

\* The rank a new log takes as its CreatedAt is a number: only finitely many
\* deliveries exist.
LEMMA RankIsNat == Cardinality({d \in Deliveries : born[d] # 0}) \in Nat
<1>1. IsFiniteSet(Deliveries)
  BY FS_Product, WebhooksAssumption DEF Deliveries
<1>2. IsFiniteSet({d \in Deliveries : born[d] # 0})
  BY <1>1, FS_Subset
<1> QED
  BY <1>2, FS_CardinalityType

\* Evicting the oldest logs only removes entries, so that Add leaves a set of
\* deliveries in the store.
LEMMA AddType ==
    ASSUME TypeOK, NEW d \in Deliveries, Add(d)
    PROVE  store' \subseteq Deliveries
BY DEF TypeOK, Add, EvictOldest

\* Types of a freshly started manager.
LEMMA InitType == Init => TypeOK
<1> SUFFICES ASSUME Init PROVE TypeOK
  OBVIOUS
<1>1. tokens \in [Hooks -> 0..MaxTokens] /\ admin \in Nat /\ ticks \in Nat
  BY WebhooksAssumption DEF Init
<1>2. /\ hook \in [Hooks -> {"unknown", "active", "inactive", "deleted"}]
      /\ subs \in [Hooks -> SUBSET Types]
      /\ request \in [Requests -> {"new", "dispatch", "returned"}]
      /\ left \in [Requests -> SUBSET Hooks]
  BY DEF Init
<1>3. /\ born \in [Deliveries -> Nat] /\ attempts \in [Deliveries -> Nat]
      /\ sent \in [Deliveries -> Nat] /\ acks \in [Deliveries -> Nat]
  BY DEF Init
<1>4. /\ status \in [Deliveries -> {"pending", "retrying"} \cup Completed]
      /\ due \in [Deliveries -> {"nil", "later", "past"}]
      /\ first \in [Deliveries -> {"none", "spawned", "sending", "update", "done"}]
  BY DEF Init, Completed
<1> QED
  BY <1>1, <1>2, <1>3, <1>4 DEF Init, TypeOK

\* client.Do and the bookkeeping of its answer keep the types of the log.
LEMMA DoType ==
    ASSUME TypeOK, NEW d \in Deliveries, NEW live, NEW data, Do(d, live, data)
    PROVE  /\ status' \in [Deliveries -> {"pending", "retrying"} \cup Completed]
           /\ due' \in [Deliveries -> {"nil", "later", "past"}]
           /\ sent' \in [Deliveries -> Nat] /\ acks' \in [Deliveries -> Nat]
           /\ intact' \subseteq Deliveries
<1>1. /\ status' \in [Deliveries -> {"pending", "retrying"} \cup Completed]
      /\ due' \in [Deliveries -> {"nil", "later", "past"}]
  BY DEF TypeOK, Do, Success, Failure, Completed
<1>2. /\ sent' \in [Deliveries -> Nat] /\ acks' \in [Deliveries -> Nat]
      /\ intact' \subseteq Deliveries
  BY DEF TypeOK, Do
<1> QED
  BY <1>1, <1>2

\* Every management request, dispatch, attempt and step of the retry worker
\* keeps the types; a bucket never holds more than maxTokens.
LEMMA TypeStep == TypeOK /\ [Next]_vars => TypeOK'
<1> SUFFICES ASSUME TypeOK, [Next]_vars PROVE TypeOK'
  OBVIOUS
<1> USE WebhooksAssumption DEF registry, dispatch, logs, limiter, retry, receiver
<1>1. ASSUME NEW h \in Hooks, Manage(h) PROVE TypeOK'
  <2>1. CASE RegisterWebhook(h)
    <3>1. left' \in [Requests -> SUBSET Hooks]
      BY <2>1 DEF TypeOK, RegisterWebhook
    <3>2. up' \in BOOLEAN
      BY <2>1 DEF RegisterWebhook, MapWrite
    <3>3. subs' \in [Hooks -> SUBSET Types]
      BY <2>1 DEF TypeOK, RegisterWebhook
    <3> QED
      BY <2>1, <3>1, <3>2, <3>3 DEF TypeOK, RegisterWebhook, Admin
  <2>2. CASE UnregisterWebhook(h)
    <3>1. left' \in [Requests -> SUBSET Hooks]
      BY <2>2 DEF TypeOK, UnregisterWebhook
    <3>2. up' \in BOOLEAN
      BY <2>2 DEF UnregisterWebhook, MapWrite
    <3> QED
      BY <2>2, <3>1, <3>2 DEF TypeOK, UnregisterWebhook, Admin, SwitchedOff
  <2>3. CASE UpdateWebhook(h)
    BY <2>3 DEF TypeOK, UpdateWebhook, Admin
  <2>4. CASE DeactivateWebhook(h)
    BY <2>4 DEF TypeOK, DeactivateWebhook, Admin, SwitchedOff
  <2>5. CASE ActivateWebhook(h)
    BY <2>5 DEF TypeOK, ActivateWebhook, Admin
  <2>6. CASE Refill(h)
    BY <2>6 DEF TypeOK, Refill
  <2> QED
    BY <1>1, <2>1, <2>2, <2>3, <2>4, <2>5, <2>6 DEF Manage
<1>2. ASSUME NEW r \in Requests, Dispatch(r) PROVE TypeOK'
  <2>1. CASE DispatchBegin(r)
    BY <2>1 DEF TypeOK, DispatchBegin
  <2>2. CASE RequestReturns(r)
    BY <2>2 DEF TypeOK, RequestReturns
  <2>3. ASSUME NEW h \in Hooks, DispatchHook(r, h) PROVE TypeOK'
    <3>1. <<r, h>> \in Deliveries
      BY DeliveryPair
    <3>2. store' \subseteq Deliveries
      BY <2>3, <3>1, AddType DEF DispatchHook, TypeOK
    <3>3. born' \in [Deliveries -> Nat]
      <4> DEFINE n == Cardinality({d \in Deliveries : born[d] # 0})
      <4>1. n \in Nat
        BY RankIsNat
      <4>2. born' = [born EXCEPT ![<<r, h>>] = n + 1] \/ born' = born
        BY <2>3 DEF DispatchHook
      <4> HIDE DEF n
      <4> QED
        BY <4>1, <4>2, <3>1 DEF TypeOK
    <3>4. first' \in [Deliveries -> {"none", "spawned", "sending", "update", "done"}]
      BY <2>3, <3>1 DEF DispatchHook, TypeOK
    <3> QED
      BY <2>3, <3>2, <3>3, <3>4 DEF DispatchHook, TypeOK
  <2> QED
    BY <1>2, <2>1, <2>2, <2>3 DEF Dispatch
<1>3. ASSUME NEW d \in Deliveries, FirstStep(d) PROVE TypeOK'
  <2>0. d[2] \in Hooks
    BY DeliveryPair
  <2>1. CASE FirstAttempt(d)
    <3>1. /\ status' \in [Deliveries -> {"pending", "retrying"} \cup Completed]
          /\ due' \in [Deliveries -> {"nil", "later", "past"}]
      BY <2>1 DEF FirstAttempt, Failure, TypeOK, Completed
    <3>2. tokens' \in [Hooks -> 0..MaxTokens]
      BY <2>0, <2>1 DEF FirstAttempt, Allow, Limited, TypeOK
    <3>3. first' \in [Deliveries -> {"none", "spawned", "sending", "update", "done"}]
      BY <2>1 DEF FirstAttempt, First, TypeOK
    <3>4. attempts' \in [Deliveries -> Nat]
      BY <2>1 DEF FirstAttempt, TypeOK
    <3> QED
      BY <2>1, <3>1, <3>2, <3>3, <3>4 DEF FirstAttempt, TypeOK
  <2>2. CASE FirstAnswer(d)
    BY <2>2, DoType DEF FirstAnswer, First, TypeOK
  <2>3. CASE FirstUpdate(d)
    BY <2>3 DEF FirstUpdate, First, Update, TypeOK
  <2> QED
    BY <1>3, <2>1, <2>2, <2>3 DEF FirstStep
<1>4. ASSUME NEW d \in Deliveries, RetryDue(d) PROVE TypeOK'
  BY <1>4 DEF RetryDue, TypeOK
<1>5. CASE RetryStep
  <2>1. CASE Tick
    BY <2>1 DEF Tick, GetPendingRetries, TypeOK
  <2>2. CASE LoopEnds
    BY <2>2 DEF LoopEnds, TypeOK
  <2>3. ASSUME NEW d \in Deliveries, GiveUp(d) PROVE TypeOK'
    BY <2>3 DEF GiveUp, Update, TypeOK, Completed
  <2>4. ASSUME NEW d \in Deliveries, RetryDelivery(d) PROVE TypeOK'
    <3>0. d[2] \in Hooks
      BY DeliveryPair
    <3>1. /\ status' \in [Deliveries -> {"pending", "retrying"} \cup Completed]
          /\ due' \in [Deliveries -> {"nil", "later", "past"}]
      BY <2>4 DEF RetryDelivery, Failure, TypeOK, Completed
    <3>2. tokens' \in [Hooks -> 0..MaxTokens]
      BY <2>4, <3>0 DEF RetryDelivery, Allow, Limited, TypeOK
    <3>3. store' \subseteq Deliveries
      BY <2>4 DEF RetryDelivery, Update, TypeOK
    <3>4. attempts' \in [Deliveries -> Nat]
      BY <2>4 DEF RetryDelivery, TypeOK
    <3>5. /\ worker' \in {"select", "loop", "sending", "exited"}
          /\ cur' \in Deliveries \cup {NoDelivery} /\ batch' \subseteq Deliveries
      BY <2>4 DEF RetryDelivery, TypeOK
    <3> QED
      BY <2>4, <3>1, <3>2, <3>3, <3>4, <3>5 DEF RetryDelivery, TypeOK
  <2>5. ASSUME NEW d \in Deliveries, RetryAnswer(d) PROVE TypeOK'
    BY <2>5, DoType DEF RetryAnswer, Update, TypeOK
  <2> QED
    BY <1>5, <2>1, <2>2, <2>3, <2>4, <2>5 DEF RetryStep
<1>6. CASE Stop
  BY <1>6 DEF Stop, TypeOK
<1>7. CASE WorkerExits
  BY <1>7 DEF WorkerExits, TypeOK
<1>8. CASE UNCHANGED vars
  BY <1>8 DEF vars, TypeOK
<1> QED
  BY <1>1, <1>2, <1>3, <1>4, <1>5, <1>6, <1>7, <1>8 DEF Next
-----------------------------------------------------------------------------
\* A step that leaves the map of webhooks, the range loops and the creation
\* of logs alone keeps what is known of them: a goroutine of a first attempt
\* or the worker moves a log that exists.
LEMMA CreationFrame ==
    ASSUME TypeOK, CreatedOnce, OffRecorded, UNCHANGED <<hook, request, left, born, off>>,
           \A d \in Deliveries : first'[d] = "none" <=> first[d] = "none"
    PROVE  CreatedOnce' /\ OffRecorded'
BY DeliveryPair DEF CreatedOnce, OffRecorded

\* A step that leaves the logs, the worker and the receiver alone keeps what
\* is known of the logs.
LEMMA LogFrame ==
    ASSUME TypeOK, LogInv, off \subseteq off',
           UNCHANGED <<status, attempts, first, worker, batch, cur, sent, acks, intact>>
    PROVE  LogInv'
BY DEF LogInv, OneOwner, AttemptCount, SentCount, AttemptsAccounted, GiveUpJustified,
       Opening, Retrying

\* Register, unregister, update, deactivate and activate, each of them while
\* range loops are under way, keep every log created once and record which
\* deliveries lost their webhook.
LEMMA ManageStep ==
    ASSUME DeliveryInv, NEW h \in Hooks, Manage(h)
    PROVE  CreatedOnce' /\ OffRecorded' /\ LogInv'
<1> USE DEF registry, dispatch, logs, limiter, retry, receiver, DeliveryInv
<1>1. LogInv
  BY DEF LogInv
<1>2. CASE RegisterWebhook(h)
  <2>1. LogInv'
    BY <1>1, <1>2, LogFrame DEF RegisterWebhook
  <2>2. \A d \in Deliveries : d[2] = h => first[d] = "none"
    BY <1>2 DEF RegisterWebhook, CreatedOnce
  <2>3. \A r \in Requests : left'[r] \subseteq left[r] \cup {h}
    BY <1>2 DEF RegisterWebhook
  <2>4. \A r \in Requests : h \in left'[r] => h \in left[r] \/ request[r] = "dispatch"
    BY <1>2 DEF RegisterWebhook, Iterating
  <2>5. CreatedOnce'
    <3>1. \A d \in Deliveries :
            d[2] \in left'[d[1]] => first[d] = "none" /\ request[d[1]] = "dispatch"
      BY <2>2, <2>3, <2>4, DeliveryPair DEF CreatedOnce
    <3>2. \A d \in Deliveries : hook'[d[2]] = "unknown" => hook[d[2]] = "unknown"
      BY <1>2, DeliveryPair DEF RegisterWebhook, TypeOK
    <3> QED
      BY <1>2, <3>1, <3>2 DEF CreatedOnce, RegisterWebhook
  <2>6. OffRecorded'
    BY <1>2, <2>2, DeliveryPair DEF OffRecorded, RegisterWebhook, TypeOK
  <2> QED
    BY <2>1, <2>5, <2>6
<1>3. CASE UnregisterWebhook(h) \/ DeactivateWebhook(h)
  <2>1. off' = off \cup {d \in Deliveries : d[2] = h /\ born[d] # 0}
    BY <1>3 DEF UnregisterWebhook, DeactivateWebhook, SwitchedOff
  <2>2. LogInv'
    BY <1>1, <1>3, <2>1, LogFrame DEF UnregisterWebhook, DeactivateWebhook
  <2>3. /\ \A g \in Hooks : g # h => hook'[g] = hook[g]
        /\ hook[h] # "unknown" /\ hook'[h] # "unknown"
    BY <1>3 DEF UnregisterWebhook, DeactivateWebhook, Registered, TypeOK
  <2>4. UNCHANGED <<born, first, request>>
    BY <1>3 DEF UnregisterWebhook, DeactivateWebhook
  <2>5. \A r \in Requests : left'[r] \subseteq left[r]
    BY <1>3 DEF UnregisterWebhook, DeactivateWebhook
  <2>6. CreatedOnce'
    BY <2>3, <2>4, <2>5, DeliveryPair DEF CreatedOnce
  <2>7. OffRecorded'
    BY <2>1, <2>3, <2>4, DeliveryPair DEF OffRecorded, CreatedOnce
  <2> QED
    BY <2>2, <2>6, <2>7
<1>4. CASE UpdateWebhook(h) \/ Refill(h)
  <2>1. LogInv'
    BY <1>1, <1>4, LogFrame DEF UpdateWebhook, Refill
  <2>2. CreatedOnce' /\ OffRecorded'
    BY <1>4, CreationFrame DEF UpdateWebhook, Refill
  <2> QED
    BY <2>1, <2>2
<1>5. CASE ActivateWebhook(h)
  <2>1. LogInv'
    BY <1>1, <1>5, LogFrame DEF ActivateWebhook
  <2>2. CreatedOnce'
    BY <1>5, DeliveryPair DEF ActivateWebhook, Registered, CreatedOnce, TypeOK
  <2>3. OffRecorded'
    BY <1>5, DeliveryPair DEF ActivateWebhook, OffRecorded, TypeOK
  <2> QED
    BY <2>1, <2>2, <2>3
<1> QED
  BY <1>2, <1>3, <1>4, <1>5 DEF Manage

\* Dispatch creates the log of a delivery only for an active webhook it has
\* not visited yet, and leaves the logs that exist alone.
LEMMA DispatchStep ==
    ASSUME DeliveryInv, NEW r \in Requests, Dispatch(r)
    PROVE  CreatedOnce' /\ OffRecorded' /\ LogInv'
<1> USE DEF registry, dispatch, logs, limiter, retry, receiver, DeliveryInv
<1>1. LogInv
  BY DEF LogInv
<1>2. CASE DispatchBegin(r)
  <2>1. LogInv'
    BY <1>1, <1>2, LogFrame DEF DispatchBegin
  <2>2. CreatedOnce'
    BY <1>2, DeliveryPair DEF DispatchBegin, CreatedOnce, TypeOK
  <2>3. OffRecorded'
    BY <1>2 DEF DispatchBegin, OffRecorded
  <2> QED
    BY <2>1, <2>2, <2>3
<1>3. CASE RequestReturns(r)
  <2>1. LogInv'
    BY <1>1, <1>3, LogFrame DEF RequestReturns
  <2>2. CreatedOnce'
    BY <1>3, DeliveryPair DEF RequestReturns, CreatedOnce, TypeOK
  <2>3. OffRecorded'
    BY <1>3 DEF RequestReturns, OffRecorded
  <2> QED
    BY <2>1, <2>2, <2>3
<1>4. ASSUME NEW h \in Hooks, DispatchHook(r, h)
      PROVE  CreatedOnce' /\ OffRecorded' /\ LogInv'
  <2> DEFINE d0 == <<r, h>>
  <2>1. d0 \in Deliveries /\ d0[1] = r /\ d0[2] = h
    BY DeliveryPair
  <2>2. \A d \in Deliveries : d # d0 => d[1] # r \/ d[2] # h
    BY DeliveryPair
  <2>3. first[d0] = "none" /\ request[r] = "dispatch"
    BY <1>4, <2>1 DEF DispatchHook, CreatedOnce
  <2> HIDE DEF d0
  <2>4. /\ left' = [left EXCEPT ![r] = @ \ {h}]
        /\ UNCHANGED <<hook, request, off, status, attempts, worker, batch, cur, sent, acks,
                       intact>>
    BY <1>4 DEF DispatchHook
  <2>5. \/ UNCHANGED <<born, first>>
        \/ /\ hook[h] = "active"
           /\ born'[d0] # 0 /\ first' = [first EXCEPT ![d0] = "spawned"]
           /\ \A d \in Deliveries : d # d0 => born'[d] = born[d]
    <3> DEFINE n == Cardinality({d \in Deliveries : born[d] # 0})
    <3>1. n \in Nat
      BY RankIsNat
    <3>2. \/ UNCHANGED <<born, first>>
          \/ /\ hook[h] = "active" /\ born' = [born EXCEPT ![d0] = n + 1]
             /\ first' = [first EXCEPT ![d0] = "spawned"]
      BY <1>4 DEF DispatchHook, d0
    <3> HIDE DEF n
    <3> QED
      BY <3>1, <3>2, <2>1 DEF TypeOK
  <2>6. CreatedOnce'
    <3>1. \A d \in Deliveries : first'[d] = "none" <=> born'[d] = 0
      BY <2>1, <2>5 DEF CreatedOnce, TypeOK
    <3>2. ASSUME NEW d \in Deliveries, d[2] \in left'[d[1]]
          PROVE  first'[d] = "none" /\ request'[d[1]] = "dispatch"
      <4>1. d # d0 /\ d[2] \in left[d[1]]
        BY <2>1, <2>4, <3>2, DeliveryPair DEF TypeOK
      <4> QED
        BY <4>1, <2>4, <2>5 DEF CreatedOnce, TypeOK
    <3>3. ASSUME NEW d \in Deliveries, request'[d[1]] = "new" \/ hook'[d[2]] = "unknown"
          PROVE  first'[d] = "none"
      BY <2>1, <2>3, <2>4, <2>5, <3>3 DEF CreatedOnce, TypeOK
    <3> QED
      BY <3>1, <3>2, <3>3 DEF CreatedOnce
  <2>7. OffRecorded'
    BY <2>1, <2>4, <2>5 DEF OffRecorded, TypeOK
  <2>8. LogInv'
    <3>1. \A d \in Deliveries :
            /\ Opening(d)' <=> Opening(d)
            /\ first'[d] \in {"none", "spawned"} <=> first[d] \in {"none", "spawned"}
            /\ first'[d] = "sending" <=> first[d] = "sending"
      BY <2>1, <2>3, <2>5 DEF Opening, TypeOK
    <3>2. OneOwner' /\ AttemptCount' /\ SentCount'
      BY <2>4, <3>1 DEF OneOwner, AttemptCount, SentCount, Retrying
    <3>3. AttemptsAccounted' /\ GiveUpJustified'
      BY <2>4 DEF AttemptsAccounted, GiveUpJustified
    <3> QED
      BY <3>2, <3>3 DEF LogInv
  <2> QED
    BY <2>6, <2>7, <2>8
<1> QED
  BY <1>2, <1>3, <1>4 DEF Dispatch
-----------------------------------------------------------------------------
\* LogInv of one delivery.
LogOK(d) ==
    /\ Opening(d) <=> status[d] = "pending"
    /\ d \in batch => status[d] = "retrying"
    /\ Retrying(d) => status[d] = "retrying" /\ d \notin batch
    /\ first[d] \in {"none", "spawned"} => attempts[d] = 0
    /\ first[d] = "sending" => attempts[d] = 1 /\ sent[d] = 0
    /\ ~Opening(d) => attempts[d] \in 1..MaxAttempts
    /\ Retrying(d) => attempts[d] > 1 /\ sent[d] < attempts[d]
    /\ status[d] = "retrying" /\ ~Retrying(d) => attempts[d] < MaxAttempts
    /\ sent[d] <= attempts[d]
    /\ acks[d] = IF status[d] = "success" THEN 1 ELSE 0
    /\ status[d] = "success" /\ attempts[d] = 1 => d \in intact
    /\ status[d] = "failed" => attempts[d] = MaxAttempts \/ d \in off

WorkerIdle == worker \in {"select", "exited"} => batch = {}

\* LogInv, delivery by delivery.
LEMMA LogByLog ==
    ASSUME TypeOK
    PROVE  LogInv <=> WorkerIdle /\ \A d \in Deliveries : LogOK(d)
BY DEF LogInv, LogOK, OneOwner, AttemptCount, SentCount, AttemptsAccounted, GiveUpJustified,
       WorkerIdle, TypeOK

\* The same in the next state.
LEMMA LogByLogNext ==
    ASSUME TypeOK', WorkerIdle', \A d \in Deliveries : LogOK(d)'
    PROVE  LogInv'
BY DEF LogInv, LogOK, OneOwner, AttemptCount, SentCount, AttemptsAccounted, GiveUpJustified,
       WorkerIdle, TypeOK

\* A step on the log of d, not of e.
Apart(e) ==
    /\ status'[e] = status[e] /\ attempts'[e] = attempts[e] /\ first'[e] = first[e]
    /\ sent'[e] = sent[e] /\ acks'[e] = acks[e]
    /\ e \in intact' <=> e \in intact
    /\ off' = off
    /\ e \in batch' => e \in batch
    /\ Retrying(e)' <=> Retrying(e)

\* A log that a step does not touch stays as it should be.
LEMMA ApartKept ==
    ASSUME NEW e \in Deliveries, LogOK(e), Apart(e)
    PROVE  LogOK(e)'
BY DEF LogOK, Apart, Opening, Retrying

\* Two 2xx answers or a retry of a delivered log would need the first attempt
\* and the worker to own one log: the three steps of the first attempt.
LEMMA FirstAttemptStep ==
    ASSUME DeliveryInv, NEW d \in Deliveries, FirstStep(d) \/ RetryDue(d), TypeOK'
    PROVE  CreatedOnce' /\ OffRecorded' /\ LogInv'
<1> USE DEF registry, dispatch, logs, limiter, retry, receiver
<1>1. TypeOK /\ CreatedOnce /\ OffRecorded /\ WorkerIdle /\ \A e \in Deliveries : LogOK(e)
  BY LogByLog DEF DeliveryInv, LogInv
<1>2. WorkerIdle'
  BY <1>1 DEF WorkerIdle, FirstStep, FirstAttempt, FirstAnswer, FirstUpdate, RetryDue
<1>3. \A e \in Deliveries : e # d => Apart(e)
  <2>1. CASE FirstAttempt(d)
    BY <1>1, <2>1 DEF FirstAttempt, First, Failure, Apart, Retrying, TypeOK
  <2>2. CASE FirstAnswer(d)
    BY <1>1, <2>2 DEF FirstAnswer, First, Do, Success, Failure, Apart, Retrying, TypeOK
  <2>3. CASE FirstUpdate(d) \/ RetryDue(d)
    BY <1>1, <2>3 DEF FirstUpdate, First, RetryDue, Apart, Retrying, TypeOK
  <2> QED
    BY <2>1, <2>2, <2>3 DEF FirstStep
<1>4. LogOK(d)'
  <2>0. UNCHANGED <<worker, batch, cur, off>>
    BY DEF FirstStep, FirstAttempt, FirstAnswer, FirstUpdate, RetryDue
  <2>1. CASE FirstAttempt(d)
    <3>1. /\ first[d] = "spawned" /\ attempts[d] = 0 /\ status[d] = "pending" /\ sent[d] = 0
          /\ d \notin batch /\ ~Retrying(d) /\ acks[d] = 0
      BY <1>1, <2>1 DEF FirstAttempt, First, LogOK, Opening, TypeOK
    <3>2. attempts'[d] = 1 /\ UNCHANGED <<sent, acks, intact>>
      BY <1>1, <2>1, <3>1 DEF FirstAttempt, TypeOK
    <3>3. \/ first'[d] = "sending" /\ status'[d] = "pending"
          \/ first'[d] = "update" /\ status'[d] = "retrying" /\ 1 < MaxAttempts
          \/ first'[d] = "update" /\ status'[d] = "failed" /\ 1 = MaxAttempts
      BY <1>1, <2>1, <3>1, WebhooksAssumption
         DEF FirstAttempt, First, Failure, ShouldRetry, TypeOK
    <3> QED
      BY <2>0, <3>1, <3>2, <3>3, WebhooksAssumption DEF LogOK, Opening, Retrying
  <2>2. CASE FirstAnswer(d)
    <3>1. /\ first[d] = "sending" /\ attempts[d] = 1 /\ status[d] = "pending" /\ sent[d] = 0
          /\ d \notin batch /\ ~Retrying(d) /\ acks[d] = 0
      BY <1>1, <2>2 DEF FirstAnswer, First, LogOK, Opening, TypeOK
    <3>2. attempts'[d] = 1 /\ first'[d] = "update" /\ sent'[d] \in {0, 1}
      BY <1>1, <2>2, <3>1 DEF FirstAnswer, First, Do, TypeOK
    <3>3. \/ status'[d] = "success" /\ acks'[d] = 1 /\ d \in intact'
          \/ status'[d] = "retrying" /\ acks'[d] = 0 /\ 1 < MaxAttempts
          \/ status'[d] = "failed" /\ acks'[d] = 0 /\ 1 = MaxAttempts
      BY <1>1, <2>2, <3>1, WebhooksAssumption
         DEF FirstAnswer, Do, Success, Failure, ShouldRetry, TypeOK
    <3> QED
      BY <2>0, <3>1, <3>2, <3>3, WebhooksAssumption DEF LogOK, Opening, Retrying
  <2>3. CASE FirstUpdate(d)
    BY <1>1, <2>3 DEF FirstUpdate, First, LogOK, Opening, Retrying, TypeOK
  <2>4. CASE RetryDue(d)
    BY <1>1, <2>4 DEF RetryDue, LogOK, Opening, Retrying, TypeOK
  <2> QED
    BY <2>1, <2>2, <2>3, <2>4 DEF FirstStep
<1>5. LogInv'
  BY <1>1, <1>2, <1>3, <1>4, ApartKept, LogByLogNext
<1>6. /\ UNCHANGED <<hook, request, left, born, off>>
      /\ \A e \in Deliveries : first'[e] = "none" <=> first[e] = "none"
  BY <1>1 DEF FirstStep, FirstAttempt, FirstAnswer, FirstUpdate, First, RetryDue, TypeOK
<1> QED
  BY <1>1, <1>5, <1>6, CreationFrame

\* The worker goes through a list it read a while ago: the logs on it are
\* still waiting for a retry when their turn comes.
LEMMA RetryWorkerStep ==
    ASSUME DeliveryInv, RetryStep, TypeOK'
    PROVE  CreatedOnce' /\ OffRecorded' /\ LogInv'
<1> USE DEF registry, dispatch, logs, limiter, retry, receiver
<1>1. TypeOK /\ CreatedOnce /\ OffRecorded /\ WorkerIdle /\ \A e \in Deliveries : LogOK(e)
  BY LogByLog DEF DeliveryInv, LogInv
<1>2. CreatedOnce' /\ OffRecorded'
  <2>1. UNCHANGED <<hook, request, left, born, off, first>>
    BY DEF RetryStep, Tick, LoopEnds, GiveUp, RetryDelivery, RetryAnswer
  <2> QED
    BY <1>1, <2>1, CreationFrame
<1>3. CASE Tick
  <2>1. WorkerIdle'
    BY <1>3 DEF Tick, WorkerIdle
  <2>2. ASSUME NEW e \in Deliveries PROVE LogOK(e)'
    <3>1. e \in batch' => status[e] = "retrying"
      BY <1>3 DEF Tick, GetPendingRetries
    <3>2. ~Retrying(e) /\ ~Retrying(e)'
      BY <1>3 DEF Tick, Retrying
    <3>3. LogOK(e)
      BY <1>1
    <3> QED
      BY <1>3, <3>1, <3>2, <3>3 DEF Tick, LogOK, Opening
  <2> QED
    BY <1>2, <2>1, <2>2, LogByLogNext
<1>4. CASE LoopEnds
  <2>1. WorkerIdle'
    BY <1>4 DEF LoopEnds, WorkerIdle
  <2>2. \A e \in Deliveries : Apart(e)
    BY <1>4 DEF LoopEnds, Apart, Retrying
  <2> QED
    BY <1>1, <1>2, <2>1, <2>2, ApartKept, LogByLogNext
<1>5. ASSUME NEW d \in Deliveries, GiveUp(d) PROVE LogInv'
  <2>1. WorkerIdle'
    BY <1>5 DEF GiveUp, WorkerIdle
  <2>2. \A e \in Deliveries : e # d => Apart(e)
    BY <1>1, <1>5 DEF GiveUp, Apart, Retrying, TypeOK
  <2>3. LogOK(d)'
    <3>1. status[d] = "retrying" /\ ~Retrying(d) /\ ~Retrying(d)' /\ LogOK(d)
      BY <1>1, <1>5 DEF GiveUp, LogOK, Retrying
    <3>2. d \in off
      BY <1>1, <1>5, <3>1 DEF GiveUp, LogOK, Opening, OffRecorded
    <3> QED
      BY <1>1, <1>5, <3>1, <3>2 DEF GiveUp, LogOK, Opening, TypeOK
  <2> QED
    BY <1>1, <2>1, <2>2, <2>3, ApartKept, LogByLogNext
<1>6. ASSUME NEW d \in Deliveries, RetryDelivery(d) PROVE LogInv'
  <2>1. WorkerIdle'
    BY <1>6 DEF RetryDelivery, WorkerIdle
  <2>2. \A e \in Deliveries : e # d => Apart(e)
    BY <1>1, <1>6 DEF RetryDelivery, Failure, Apart, Retrying, TypeOK
  <2>3. LogOK(d)'
    <3>1. /\ status[d] = "retrying" /\ ~Retrying(d) /\ LogOK(d) /\ ~Opening(d)
          /\ attempts[d] \in Nat /\ attempts[d] >= 1 /\ attempts[d] < MaxAttempts
          /\ sent[d] \in Nat /\ sent[d] <= attempts[d] /\ acks[d] = 0
      BY <1>1, <1>6 DEF RetryDelivery, LogOK, Opening, Retrying, TypeOK
    <3>2. /\ attempts'[d] = attempts[d] + 1 /\ d \notin batch'
          /\ UNCHANGED <<first, sent, acks, intact, off>>
      BY <1>1, <1>6 DEF RetryDelivery, TypeOK
    <3>3. \/ Retrying(d)' /\ status'[d] = "retrying"
          \/ ~Retrying(d)' /\ status'[d] = "retrying" /\ attempts[d] + 1 < MaxAttempts
          \/ ~Retrying(d)' /\ status'[d] = "failed" /\ ~(attempts[d] + 1 < MaxAttempts)
      BY <1>1, <1>6, <3>1 DEF RetryDelivery, Failure, ShouldRetry, Retrying, TypeOK
    <3> QED
      BY <3>1, <3>2, <3>3, WebhooksAssumption DEF LogOK, Opening
  <2> QED
    BY <1>1, <2>1, <2>2, <2>3, ApartKept, LogByLogNext
<1>7. ASSUME NEW d \in Deliveries, RetryAnswer(d) PROVE LogInv'
  <2>1. WorkerIdle'
    BY <1>7 DEF RetryAnswer, WorkerIdle
  <2>2. \A e \in Deliveries : e # d => Apart(e)
    BY <1>1, <1>7 DEF RetryAnswer, Do, Success, Failure, Apart, Retrying, TypeOK
  <2>3. LogOK(d)'
    <3>1. /\ Retrying(d) /\ ~Retrying(d)' /\ LogOK(d) /\ ~Opening(d) /\ d \notin batch
          /\ attempts[d] \in Nat /\ attempts[d] > 1 /\ attempts[d] <= MaxAttempts
          /\ sent[d] \in Nat /\ sent[d] < attempts[d] /\ acks[d] = 0
      BY <1>1, <1>7 DEF RetryAnswer, LogOK, Opening, Retrying, TypeOK
    <3>2. /\ UNCHANGED <<attempts, first, batch, off>>
          /\ sent'[d] \in {sent[d], sent[d] + 1}
      BY <1>1, <1>7 DEF RetryAnswer, Do, TypeOK
    <3>3. \/ status'[d] = "success" /\ acks'[d] = 1
          \/ status'[d] = "retrying" /\ acks'[d] = 0 /\ attempts[d] < MaxAttempts
          \/ status'[d] = "failed" /\ acks'[d] = 0 /\ ~(attempts[d] < MaxAttempts)
      BY <1>1, <1>7, <3>1 DEF RetryAnswer, Do, Success, Failure, ShouldRetry, TypeOK
    <3> QED
      BY <3>1, <3>2, <3>3, WebhooksAssumption DEF LogOK, Opening
  <2> QED
    BY <1>1, <2>1, <2>2, <2>3, ApartKept, LogByLogNext
<1> QED
  BY <1>2, <1>3, <1>4, <1>5, <1>6, <1>7 DEF RetryStep
-----------------------------------------------------------------------------
\* Initially nothing was dispatched.
LEMMA InitDelivery == Init => DeliveryInv
<1> SUFFICES ASSUME Init PROVE DeliveryInv
  OBVIOUS
<1>1. TypeOK
  BY InitType
<1>2. CreatedOnce /\ OffRecorded
  BY DeliveryPair DEF Init, CreatedOnce, OffRecorded
<1>3. LogInv
  <2>1. WorkerIdle /\ \A d \in Deliveries : LogOK(d)
    BY DEF Init, WorkerIdle, LogOK, Opening, Retrying
  <2> QED
    BY <1>1, <2>1, LogByLog
<1> QED
  BY <1>1, <1>2, <1>3 DEF DeliveryInv, LogInv

\* Every step of the manager and its worker keeps the invariant.
LEMMA NextDelivery == DeliveryInv /\ [Next]_vars => DeliveryInv'
<1> SUFFICES ASSUME DeliveryInv, [Next]_vars PROVE DeliveryInv'
  OBVIOUS
<1>1. TypeOK'
  BY TypeStep DEF DeliveryInv
<1>2. CreatedOnce' /\ OffRecorded' /\ LogInv'
  <2>0. TypeOK /\ CreatedOnce /\ OffRecorded /\ LogInv
    BY DEF DeliveryInv, LogInv
  <2>1. ASSUME NEW h \in Hooks, Manage(h) PROVE CreatedOnce' /\ OffRecorded' /\ LogInv'
    BY <2>1, ManageStep
  <2>2. ASSUME NEW r \in Requests, Dispatch(r) PROVE CreatedOnce' /\ OffRecorded' /\ LogInv'
    BY <2>2, DispatchStep
  <2>3. ASSUME NEW d \in Deliveries, FirstStep(d) \/ RetryDue(d)
        PROVE  CreatedOnce' /\ OffRecorded' /\ LogInv'
    BY <1>1, <2>3, FirstAttemptStep
  <2>4. CASE RetryStep
    BY <1>1, <2>4, RetryWorkerStep
  <2>5. CASE Stop \/ UNCHANGED vars
    <3>1. UNCHANGED <<hook, request, left, born, off, first, status, attempts, worker, batch,
                      cur, sent, acks, intact>>
      BY <2>5 DEF Stop, vars, registry, dispatch, logs, limiter, retry, receiver
    <3> QED
      BY <2>0, <3>1, CreationFrame, LogFrame
  <2>6. CASE WorkerExits
    <3>1. /\ UNCHANGED <<hook, request, left, born, off, first, status, attempts, batch, sent,
                         acks, intact>>
          /\ worker = "select" /\ worker' = "exited"
      BY <2>6 DEF WorkerExits, registry, dispatch, logs, limiter, retry, receiver
    <3>2. WorkerIdle /\ \A e \in Deliveries : LogOK(e)
      BY <2>0, LogByLog
    <3>3. WorkerIdle' /\ \A e \in Deliveries : Apart(e)
      BY <3>1, <3>2 DEF WorkerIdle, Apart, Retrying
    <3> QED
      BY <1>1, <2>0, <3>1, <3>2, <3>3, CreationFrame, ApartKept, LogByLogNext
  <2> QED
    BY <2>1, <2>2, <2>3, <2>4, <2>5, <2>6 DEF Next
<1> QED
  BY <1>1, <1>2 DEF DeliveryInv, LogInv

\* DeliveryInv in every reachable state.
THEOREM DeliveryInvariant == Spec => []DeliveryInv
BY InitDelivery, NextDelivery, PTL DEF Spec

\* sendWebhookWithDeliveryLog and RetryDelivery together call the receiver at
\* most once per counted attempt, read its 2xx at most once, and only a retry
\* delivers an event without its data, for any number of webhooks and events.
THEOREM AttemptsAreAccounted == Spec => []AttemptsAccounted
<1>1. DeliveryInv => AttemptsAccounted
  BY DEF DeliveryInv
<1> QED
  BY <1>1, DeliveryInvariant, PTL

\* The retry worker marks a delivery failed before its last attempt only when
\* its webhook was deleted or deactivated since the event was dispatched.
THEOREM GivingUpIsJustified == Spec => []GiveUpJustified
<1>1. DeliveryInv => GiveUpJustified
  BY DEF DeliveryInv
<1> QED
  BY <1>1, DeliveryInvariant, PTL

\* One step leaves a log that succeeded or failed as it is, a retry from a
\* stale list of pending retries included.
LEMMA CompletedStep ==
    ASSUME DeliveryInv, Next, NEW e \in Deliveries, status[e] \in Completed
    PROVE  status'[e] = status[e] /\ attempts'[e] = attempts[e]
<1> USE DEF registry, dispatch, logs, limiter, retry, receiver
<1>1. TypeOK /\ ~Opening(e) /\ e \notin batch /\ ~Retrying(e)
  BY DEF DeliveryInv, OneOwner, Completed
<1>2. ASSUME NEW h \in Hooks, Manage(h) PROVE UNCHANGED <<status, attempts>>
  BY <1>2 DEF Manage, RegisterWebhook, UnregisterWebhook, UpdateWebhook, DeactivateWebhook,
              ActivateWebhook, Refill
<1>3. ASSUME NEW r \in Requests, Dispatch(r) PROVE UNCHANGED <<status, attempts>>
  BY <1>3 DEF Dispatch, DispatchBegin, RequestReturns, DispatchHook
<1>4. ASSUME NEW d \in Deliveries, FirstStep(d) \/ RetryDue(d)
      PROVE  status'[e] = status[e] /\ attempts'[e] = attempts[e]
  <2>1. CASE FirstAttempt(d)
    <3>1. d # e
      BY <1>1, <2>1 DEF FirstAttempt, First, Opening
    <3> QED
      BY <1>1, <2>1, <3>1 DEF FirstAttempt, Failure, TypeOK
  <2>2. CASE FirstAnswer(d)
    <3>1. d # e
      BY <1>1, <2>2 DEF FirstAnswer, First, Opening
    <3> QED
      BY <1>1, <2>2, <3>1 DEF FirstAnswer, Do, Success, Failure, TypeOK
  <2>3. CASE FirstUpdate(d) \/ RetryDue(d)
    BY <2>3 DEF FirstUpdate, RetryDue
  <2> QED
    BY <1>4, <2>1, <2>2, <2>3 DEF FirstStep
<1>5. CASE RetryStep
  <2>1. CASE Tick \/ LoopEnds
    BY <2>1 DEF Tick, LoopEnds
  <2>2. ASSUME NEW d \in Deliveries, GiveUp(d) \/ RetryDelivery(d)
        PROVE  status'[e] = status[e] /\ attempts'[e] = attempts[e]
    <3>1. d # e
      BY <1>1, <2>2 DEF GiveUp, RetryDelivery
    <3> QED
      BY <1>1, <2>2, <3>1 DEF GiveUp, RetryDelivery, Failure, TypeOK
  <2>3. ASSUME NEW d \in Deliveries, RetryAnswer(d)
        PROVE  status'[e] = status[e] /\ attempts'[e] = attempts[e]
    <3>1. d # e
      BY <1>1, <2>3 DEF RetryAnswer, Retrying
    <3> QED
      BY <1>1, <2>3, <3>1 DEF RetryAnswer, Do, Success, Failure, TypeOK
  <2> QED
    BY <1>5, <2>1, <2>2, <2>3 DEF RetryStep
<1>6. CASE Stop \/ WorkerExits
  BY <1>6 DEF Stop, WorkerExits
<1> QED
  BY <1>2, <1>3, <1>4, <1>5, <1>6 DEF Next

\* A delivery log that reached success or failed is never changed again.
THEOREM CompletedStaysFinal == Spec => CompletedIsFinal
<1>1. DeliveryInv /\ [Next]_vars =>
        [\A d \in Deliveries : status[d] \in Completed =>
             status'[d] = status[d] /\ attempts'[d] = attempts[d]]_vars
  BY CompletedStep
<1> QED
  BY <1>1, DeliveryInvariant, PTL DEF Spec, CompletedIsFinal

-----------------------------------------------------------------------------
(* The refinement of DeliveryPromise.                                      *)
Phases == [d \in Deliveries |-> PhaseOf(d)]
Callings == [d \in Deliveries |-> Calling(d)]
promiseVars == <<Phases, Callings, attempts, sent, off>>

\* A step that concerns d leaves the promise about the others alone.
Elsewhere(d) ==
    \A e \in Deliveries \ {d} : PhaseOf(e)' = PhaseOf(e) /\ Calling(e)' = Calling(e)

\* The maps of the promise after a step that concerns one delivery.
LEMMA PromiseMoves ==
    ASSUME NEW d \in Deliveries, Elsewhere(d)
    PROVE  /\ Phases' = [Phases EXCEPT ![d] = PhaseOf(d)']
           /\ Callings' = [Callings EXCEPT ![d] = Calling(d)']
BY DEF Elsewhere, Phases, Callings

\* A step that concerns no delivery.
LEMMA PromiseRests ==
    ASSUME \A d \in Deliveries : PhaseOf(d)' = PhaseOf(d) /\ Calling(d)' = Calling(d),
           UNCHANGED <<attempts, sent, off>>
    PROVE  UNCHANGED promiseVars
BY DEF Phases, Callings, promiseVars

\* A log is created for an event and a webhook.
LEMMA PromiseCreate ==
    ASSUME NEW d \in Deliveries, Elsewhere(d), PhaseOf(d) = "none", PhaseOf(d)' = "trying",
           Calling(d)' = Calling(d), UNCHANGED <<attempts, sent, off>>
    PROVE  Promise!Next
<1>1. /\ Phases[d] = "none" /\ Phases' = [Phases EXCEPT ![d] = "trying"]
  BY PromiseMoves DEF Phases
<1>2. Callings' = Callings
  BY DEF Callings, Elsewhere
<1>3. Promise!Create(d)
  BY <1>1, <1>2 DEF Promise!Create, Phases, Callings
<1> QED
  BY <1>3 DEF Promise!Next

\* A request is sent: no other is under way, and an attempt was left.
LEMMA PromiseCall ==
    ASSUME NEW d \in Deliveries, Elsewhere(d), PhaseOf(d) = "trying", PhaseOf(d)' = "trying",
           ~Calling(d), Calling(d)', attempts[d] < MaxAttempts,
           attempts' = [attempts EXCEPT ![d] = @ + 1], UNCHANGED <<sent, off>>
    PROVE  Promise!Next
<1>1. Calling(d)' = TRUE
  BY DEF Calling
<1>2. Callings' = [Callings EXCEPT ![d] = TRUE] /\ ~Callings[d]
  BY <1>1, PromiseMoves DEF Callings
<1>3. Phases' = Phases /\ Phases[d] = "trying"
  BY DEF Phases, Elsewhere
<1>4. Promise!Call(d)
  BY <1>2, <1>3 DEF Promise!Call, Promise!Open, Phases, Callings
<1> QED
  BY <1>4 DEF Promise!Next

\* The rate limit stops an attempt.
LEMMA PromiseLimit ==
    ASSUME NEW d \in Deliveries, Elsewhere(d), PhaseOf(d) = "trying",
           PhaseOf(d)' = Promise!InVain(attempts[d] + 1),
           ~Calling(d), Calling(d)' = Calling(d), attempts[d] < MaxAttempts,
           attempts' = [attempts EXCEPT ![d] = @ + 1], UNCHANGED <<sent, off>>
    PROVE  Promise!Next
<1>1. /\ Phases[d] = "trying"
      /\ Phases' = [Phases EXCEPT ![d] = Promise!InVain(attempts[d] + 1)]
  BY PromiseMoves DEF Phases
<1>2. Callings' = Callings /\ ~Callings[d]
  BY DEF Callings, Elsewhere
<1>3. Promise!Limit(d)
  BY <1>1, <1>2 DEF Promise!Limit, Promise!Open, Phases, Callings
<1> QED
  BY <1>3 DEF Promise!Next

\* The request under way ends, with or without a 2xx.
LEMMA PromiseAnswer ==
    ASSUME NEW d \in Deliveries, Elsewhere(d), Calling(d), ~Calling(d)',
           \/ PhaseOf(d)' = "delivered" /\ sent' = [sent EXCEPT ![d] = @ + 1]
           \/ /\ PhaseOf(d)' = Promise!InVain(attempts[d])
              /\ sent' \in {sent, [sent EXCEPT ![d] = @ + 1]},
           UNCHANGED <<attempts, off>>
    PROVE  Promise!Next
<1>1. Calling(d)' = FALSE
  BY DEF Calling
<1>2. Callings' = [Callings EXCEPT ![d] = FALSE] /\ Callings[d]
  BY <1>1, PromiseMoves DEF Callings
<1>3. Phases' = [Phases EXCEPT ![d] = PhaseOf(d)']
  BY PromiseMoves
<1>4. Promise!Answer(d)
  BY <1>2, <1>3 DEF Promise!Answer, Phases, Callings
<1> QED
  BY <1>4 DEF Promise!Next

\* The worker gives up a delivery whose webhook was switched off.
LEMMA PromiseAbandon ==
    ASSUME NEW d \in Deliveries, Elsewhere(d), PhaseOf(d) = "trying", PhaseOf(d)' = "abandoned",
           ~Calling(d), Calling(d)' = Calling(d), d \in off, UNCHANGED <<attempts, sent, off>>
    PROVE  Promise!Next
<1>1. Phases[d] = "trying" /\ Phases' = [Phases EXCEPT ![d] = "abandoned"]
  BY PromiseMoves DEF Phases
<1>2. Callings' = Callings /\ ~Callings[d]
  BY DEF Callings, Elsewhere
<1>3. Promise!Abandon(d)
  BY <1>1, <1>2 DEF Promise!Abandon, Phases, Callings
<1> QED
  BY <1>3 DEF Promise!Next

\* Registering, switching off and dispatching: logs are created and revoked.
LEMMA RegistryPromise ==
    ASSUME DeliveryInv, NEW h \in Hooks, Manage(h)
    PROVE  Promise!Next \/ UNCHANGED promiseVars
<1> USE DEF registry, dispatch, logs, limiter, retry, receiver
<1>1. UNCHANGED <<status, first, worker, cur, attempts, sent>>
  BY DEF Manage, RegisterWebhook, UnregisterWebhook, UpdateWebhook, DeactivateWebhook,
         ActivateWebhook, Refill
<1>2. \A d \in Deliveries : PhaseOf(d)' = PhaseOf(d) /\ Calling(d)' = Calling(d)
  BY <1>1 DEF PhaseOf, Calling
<1>3. Phases' = Phases /\ Callings' = Callings
  BY <1>2 DEF Phases, Callings
<1>4. UNCHANGED off \/ SwitchedOff(h)
  BY DEF Manage, RegisterWebhook, UnregisterWebhook, UpdateWebhook, DeactivateWebhook,
         ActivateWebhook, Refill
<1>5. CASE SwitchedOff(h)
  <2> DEFINE ds == {d \in Deliveries : d[2] = h /\ born[d] # 0}
  <2>1. \A d \in ds : Phases[d] # "none"
    BY DEF DeliveryInv, CreatedOnce, Phases, PhaseOf
  <2>2. ds \in SUBSET {d \in Deliveries : Phases[d] # "none"} /\ off' = off \cup ds
    BY <1>5, <2>1 DEF SwitchedOff
  <2>3. Promise!Revoke
    BY <1>1, <1>3, <2>2 DEF Promise!Revoke, Phases, Callings
  <2> QED
    BY <2>3 DEF Promise!Next
<1> QED
  BY <1>1, <1>2, <1>4, <1>5, PromiseRests

\* A range loop creates a log, or nothing happens to any.
LEMMA DispatchPromise ==
    ASSUME DeliveryInv, NEW r \in Requests, Dispatch(r)
    PROVE  Promise!Next \/ UNCHANGED promiseVars
<1> USE DEF registry, dispatch, logs, limiter, retry, receiver
<1>1. UNCHANGED <<status, worker, cur, attempts, sent, off>>
  BY DEF Dispatch, DispatchBegin, RequestReturns, DispatchHook
<1>2. CASE UNCHANGED first
  <2>1. \A d \in Deliveries : PhaseOf(d)' = PhaseOf(d) /\ Calling(d)' = Calling(d)
    BY <1>1, <1>2 DEF PhaseOf, Calling
  <2> QED
    BY <1>1, <2>1, PromiseRests
<1>3. ASSUME NEW h \in Hooks, DispatchHook(r, h), first' = [first EXCEPT ![<<r, h>>] = "spawned"]
      PROVE  Promise!Next
  <2> DEFINE d0 == <<r, h>>
  <2>1. d0 \in Deliveries /\ first[d0] = "none" /\ status[d0] = "pending"
    BY <1>3, DeliveryPair DEF DispatchHook, DeliveryInv, CreatedOnce, OneOwner, Opening
  <2>2. first'[d0] = "spawned" /\ \A e \in Deliveries \ {d0} : first'[e] = first[e]
    BY <1>3, <2>1 DEF DeliveryInv, TypeOK
  <2> HIDE DEF d0
  <2>3. PhaseOf(d0) = "none" /\ PhaseOf(d0)' = "trying" /\ Calling(d0)' = Calling(d0)
    BY <1>1, <2>1, <2>2 DEF PhaseOf, Calling
  <2>4. Elsewhere(d0)
    BY <1>1, <2>2 DEF Elsewhere, PhaseOf, Calling
  <2> QED
    BY <1>1, <2>1, <2>3, <2>4, PromiseCreate
<1> QED
  BY <1>2, <1>3 DEF Dispatch, DispatchBegin, RequestReturns, DispatchHook

\* What Failure makes of the phase.
LEMMA FailurePhase ==
    ASSUME TypeOK, NEW d \in Deliveries, NEW n \in 1..MaxAttempts, Failure(d, n), first'[d] # "none"
    PROVE  PhaseOf(d)' = Promise!InVain(n)
<1>1. status'[d] = IF n < MaxAttempts THEN "retrying" ELSE "failed"
  BY DEF TypeOK, Failure, ShouldRetry
<1>2. n < MaxAttempts \/ n = MaxAttempts
  BY WebhooksAssumption
<1> QED
  BY <1>1, <1>2 DEF PhaseOf, Promise!InVain

\* The goroutine of the first attempt, and the passing of the retry time.
LEMMA FirstPromise ==
    ASSUME DeliveryInv, NEW d \in Deliveries, FirstStep(d) \/ RetryDue(d)
    PROVE  Promise!Next \/ UNCHANGED promiseVars
<1> USE DEF registry, dispatch, logs, limiter, retry, receiver
<1>0. TypeOK /\ LogInv /\ LogOK(d) /\ 1 \in 1..MaxAttempts /\ 0 < MaxAttempts
  BY LogByLog, WebhooksAssumption DEF DeliveryInv, LogInv
<1>1. CASE FirstAttempt(d)
  <2>1. /\ first[d] = "spawned" /\ status[d] = "pending" /\ attempts[d] = 0
        /\ ~Calling(d) /\ PhaseOf(d) = "trying"
    BY <1>0, <1>1 DEF FirstAttempt, First, LogOK, Opening, Retrying, Calling, PhaseOf
  <2>2. /\ attempts' = [attempts EXCEPT ![d] = @ + 1] /\ UNCHANGED <<sent, off, worker, cur>>
        /\ \A e \in Deliveries \ {d} : first'[e] = first[e] /\ status'[e] = status[e]
    BY <1>0, <1>1 DEF FirstAttempt, First, Failure, TypeOK
  <2>3. Elsewhere(d)
    BY <2>2 DEF Elsewhere, PhaseOf, Calling
  <2>4. CASE First(d, "spawned", "sending") /\ UNCHANGED status
    <3>1. first'[d] = "sending" /\ status'[d] = "pending"
      BY <1>0, <2>1, <2>4 DEF First, TypeOK
    <3>2. Calling(d)' /\ PhaseOf(d)' = "trying"
      BY <3>1 DEF Calling, PhaseOf
    <3> QED
      BY <1>0, <2>1, <2>2, <2>3, <3>2, PromiseCall
  <2>5. CASE First(d, "spawned", "update") /\ Failure(d, attempts[d] + 1)
    <3>1. first'[d] = "update" /\ attempts[d] + 1 = 1
      BY <1>0, <2>1, <2>5 DEF First, TypeOK
    <3>2. PhaseOf(d)' = Promise!InVain(attempts[d] + 1)
      BY <1>0, <2>5, <3>1, FailurePhase
    <3>3. Calling(d)' = Calling(d)
      BY <2>1, <2>2, <3>1 DEF Calling
    <3> QED
      BY <1>0, <2>1, <2>2, <2>3, <3>2, <3>3, PromiseLimit
  <2> QED
    BY <1>1, <2>4, <2>5 DEF FirstAttempt
<1>2. CASE FirstAnswer(d)
  <2>1. first[d] = "sending" /\ attempts[d] = 1 /\ Calling(d) /\ ~Retrying(d)
    BY <1>0, <1>2 DEF FirstAnswer, First, LogOK, Opening, Calling
  <2>2. /\ UNCHANGED <<attempts, off, worker, cur>> /\ first'[d] = "update"
        /\ \A e \in Deliveries \ {d} : first'[e] = first[e] /\ status'[e] = status[e]
    BY <1>0, <1>2 DEF FirstAnswer, First, Do, Success, Failure, TypeOK
  <2>3. Elsewhere(d) /\ ~Calling(d)'
    BY <2>1, <2>2 DEF Elsewhere, PhaseOf, Calling, Retrying
  <2>4. \/ Success(d) /\ sent' = [sent EXCEPT ![d] = @ + 1]
        \/ Failure(d, 1) /\ sent' \in {sent, [sent EXCEPT ![d] = @ + 1]}
    BY <1>2, <2>1 DEF FirstAnswer, Do
  <2>5. Success(d) => PhaseOf(d)' = "delivered"
    BY <1>0, <2>2 DEF Success, PhaseOf, TypeOK
  <2>6. Failure(d, 1) => PhaseOf(d)' = Promise!InVain(attempts[d])
    BY <1>0, <2>1, <2>2, FailurePhase
  <2> QED
    BY <2>1, <2>2, <2>3, <2>4, <2>5, <2>6, PromiseAnswer
<1>3. CASE FirstUpdate(d)
  <2>1. /\ UNCHANGED <<attempts, sent, off, status, worker, cur>>
        /\ first[d] = "update" /\ first'[d] = "done"
        /\ \A e \in Deliveries \ {d} : first'[e] = first[e]
    BY <1>0, <1>3 DEF FirstUpdate, First, TypeOK
  <2>2. \A e \in Deliveries : PhaseOf(e)' = PhaseOf(e) /\ Calling(e)' = Calling(e)
    BY <2>1 DEF PhaseOf, Calling
  <2> QED
    BY <2>1, <2>2, PromiseRests
<1>4. CASE RetryDue(d)
  <2>1. UNCHANGED <<attempts, sent, off, status, worker, cur, first>>
    BY <1>4 DEF RetryDue
  <2>2. \A e \in Deliveries : PhaseOf(e)' = PhaseOf(e) /\ Calling(e)' = Calling(e)
    BY <2>1 DEF PhaseOf, Calling
  <2> QED
    BY <2>1, <2>2, PromiseRests
<1> QED
  BY <1>1, <1>2, <1>3, <1>4 DEF FirstStep

\* The retry worker, from a list of logs that may have changed since.
LEMMA RetryPromise ==
    ASSUME DeliveryInv, RetryStep
    PROVE  Promise!Next \/ UNCHANGED promiseVars
<1> USE DEF registry, dispatch, logs, limiter, retry, receiver
<1>0. TypeOK /\ LogInv /\ \A d \in Deliveries : LogOK(d)
  BY LogByLog DEF DeliveryInv, LogInv
<1>1. CASE Tick \/ LoopEnds
  <2>1. UNCHANGED <<attempts, sent, off, status, first>> /\ worker # "sending" /\ worker' # "sending"
    BY <1>1 DEF Tick, LoopEnds
  <2>2. \A e \in Deliveries : PhaseOf(e)' = PhaseOf(e) /\ Calling(e)' = Calling(e)
    BY <2>1 DEF PhaseOf, Calling
  <2> QED
    BY <2>1, <2>2, PromiseRests
<1>2. ASSUME NEW d \in Deliveries, d \in batch, worker = "loop"
      PROVE  /\ status[d] = "retrying" /\ first[d] \notin {"none", "sending"} /\ ~Calling(d)
             /\ PhaseOf(d) = "trying" /\ attempts[d] < MaxAttempts
             /\ attempts[d] + 1 \in 1..MaxAttempts
  <2>1. /\ status[d] = "retrying" /\ first[d] \notin {"none", "sending"} /\ ~Retrying(d)
        /\ attempts[d] \in 1..MaxAttempts /\ attempts[d] < MaxAttempts
    BY <1>0, <1>2 DEF LogOK, Opening, Retrying
  <2> QED
    BY <2>1, WebhooksAssumption DEF Retrying, Calling, PhaseOf
<1>3. ASSUME NEW d \in Deliveries, GiveUp(d) PROVE Promise!Next
  <2>1. d \in batch /\ worker = "loop" /\ hook[d[2]] # "active"
    BY <1>3 DEF GiveUp
  <2>2. d \in off
    BY <1>2, <2>1 DEF DeliveryInv, OffRecorded
  <2>3. /\ UNCHANGED <<attempts, sent, off, first, worker, cur>> /\ status'[d] = "failed"
        /\ \A e \in Deliveries \ {d} : status'[e] = status[e]
    BY <1>0, <1>3 DEF GiveUp, TypeOK
  <2>4. Elsewhere(d) /\ PhaseOf(d)' = "abandoned" /\ Calling(d)' = Calling(d)
    BY <1>2, <2>1, <2>3 DEF Elsewhere, PhaseOf, Calling
  <2> QED
    BY <1>2, <2>1, <2>2, <2>3, <2>4, PromiseAbandon
<1>4. ASSUME NEW d \in Deliveries, RetryDelivery(d) PROVE Promise!Next
  <2>1. d \in batch /\ worker = "loop"
    BY <1>4 DEF RetryDelivery
  <2>2. /\ attempts' = [attempts EXCEPT ![d] = @ + 1] /\ UNCHANGED <<sent, off, first>>
        /\ \A e \in Deliveries \ {d} : status'[e] = status[e]
    BY <1>0, <1>4 DEF RetryDelivery, Failure, TypeOK
  <2>3. CASE worker' = "sending" /\ cur' = d /\ UNCHANGED status
    <3>1. Elsewhere(d) /\ Calling(d)' /\ PhaseOf(d)' = "trying"
      BY <1>2, <2>1, <2>2, <2>3 DEF Elsewhere, PhaseOf, Calling
    <3> QED
      BY <1>2, <2>1, <2>2, <3>1, PromiseCall
  <2>4. CASE Failure(d, attempts[d] + 1) /\ UNCHANGED <<worker, cur>>
    <3>1. Elsewhere(d) /\ Calling(d)' = Calling(d)
      BY <1>2, <2>1, <2>2, <2>4 DEF Elsewhere, PhaseOf, Calling
    <3>2. PhaseOf(d)' = Promise!InVain(attempts[d] + 1)
      BY <1>0, <1>2, <2>1, <2>2, <2>4, FailurePhase
    <3> QED
      BY <1>2, <2>1, <2>2, <3>1, <3>2, PromiseLimit
  <2> QED
    BY <1>4, <2>3, <2>4 DEF RetryDelivery
<1>5. ASSUME NEW d \in Deliveries, RetryAnswer(d) PROVE Promise!Next
  <2>1. /\ worker = "sending" /\ cur = d /\ Calling(d) /\ first[d] \notin {"none", "sending"}
        /\ attempts[d] \in 1..MaxAttempts
    BY <1>0, <1>5 DEF RetryAnswer, LogOK, Opening, Retrying, Calling
  <2>2. /\ UNCHANGED <<attempts, off, first>> /\ worker' = "loop"
        /\ \A e \in Deliveries \ {d} : status'[e] = status[e]
    BY <1>0, <1>5 DEF RetryAnswer, Do, Success, Failure, TypeOK
  <2>3. Elsewhere(d) /\ ~Calling(d)'
    BY <2>1, <2>2 DEF Elsewhere, PhaseOf, Calling
  <2>4. \/ Success(d) /\ sent' = [sent EXCEPT ![d] = @ + 1]
        \/ Failure(d, attempts[d]) /\ sent' \in {sent, [sent EXCEPT ![d] = @ + 1]}
    BY <1>5 DEF RetryAnswer, Do
  <2>5. Success(d) => PhaseOf(d)' = "delivered"
    BY <1>0, <2>1, <2>2 DEF Success, PhaseOf, TypeOK
  <2>6. Failure(d, attempts[d]) => PhaseOf(d)' = Promise!InVain(attempts[d])
    BY <1>0, <2>1, <2>2, FailurePhase
  <2> QED
    BY <2>1, <2>2, <2>3, <2>4, <2>5, <2>6, PromiseAnswer
<1> QED
  BY <1>1, <1>3, <1>4, <1>5 DEF RetryStep

\* Every step of the manager is a step of the promise, or none.
LEMMA PromiseStep ==
    ASSUME DeliveryInv, [Next]_vars
    PROVE  Promise!Next \/ UNCHANGED promiseVars
<1>1. CASE Stop \/ WorkerExits \/ UNCHANGED vars
  <2>1. /\ UNCHANGED <<attempts, sent, off, status, first, cur>>
        /\ worker' = worker \/ (worker # "sending" /\ worker' # "sending")
    BY <1>1 DEF Stop, WorkerExits, vars, registry, dispatch, logs, limiter, retry, receiver
  <2>2. \A e \in Deliveries : PhaseOf(e)' = PhaseOf(e) /\ Calling(e)' = Calling(e)
    BY <2>1 DEF PhaseOf, Calling
  <2> QED
    BY <2>1, <2>2, PromiseRests
<1> QED
  BY <1>1, RegistryPromise, DispatchPromise, FirstPromise, RetryPromise DEF Next

\* The manager implements DeliveryPromise, for any number of webhooks, events,
\* attempts and management requests: one request at a time, a bound of
\* attempts, one end, and none given up early without a reason.
\* pkg/webhooks/retry.go:143, webhooks.go:191
THEOREM DeliveriesKeepPromise == Spec => ImplementsPromise
<1>1. Init => Promise!Init
  <2> SUFFICES ASSUME Init PROVE Promise!Init
    OBVIOUS
  <2>1. \A d \in Deliveries : PhaseOf(d) = "none" /\ Calling(d) = FALSE
    BY DEF Init, PhaseOf, Calling
  <2> QED
    BY <2>1 DEF Init, Promise!Init
<1>2. DeliveryInv /\ [Next]_vars => [Promise!Next]_promiseVars
  BY PromiseStep
<1> QED
  BY <1>1, <1>2, DeliveryInvariant, PTL
  DEF Spec, ImplementsPromise, Promise!Spec, promiseVars, Phases, Callings

-----------------------------------------------------------------------------
(* Shutdown.                                                               *)
WriterState == {"none", "running", "done", "failed"}
LifeType ==
    /\ writer \in [Emitters -> [Sinks -> WriterState]]
    /\ errChan \in [open : BOOLEAN, n : Nat]
    /\ outer \in [Emitters -> {"none", "serving", "returned"}]
    /\ inner \in [Emitters -> {"none", "run", "logged", "written", "stuck", "gone"}]
    /\ func \in [Funcs -> {"none", "running", "done", "failed"}]

\* The server's goroutines are over once the functions run, and the logger is
\* closed by one of them; nobody writes after Close but a late handler.
OrphanInv ==
    /\ LifeType
    /\ \A e \in Emitters : inner[e] = "run" => outer[e] # "none"
    /\ manager = "serving" => func["audit"] = "none"
    /\ manager = "server" => func["audit"] = "none"
    /\ func["audit"] # "none" => \A e \in Emitters : outer[e] # "serving"
    /\ ~errChan.open => func["audit"] # "none"
    /\ ~errChan.open /\ late = {} => Working = {}
    /\ AbortNeedsOrphan

\* What a request does to its goroutines.
LEMMA BecomeFacts ==
    ASSUME LifeType, NEW e \in Emitters, NEW o \in {"none", "serving", "returned"},
           NEW i \in {"none", "run", "logged", "written", "stuck", "gone"}, NEW code,
           Become(e, o, i, code)
    PROVE  /\ outer' \in [Emitters -> {"none", "serving", "returned"}]
           /\ inner' \in [Emitters -> {"none", "run", "logged", "written", "stuck", "gone"}]
           /\ outer'[e] = o /\ inner'[e] = i
           /\ \A f \in Emitters \ {e} : outer'[f] = outer[f] /\ inner'[f] = inner[f]
BY DEF Become, LifeType

\* Requests that log nothing: a goroutine that serves goes on or ends, and one
\* begins only while the manager serves.
LEMMA RequestKeeps ==
    ASSUME OrphanInv, NEW e \in Emitters, Unlogged, Unmanaged, UNCHANGED late,
           NEW o \in {"none", "serving", "returned"},
           NEW i \in {"none", "run", "logged", "written", "stuck", "gone"}, NEW code,
           Become(e, o, i, code),
           o = "serving" => outer[e] = "serving" \/ manager = "serving",
           i = "run" => o # "none"
    PROVE  OrphanInv'
<1>1. /\ LifeType /\ UNCHANGED <<writer, errChan, aborted, manager, func, late>>
  BY DEF OrphanInv, Unlogged, Unmanaged
<1>2. /\ outer' \in [Emitters -> {"none", "serving", "returned"}]
      /\ inner' \in [Emitters -> {"none", "run", "logged", "written", "stuck", "gone"}]
      /\ outer'[e] = o /\ inner'[e] = i
      /\ \A f \in Emitters \ {e} : outer'[f] = outer[f] /\ inner'[f] = inner[f]
  BY <1>1, BecomeFacts
<1>3. LifeType'
  BY <1>1, <1>2 DEF LifeType
<1>4. /\ \A f \in Emitters : inner'[f] = "run" => outer'[f] # "none"
      /\ func'["audit"] # "none" => \A f \in Emitters : outer'[f] # "serving"
  BY <1>1, <1>2 DEF OrphanInv
<1>5. Working' = Working
  BY <1>1 DEF Working
<1> QED
  BY <1>1, <1>3, <1>4, <1>5 DEF OrphanInv, AbortNeedsOrphan

LEMMA RequestStepKeeps ==
    ASSUME OrphanInv, NEW e \in Emitters, RequestStep(e)
    PROVE  OrphanInv'
<1>0. outer[e] \in {"none", "serving", "returned"}
      /\ inner[e] \in {"none", "run", "logged", "written", "stuck", "gone"}
  BY DEF OrphanInv, LifeType
<1>1. CASE HandlerLogs(e)
  <2>1. /\ Become(e, outer[e], "logged", 0) /\ inner[e] = "run"
        /\ UNCHANGED <<errChan, aborted, manager, func>>
        /\ late' = IF outer[e] = "returned" THEN late \cup {e} ELSE late
        /\ writer' = [writer EXCEPT ![e] =
                [s \in Sinks |-> IF async \/ s = "file" THEN "running" ELSE "none"]]
    BY <1>1 DEF HandlerLogs, Unmanaged, LogSuccess, LogFailure, LogDenied, Log
  <2>2. /\ outer' \in [Emitters -> {"none", "serving", "returned"}]
        /\ inner' \in [Emitters -> {"none", "run", "logged", "written", "stuck", "gone"}]
        /\ inner'[e] = "logged" /\ \A f \in Emitters : outer'[f] = outer[f]
        /\ \A f \in Emitters \ {e} : inner'[f] = inner[f]
    BY <1>0, <2>1, BecomeFacts DEF OrphanInv
  <2>3. LifeType'
    BY <2>1, <2>2 DEF OrphanInv, LifeType, WriterState
  <2>4. ~errChan.open => late' # {}
    BY <1>0, <2>1 DEF OrphanInv
  <2>5. AbortNeedsOrphan'
    BY <2>1 DEF OrphanInv, AbortNeedsOrphan
  <2> QED
    BY <2>1, <2>2, <2>3, <2>4, <2>5 DEF OrphanInv
<1>2. CASE Accept(e)
  BY <1>2, RequestKeeps DEF Accept
<1>3. CASE CORSMiddleware(e) \/ ContentTypeMiddleware(e)
  BY <1>3, RequestKeeps DEF CORSMiddleware, ContentTypeMiddleware
<1>4. CASE HandlerWrites(e)
  BY <1>0, <1>4, RequestKeeps DEF HandlerWrites
<1>5. CASE HandlerReturns(e) \/ RecoveryMiddleware(e)
  BY <1>5, RequestKeeps DEF HandlerReturns, RecoveryMiddleware
<1>6. CASE TimeoutMiddleware(e)
  BY <1>0, <1>6, RequestKeeps DEF TimeoutMiddleware
<1>7. CASE HandlerPanics(e)
  BY <1>0, <1>7, RequestKeeps DEF HandlerPanics
<1>8. CASE RequestTimeout(e)
  BY <1>0, <1>8, RequestKeeps DEF RequestTimeout
<1> QED
  BY <1>1, <1>2, <1>3, <1>4, <1>5, <1>6, <1>7, <1>8 DEF RequestStep

\* A logger of one emitter and one sink: an error is fatal only after Close.
LEMMA WriterKeeps ==
    ASSUME OrphanInv, WriterStep
    PROVE  OrphanInv'
<1>1. PICK e \in Emitters : FileLog(e) \/ DBLog(e)
  BY DEF WriterStep
<1>2. PICK s \in Sinks : writer[e][s] = "running" /\ (Succeed(e, s) \/ Fail(e, s))
  BY <1>1 DEF FileLog, DBLog, Sinks
<1>3. UNCHANGED <<outer, inner, manager, func, late>> /\ LifeType
  BY DEF WriterStep, OrphanInv
<1>4. writer' \in [Emitters -> [Sinks -> WriterState]]
  <2>1. writer[e] \in [Sinks -> WriterState]
    BY <1>3 DEF LifeType
  <2>2. logSync(e, s) \in [Sinks -> WriterState]
    BY <2>1 DEF logSync, WriterState
  <2>3. [logSync(e, s) EXCEPT ![s] = "failed"] \in [Sinks -> WriterState]
    BY <2>2 DEF WriterState
  <2> QED
    BY <1>2, <1>3, <2>2, <2>3 DEF Succeed, Fail, LifeType
<1>5. /\ errChan' \in [open : BOOLEAN, n : Nat] /\ errChan'.open = errChan.open
  <2>1. errChan \in [open : BOOLEAN, n : Nat]
    BY <1>3 DEF LifeType
  <2>2. \/ errChan' = errChan
        \/ errChan' = [errChan EXCEPT !.n = IF @ < Cardinality(Sinks) THEN @ + 1 ELSE @]
    BY <1>2 DEF Succeed, Fail
  <2> QED
    BY <2>1, <2>2
<1>6. <<e, s>> \in Working
  BY <1>2 DEF Working
<1>7. ~errChan.open => late # {}
  BY <1>6 DEF OrphanInv
<1>8. AbortNeedsOrphan'
  BY <1>2, <1>3, <1>7 DEF Succeed, Fail, OrphanInv, AbortNeedsOrphan
<1>9. LifeType'
  BY <1>3, <1>4, <1>5 DEF LifeType
<1> QED
  BY <1>3, <1>5, <1>7, <1>8, <1>9 DEF OrphanInv

\* The manager: the functions start once nothing is served.
LEMMA ShutdownKeeps ==
    ASSUME OrphanInv, ShutdownStep
    PROVE  OrphanInv'
<1>0. LifeType /\ UNCHANGED <<writer, outer, inner, aborted, late>>
  BY DEF OrphanInv, ShutdownStep, WaitForShutdown, Expire, ServerShutdown, CloseAudit, Await,
         RunFunction, Unlogged, Unserved, Close
<1>w. Working' = Working
  BY <1>0 DEF Working
<1>1. CASE WaitForShutdown \/ Expire
  BY <1>0, <1>1, <1>w DEF WaitForShutdown, Expire, Unlogged, OrphanInv, LifeType, AbortNeedsOrphan
<1>2. CASE ServerShutdown
  <2>1. CASE StartFunctions /\ \A e \in Emitters : outer[e] # "serving"
    <3>1. LifeType' /\ manager' = "functions" /\ errChan' = errChan
      BY <1>0, <1>2, <2>1 DEF StartFunctions, LifeType, ServerShutdown, Unlogged
    <3>2. func'["audit"] = "running"
      BY <2>1, LifecycleAssumption DEF StartFunctions
    <3> QED
      BY <1>0, <1>w, <2>1, <3>1, <3>2 DEF OrphanInv, AbortNeedsOrphan
  <2>2. CASE manager' = "returned" /\ UNCHANGED func
    BY <1>0, <1>2, <1>w, <2>2 DEF ServerShutdown, Unlogged, OrphanInv, LifeType, AbortNeedsOrphan
  <2> QED
    BY <1>2, <2>1, <2>2 DEF ServerShutdown
<1>3. CASE CloseAudit
  <2>1. /\ func["audit"] = "running" /\ Working = {} /\ manager' = manager
        /\ errChan' = [errChan EXCEPT !.open = FALSE]
        /\ func' = [func EXCEPT !["audit"] = "done"]
    BY <1>3 DEF CloseAudit, Close
  <2>2. LifeType' /\ func'["audit"] = "done"
    BY <1>0, <2>1, LifecycleAssumption DEF LifeType
  <2> QED
    BY <1>0, <1>w, <2>1, <2>2 DEF OrphanInv, AbortNeedsOrphan
<1>4. CASE Await
  BY <1>0, <1>4, <1>w DEF Await, Unlogged, OrphanInv, LifeType, AbortNeedsOrphan
<1>5. ASSUME NEW f \in Funcs, RunFunction(f) PROVE OrphanInv'
  <2>1. /\ func' \in [Funcs -> {"none", "running", "done", "failed"}]
        /\ func'["audit"] = func["audit"] /\ UNCHANGED <<manager, errChan>>
    BY <1>0, <1>5, LifecycleAssumption DEF RunFunction, LifeType, Unlogged
  <2>2. LifeType'
    BY <1>0, <2>1 DEF LifeType
  <2> QED
    BY <1>0, <1>w, <2>1, <2>2 DEF OrphanInv, AbortNeedsOrphan
<1> QED
  BY <1>1, <1>2, <1>3, <1>4, <1>5 DEF ShutdownStep

\* The process is ended by a send on the closed channel of errors only where a
\* handler logged after its request had timed out, for any number of handlers
\* and shutdown functions.
THEOREM AbortsNeedOrphans ==
    LifecycleInit /\ [][LifecycleNext]_lifeVars => []AbortNeedsOrphan
<1>1. LifecycleInit => OrphanInv
  BY LifecycleAssumption
     DEF LifecycleInit, AuditInit, OrphanInv, LifeType, WriterState, AbortNeedsOrphan
<1>2. OrphanInv /\ [LifecycleNext]_lifeVars => OrphanInv'
  <2> SUFFICES ASSUME OrphanInv, [LifecycleNext]_lifeVars PROVE OrphanInv'
    OBVIOUS
  <2>1. CASE UNCHANGED <<writer, errChan, outer, inner, func, manager, aborted, late>>
    BY <2>1 DEF OrphanInv, LifeType, AbortNeedsOrphan, Working
  <2>2. CASE Readiness \/ UNCHANGED lifeVars
    BY <2>1, <2>2 DEF Readiness, Unlogged, lifeVars, logVars
  <2> QED
    BY <2>2, RequestStepKeeps, WriterKeeps, ShutdownKeeps DEF LifecycleNext
<1>3. OrphanInv => AbortNeedsOrphan
  BY DEF OrphanInv
<1> QED
  BY <1>1, <1>2, <1>3, PTL

-----------------------------------------------------------------------------
(* Rotation: which files cleanupOldFiles keeps.                            *)
LEMMA LeastName ==
    ASSUME NEW S \in SUBSET Nat, S # {}
    PROVE  \E m \in S : \A n \in S : m =< n
<1>1. PICK m \in S : \A n \in S : ~(<<n, m>> \in OpToRel(<, Nat))
  BY NatLessThanWellFounded, WFMin
<1>2. \A n \in S : n < m => <<n, m>> \in OpToRel(<, Nat)
  BY DEF OpToRel
<1>3. \A n \in S : ~(n < m)
  BY <1>1, <1>2
<1>4. \A n \in S : m =< n
  BY <1>3
<1> QED
  BY <1>4

\* The files that are kept are the newest ones, and no more than n of them.
LEMMA NewestKept ==
    ASSUME NEW S \in SUBSET Nat, IsFiniteSet(S), NEW n \in Nat \ {0}
    PROVE  /\ \A g \in Oldest(S, n), s \in S \ Oldest(S, n) : g < s
           /\ \A x \in S : (\A s \in S : s =< x) => x \notin Oldest(S, n)
           /\ Cardinality(S \ Oldest(S, n)) =< n
<1> DEFINE Above(x) == {t \in S : t > x}
<1>0. \A t \in S : t \in Nat
  OBVIOUS
<1>1. \A x \in S : IsFiniteSet(Above(x)) /\ Cardinality(Above(x)) \in Nat
  BY FS_Subset, FS_CardinalityType
<1>2. \A x \in S : x \in Oldest(S, n) <=> Cardinality(Above(x)) >= n
  BY DEF Oldest
<1>3. ASSUME NEW g \in Oldest(S, n), NEW s \in S \ Oldest(S, n) PROVE g < s
  <2>1. g \in S /\ g \in Nat /\ s \in Nat
    BY DEF Oldest
  <2>2. SUFFICES ASSUME s =< g PROVE FALSE
    BY <2>1
  <2>3. Above(g) \subseteq Above(s)
    <3>1. \A t \in S : t > g => t > s
      BY <1>0, <2>1, <2>2
    <3> QED
      BY <3>1
  <2>4. Cardinality(Above(g)) =< Cardinality(Above(s))
    BY <1>1, <2>3, FS_Subset
  <2>5. Cardinality(Above(g)) >= n /\ ~(Cardinality(Above(s)) >= n)
    BY <1>2, <2>1
  <2>6. Cardinality(Above(g)) \in Nat /\ Cardinality(Above(s)) \in Nat
    BY <1>1, <2>1
  <2> HIDE DEF Above
  <2> QED
    BY <2>4, <2>5, <2>6
<1>4. ASSUME NEW x \in S, \A s \in S : s =< x PROVE x \notin Oldest(S, n)
  <2>1. Above(x) = {}
    <3>1. \A t \in S : ~(t > x)
      BY <1>0, <1>4
    <3> QED
      BY <3>1
  <2>2. Cardinality(Above(x)) = 0
    BY <2>1, FS_EmptySet
  <2> QED
    BY <1>2, <2>2
<1>5. Cardinality(S \ Oldest(S, n)) =< n
  <2> DEFINE K == S \ Oldest(S, n)
  <2>1. CASE K = {}
    BY <2>1, FS_EmptySet
  <2>2. CASE K # {}
    <3>1. PICK m \in K : \A k \in K : m =< k
      BY <2>2, LeastName
    <3>2. /\ m \in S /\ ~(Cardinality(Above(m)) >= n) /\ IsFiniteSet(Above(m))
          /\ Cardinality(Above(m)) \in Nat
      BY <1>1, <1>2, <3>1
    <3>3. K \subseteq Above(m) \cup {m}
      <4>1. \A k \in K : k > m \/ k = m
        BY <1>0, <3>1
      <4> QED
        BY <4>1
    <3>4. m \notin Above(m)
      BY <1>0, <3>2
    <3> HIDE DEF K, Above
    <3>5. /\ IsFiniteSet(Above(m) \cup {m})
          /\ Cardinality(Above(m) \cup {m}) = Cardinality(Above(m)) + 1
      BY <3>2, <3>4, FS_AddElement
    <3>6. IsFiniteSet(K) /\ Cardinality(K) =< Cardinality(Above(m) \cup {m})
      BY <3>3, <3>5, FS_Subset
    <3>7. Cardinality(K) \in Nat
      BY <3>6, FS_CardinalityType
    <3>8. Cardinality(K) =< n
      BY <3>2, <3>5, <3>6, <3>7
    <3> QED
      BY <3>8 DEF K
  <2> QED
    BY <2>1, <2>2
<1> QED
  BY <1>3, <1>4, <1>5

\* Files bear the second of their rotation; a file that was removed is older
\* than the second that runs.
RetainInv ==
    /\ writer \in [Emitters -> [Sinks -> WriterState]]
    /\ current \in Seq(Emitters)
    /\ rotated \in [0..MaxSec -> Seq(Emitters) \cup {Nothing}]
    /\ sec \in 0..MaxSec
    /\ \A s \in Names : s =< sec
    /\ \A p \in pruned : p[1] \in 0..MaxSec /\ p[1] < sec
    /\ LogRetained

\* Where an event of emitter e can be found, or what took it away.
Found(e) ==
    \/ e \in ToSet(current) \cup InFiles(Names) \cup replaced
    \/ \E p \in pruned : p[2] = e

\* No event is reported anew, and the files stay as they are.
LEMMA FilesKept ==
    ASSUME RetainInv, UNCHANGED <<current, rotated, pruned, replaced>>,
           sec' \in 0..MaxSec, sec =< sec',
           writer' \in [Emitters -> [Sinks -> WriterState]],
           \A e \in Emitters : writer'[e]["file"] = "done" => writer[e]["file"] = "done"
    PROVE  RetainInv'
<1>1. Names' = Names /\ Names \subseteq 0..MaxSec /\ sec \in 0..MaxSec
  BY DEF Names, RetainInv
<1>2. InFiles(Names)' = InFiles(Names)
  BY <1>1 DEF InFiles
<1>3. LogRetained'
  BY <1>1, <1>2 DEF RetainInv, LogRetained
<1>4. /\ \A s \in Names' : s =< sec'
      /\ \A p \in pruned' : p[1] \in 0..MaxSec /\ p[1] < sec'
  BY <1>1, AuditAssumption DEF RetainInv
<1> QED
  BY <1>3, <1>4 DEF RetainInv

\* What a logger does to its emitter's state.
LEMMA LoggerTypes ==
    ASSUME writer \in [Emitters -> [Sinks -> WriterState]], NEW e \in Emitters, NEW s \in Sinks,
           Succeed(e, s) \/ Fail(e, s)
    PROVE  /\ writer' \in [Emitters -> [Sinks -> WriterState]]
           /\ \A f \in Emitters \ {e} : writer'[f] = writer[f]
           /\ s = "db" => writer'[e]["file"] = writer[e]["file"]
           /\ ~Succeed(e, s) /\ s = "file" => writer'[e]["file"] = "failed"
<1>1. writer[e] \in [Sinks -> WriterState]
  OBVIOUS
<1>2. /\ logSync(e, s) \in [Sinks -> WriterState]
      /\ s = "db" => logSync(e, s)["file"] = writer[e]["file"]
  BY <1>1 DEF logSync, WriterState, Sinks
<1>3. /\ [logSync(e, s) EXCEPT ![s] = "failed"] \in [Sinks -> WriterState]
      /\ s = "db" => [logSync(e, s) EXCEPT ![s] = "failed"]["file"] = writer[e]["file"]
      /\ s = "file" => [logSync(e, s) EXCEPT ![s] = "failed"]["file"] = "failed"
  BY <1>2 DEF WriterState, Sinks
<1> QED
  BY <1>2, <1>3 DEF Succeed, Fail

\* A rotation keeps the newest files, and what it takes away it takes openly.
LEMMA RotateKeeps ==
    ASSUME RetainInv, rotateFile, sec' = sec
    PROVE  /\ rotated' \in [0..MaxSec -> Seq(Emitters) \cup {Nothing}]
           /\ \A s \in Names' : s =< sec
           /\ \A p \in pruned' : p[1] \in 0..MaxSec /\ p[1] < sec
           /\ Cardinality(Names') =< MaxFiles
           /\ \A p \in pruned', s \in Names' : p[1] < s
           /\ \A f \in Emitters : Found(f) => Found(f)'
<1> DEFINE S == Names \cup {sec}
           gone == Oldest(S, MaxFiles)
<1>1. /\ rotated' = [s \in 0..MaxSec |-> IF s \in gone THEN Nothing
                                         ELSE IF s = sec THEN current ELSE rotated[s]]
      /\ pruned' = pruned \cup {p \in gone \X Emitters :
                                p[2] \in ToSet(IF p[1] = sec THEN current ELSE rotated[p[1]])}
      /\ replaced' = IF rotated[sec] = Nothing THEN replaced ELSE replaced \cup ToSet(rotated[sec])
  BY DEF rotateFile, cleanupOldFiles
<1>2. /\ current \in Seq(Emitters) /\ current # Nothing
      /\ rotated \in [0..MaxSec -> Seq(Emitters) \cup {Nothing}]
      /\ sec \in 0..MaxSec /\ (\A s \in Names : s =< sec)
      /\ \A p \in pruned : p[1] \in 0..MaxSec /\ p[1] < sec
      /\ \A p \in pruned, s \in Names : p[1] < s
  BY AuditAssumption DEF RetainInv, LogRetained
<1>3. S \subseteq 0..MaxSec /\ S \in SUBSET Nat /\ gone \subseteq S
  BY <1>2, AuditAssumption DEF Names, Oldest
<1>4. IsFiniteSet(S)
  <2>1. IsFiniteSet(0..MaxSec)
    BY FS_Interval, AuditAssumption
  <2> QED
    BY <1>3, <2>1, FS_Subset
<1>5. /\ \A g \in gone, s \in S \ gone : g < s
      /\ \A x \in S : (\A s \in S : s =< x) => x \notin gone
      /\ Cardinality(S \ gone) =< MaxFiles
  BY <1>3, <1>4, NewestKept, AuditAssumption
<1>6. sec \in S \ gone
  <2>1. \A s \in S : s =< sec
    BY <1>2, <1>3
  <2> QED
    BY <1>5, <2>1
<1> HIDE DEF S, gone
<1>7. rotated' \in [0..MaxSec -> Seq(Emitters) \cup {Nothing}]
  BY <1>1, <1>2
<1>8. /\ \A s \in gone : rotated'[s] = Nothing
      /\ rotated'[sec] = current
      /\ \A s \in (0..MaxSec) \ gone : s # sec => rotated'[s] = rotated[s]
  BY <1>1, <1>2, <1>3, <1>6
<1>9. Names' = S \ gone
  <2>1. \A s \in 0..MaxSec : s \in Names <=> rotated[s] # Nothing
    BY DEF Names
  <2>2. \A s \in 0..MaxSec : s \in Names' <=> rotated'[s] # Nothing
    BY DEF Names
  <2>3. Names' \subseteq 0..MaxSec
    BY DEF Names
  <2>4. \A s \in 0..MaxSec : s \in S <=> s \in Names \/ s = sec
    BY DEF S
  <2> QED
    BY <1>2, <1>3, <1>6, <1>8, <2>1, <2>2, <2>3, <2>4
<1>10. \A s \in Names' : s =< sec
  BY <1>2, <1>9 DEF S
<1>11. \A p \in pruned' : p \in pruned \/ p[1] \in gone
  BY <1>1
<1>12. \A p \in pruned' : p[1] \in 0..MaxSec /\ p[1] < sec
  BY <1>2, <1>3, <1>5, <1>6, <1>11
<1>13. ASSUME NEW p \in pruned', NEW s \in Names' PROVE p[1] < s
  <2>1. CASE p[1] \in gone
    BY <1>5, <1>9, <2>1
  <2>2. CASE p \in pruned
    <3>1. s \in Names \/ s = sec
      BY <1>9 DEF S
    <3> QED
      BY <1>2, <2>2, <3>1
  <2> QED
    BY <1>11, <2>1, <2>2
<1>14. ASSUME NEW f \in Emitters, Found(f) PROVE Found(f)'
  <2>1. CASE f \in ToSet(current)
    BY <1>6, <1>8, <1>9, <2>1 DEF Found, InFiles
  <2>2. ASSUME NEW s \in Names, f \in ToSet(rotated[s]) PROVE Found(f)'
    <3>0. s \in S /\ s \in 0..MaxSec /\ rotated[s] # Nothing
      BY <1>3 DEF S, Names
    <3>1. CASE s = sec
      BY <1>1, <2>2, <3>0, <3>1 DEF Found
    <3>2. CASE s # sec /\ s \in gone
      <4>1. <<s, f>> \in pruned'
        BY <1>1, <2>2, <3>2
      <4> QED
        BY <4>1 DEF Found
    <3>3. CASE s # sec /\ s \notin gone
      <4>1. s \in Names' /\ rotated'[s] = rotated[s]
        BY <1>8, <1>9, <3>0, <3>3
      <4> QED
        BY <2>2, <4>1 DEF Found, InFiles
    <3> QED
      BY <3>1, <3>2, <3>3
  <2>3. CASE f \in replaced \/ \E p \in pruned : p[2] = f
    BY <1>1, <2>3 DEF Found
  <2> QED
    BY <1>14, <2>1, <2>2, <2>3 DEF Found, InFiles
<1> QED
  BY <1>5, <1>7, <1>9, <1>10, <1>12, <1>13, <1>14

\* The rest of LogRetained follows from where every event was.
LEMMA LogRotates ==
    ASSUME RetainInv, NEW e \in Emitters, rotateFile, sec' = sec,
           \/ Succeed(e, "file") /\ current' = <<e>>
           \/ Fail(e, "file") /\ current' = <<>>
    PROVE  RetainInv'
<1>1. /\ rotated' \in [0..MaxSec -> Seq(Emitters) \cup {Nothing}]
      /\ \A s \in Names' : s =< sec
      /\ \A p \in pruned' : p[1] \in 0..MaxSec /\ p[1] < sec
      /\ Cardinality(Names') =< MaxFiles
      /\ \A p \in pruned', s \in Names' : p[1] < s
      /\ \A f \in Emitters : Found(f) => Found(f)'
  BY RotateKeeps
<1>2. /\ writer' \in [Emitters -> [Sinks -> WriterState]]
      /\ \A f \in Emitters \ {e} : writer'[f] = writer[f]
      /\ ~Succeed(e, "file") => writer'[e]["file"] = "failed"
  BY LoggerTypes DEF RetainInv, Sinks
<1>3. current' \in Seq(Emitters) /\ (current' = <<e>> => e \in ToSet(current'))
  <2>1. CASE current' = <<>>
    BY <2>1
  <2>2. CASE current' = <<e>>
    <3>1. <<e>> \in Seq(Emitters) /\ 1 \in DOMAIN <<e>> /\ <<e>>[1] = e
      OBVIOUS
    <3> QED
      BY <2>2, <3>1 DEF ToSet
  <2> QED
    BY <2>1, <2>2
<1>4. ASSUME NEW f \in Emitters, writer'[f]["file"] = "done" PROVE Found(f)'
  <2>1. CASE f # e
    BY <1>1, <1>2, <1>4, <2>1 DEF RetainInv, LogRetained, Found
  <2>2. CASE f = e /\ current' = <<e>>
    BY <1>3, <2>2 DEF Found
  <2>3. CASE f = e /\ current' # <<e>>
    <3>1. writer'[e]["file"] = "failed"
      BY <2>3, LoggerTypes DEF RetainInv, Sinks, Fail, logSync
    <3> QED
      BY <1>4, <2>3, <3>1
  <2> QED
    BY <2>1, <2>2, <2>3
<1>5. LogRetained'
  BY <1>1, <1>4 DEF LogRetained, Found
<1>6. sec' \in 0..MaxSec
  BY DEF RetainInv
<1> QED
  BY <1>1, <1>2, <1>3, <1>5, <1>6 DEF RetainInv

\* FileLogger.Log: an append, a rotation, or an error that is reported.
LEMMA FileLogKeeps ==
    ASSUME RetainInv, NEW e \in Emitters, FileLog(e)
    PROVE  RetainInv'
<1>0. sec' = sec /\ sec \in 0..MaxSec /\ sec =< sec'
  BY AuditAssumption DEF FileLog, RetainInv
<1>1. CASE Fail(e, "file") /\ UNCHANGED <<current, rotated, pruned, replaced>>
  <2>1. /\ writer' \in [Emitters -> [Sinks -> WriterState]]
        /\ \A f \in Emitters \ {e} : writer'[f] = writer[f]
        /\ writer'[e]["file"] = "failed"
    BY <1>1, LoggerTypes DEF RetainInv, Sinks, Fail, logSync
  <2>2. \A f \in Emitters : writer'[f]["file"] = "done" => writer[f]["file"] = "done"
    BY <2>1
  <2> QED
    BY <1>0, <1>1, <2>1, <2>2, FilesKept
<1>2. CASE Succeed(e, "file") /\ current' = Append(current, e)
           /\ UNCHANGED <<rotated, pruned, replaced>>
  <2>1. /\ writer' \in [Emitters -> [Sinks -> WriterState]]
        /\ \A f \in Emitters \ {e} : writer'[f] = writer[f]
    BY <1>2, LoggerTypes DEF RetainInv, Sinks
  <2>2. current' \in Seq(Emitters) /\ ToSet(current) \cup {e} \subseteq ToSet(current')
    <3>1. current \in Seq(Emitters)
      BY DEF RetainInv
    <3>2. /\ current' \in Seq(Emitters) /\ DOMAIN current \subseteq DOMAIN current'
          /\ \A i \in DOMAIN current : current'[i] = current[i]
          /\ Len(current) + 1 \in DOMAIN current' /\ current'[Len(current) + 1] = e
      BY <1>2, <3>1
    <3> QED
      BY <3>2 DEF ToSet
  <2>3. Names' = Names
    BY <1>2 DEF Names
  <2>4. InFiles(Names)' = InFiles(Names)
    BY <1>2, <2>3 DEF InFiles
  <2>5. \A f \in Emitters : (Found(f) => Found(f)') /\ Found(e)'
    BY <1>2, <2>2, <2>4 DEF Found
  <2>6. \A f \in Emitters : writer'[f]["file"] = "done" => Found(f)'
    <3> SUFFICES ASSUME NEW f \in Emitters, writer'[f]["file"] = "done" PROVE Found(f)'
      OBVIOUS
    <3>1. CASE f = e
      BY <2>5, <3>1
    <3>2. CASE f # e
      BY <2>1, <2>5, <3>2 DEF RetainInv, LogRetained, Found
    <3> QED
      BY <3>1, <3>2
  <2>7. LogRetained'
    BY <1>2, <2>3, <2>6 DEF RetainInv, LogRetained, Found
  <2> QED
    BY <1>0, <1>2, <2>1, <2>2, <2>3, <2>7 DEF RetainInv
<1>3. CASE \/ rotateFile /\ Succeed(e, "file") /\ current' = <<e>>
           \/ rotateFile /\ Fail(e, "file") /\ current' = <<>>
  BY <1>0, <1>3, LogRotates
<1>f. UNCHANGED files => UNCHANGED <<current, rotated, pruned, replaced>>
  BY DEF files
<1>4. \/ Fail(e, "file") /\ UNCHANGED <<current, rotated, pruned, replaced>>
      \/ Fail(e, "file") /\ UNCHANGED files
      \/ /\ Succeed(e, "file") /\ current' = Append(current, e)
         /\ UNCHANGED <<rotated, pruned, replaced>>
      \/ rotateFile /\ Succeed(e, "file") /\ current' = <<e>>
      \/ rotateFile /\ Fail(e, "file") /\ current' = <<>>
  BY Zenon DEF FileLog
<1> QED
  BY <1>1, <1>2, <1>3, <1>4, <1>f, Zenon

LEMMA DBLogKeeps ==
    ASSUME RetainInv, NEW e \in Emitters, DBLog(e)
    PROVE  RetainInv'
<1>1. (Succeed(e, "db") \/ Fail(e, "db")) /\ UNCHANGED <<current, rotated, pruned, replaced, sec>>
  BY DEF DBLog, files
<1>2. /\ writer' \in [Emitters -> [Sinks -> WriterState]]
      /\ \A f \in Emitters : writer'[f]["file"] = writer[f]["file"]
  BY <1>1, LoggerTypes DEF RetainInv, Sinks
<1>3. sec' \in 0..MaxSec /\ sec =< sec'
  BY <1>1, AuditAssumption DEF RetainInv
<1> QED
  BY <1>1, <1>2, <1>3, FilesKept

\* A handler logs: the event is not written yet.
LEMMA EmitKeeps ==
    ASSUME RetainInv, NEW e \in Emitters, NEW ev, Log(e, ev),
           UNCHANGED <<current, rotated, pruned, replaced, sec>>
    PROVE  RetainInv'
<1>1. writer' = [writer EXCEPT ![e] =
                   [s \in Sinks |-> IF async \/ s = "file" THEN "running" ELSE "none"]]
  BY DEF Log
<1>2. /\ writer' \in [Emitters -> [Sinks -> WriterState]]
      /\ \A f \in Emitters : writer'[f]["file"] = "done" => writer[f]["file"] = "done"
  BY <1>1 DEF RetainInv, WriterState, Sinks
<1>3. sec' \in 0..MaxSec /\ sec =< sec'
  BY AuditAssumption DEF RetainInv
<1> QED
  BY <1>2, <1>3, FilesKept

\* Whatever the audit logger reported as written to the file is in audit.log or
\* in a rotated file, or was taken by a rename in the same second or by
\* cleanupOldFiles; no more than MaxFiles are kept, and none older than a
\* removed one: for any number of emitters, seconds and failures, and also
\* while the server shuts down.
THEOREM LogIsRetained ==
    LifecycleInit /\ [][LogNext \/ LifecycleNext]_lifeVars => []LogRetained
<1>1. LifecycleInit => RetainInv
  <2> SUFFICES ASSUME LifecycleInit PROVE RetainInv
    OBVIOUS
  <2>1. Names = {} /\ sec \in 0..MaxSec /\ current = <<>> /\ pruned = {}
    BY AuditAssumption DEF LifecycleInit, AuditInit, Names
  <2>2. \A e \in Emitters : writer[e]["file"] = "none"
    BY DEF LifecycleInit, AuditInit, Sinks
  <2>3. LogRetained
    BY <2>1, <2>2, FS_EmptySet, AuditAssumption DEF LogRetained
  <2> QED
    BY <2>1, <2>3 DEF LifecycleInit, AuditInit, RetainInv, WriterState
<1>2. RetainInv /\ [LogNext \/ LifecycleNext]_lifeVars => RetainInv'
  <2> SUFFICES ASSUME RetainInv, [LogNext \/ LifecycleNext]_lifeVars PROVE RetainInv'
    OBVIOUS
  <2> USE DEF files
  <2>1. CASE UNCHANGED <<writer, current, rotated, pruned, replaced, sec>>
    <3>1. sec' \in 0..MaxSec /\ sec =< sec'
      BY <2>1, AuditAssumption DEF RetainInv
    <3> QED
      BY <2>1, <3>1, FilesKept DEF RetainInv
  <2>2. CASE Second
    <3>1. sec' \in 0..MaxSec /\ sec =< sec'
      BY <2>2, AuditAssumption DEF RetainInv, Second
    <3> QED
      BY <2>2, <3>1, FilesKept DEF RetainInv, Second
  <2>3. ASSUME NEW e \in Emitters, FileLog(e) \/ DBLog(e) PROVE RetainInv'
    BY <2>3, FileLogKeeps, DBLogKeeps
  <2>4. ASSUME NEW e \in Emitters, Handler(e) \/ HandlerLogs(e) PROVE RetainInv'
    <3>1. UNCHANGED <<current, rotated, pruned, replaced, sec>> /\ \E ev : Log(e, ev)
      BY <2>4 DEF Handler, HandlerLogs, LogSuccess, LogFailure, LogDenied
    <3> QED
      BY <3>1, EmitKeeps
  <2>5. CASE GetErrors \/ Read \/ Cleanup \/ (\E e \in Emitters : RequestEnds(e))
    BY <2>1, <2>5 DEF GetErrors, Read, Cleanup, RequestEnds
  <2>6. ASSUME NEW e \in Emitters, RequestStep(e) PROVE RetainInv'
    BY <2>1, <2>4, <2>6 DEF RequestStep, Accept, CORSMiddleware, ContentTypeMiddleware,
         HandlerWrites, HandlerReturns, RecoveryMiddleware, TimeoutMiddleware, HandlerPanics,
         RequestTimeout, Unlogged
  <2>7. CASE Readiness \/ ShutdownStep
    BY <2>1, <2>7 DEF Readiness, ShutdownStep, WaitForShutdown, Expire, ServerShutdown, CloseAudit,
         Await, RunFunction, Unlogged, Close
  <2>8. CASE UNCHANGED lifeVars
    BY <2>1, <2>8 DEF lifeVars, logVars
  <2> QED
    BY <2>2, <2>3, <2>4, <2>5, <2>6, <2>7, <2>8
       DEF LogNext, AuditStep, LifecycleNext, WriterStep
<1>3. RetainInv => LogRetained
  BY DEF RetainInv
<1> QED
  BY <1>1, <1>2, <1>3, PTL
=============================================================================
