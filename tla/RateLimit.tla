----------------------------- MODULE RateLimit -----------------------------
(***************************************************************************)
(* pkg/middleware/ratelimit.go and distributed_ratelimit.go: the token     *)
(* buckets of one process, or the counters that processes share in Redis.  *)
(* Request goroutines of one client; a tick is a fraction of the window.   *)
(***************************************************************************)
EXTENDS Naturals, Sequences, FiniteSets

CONSTANTS
    Requests,   \* request goroutines, each sends again after its answer
    Clients,    \* "user", "bot" and "ip": one of each is enough
    Rate, Burst,\* [Clients -> RequestsPerWindow, BurstSize of its limiter]
    Window,     \* WindowDuration in ticks
    MaxNow,     \* bound: ticks
    MaxBuckets, \* bound: buckets made
    MaxCount,   \* bound: requests counted on one Redis key
    MaxDown     \* bound: pipelines that meet a Redis error

ASSUME RateLimitAssumption ==
    /\ Rate \in [Clients -> Nat \ {0}] /\ Burst \in [Clients -> Nat]
    /\ \A c \in Clients : Burst[c] <= Rate[c]
    /\ Window \in Nat \ {0} /\ MaxNow \in Nat /\ IsFiniteSet(Requests)

Times == 0 .. MaxNow
Buckets == 1 .. MaxBuckets

VARIABLES
    now,      \* the clock
    client,   \* whose requests this behaviour follows
    shared,   \* the DistributedRateLimitMiddleware is installed
    fallback, \* its fallbackEnabled
    slot,     \* rl.buckets[key]: a bucket, 0 when there is none
    heap,     \* [Buckets -> tokens and lastUpdate]
    at,       \* [Requests -> step of its goroutine]
    holds,    \* [Requests -> the bucket Allow looked up]
    redis,    \* the key in Redis: its count, 0 without a key, and its expiry
    down,     \* Redis errors so far
    answer,   \* the last answer: status code and X-RateLimit-Remaining
    passed    \* history: requests counted and let through before each time

limitVars == <<now, client, shared, fallback, slot, heap, at, holds, redis, down, answer, passed>>
setting == <<client, shared, fallback>>

\* Tokens of a new bucket, which are also the most it ever holds.
NewRateLimiter == Rate[client] + Burst[client]

RateInit ==
    /\ now = 0 /\ client \in Clients /\ shared \in BOOLEAN /\ fallback \in BOOLEAN
    /\ slot = 0 /\ heap = <<>>
    /\ at = [r \in Requests |-> "idle"] /\ holds = [r \in Requests |-> 0]
    /\ redis = [count |-> 0, expires |-> 0] /\ down = 0
    /\ answer = [code |-> 200, remaining |-> 0]
    /\ passed = [t \in 0 .. MaxNow + 1 |-> 0]

Pass == passed' = [t \in 0 .. MaxNow + 1 |-> passed[t] + IF t > now THEN 1 ELSE 0]
Reply(code, remaining) == answer' = [code |-> code, remaining |-> remaining]

-----------------------------------------------------------------------------
(* The buckets of one process.                                             *)

\* Allow under rl.mu: find the bucket of the key, or make a full one.
Handler(r) ==
    /\ ~shared /\ at[r] = "idle" /\ at' = [at EXCEPT ![r] = "bucket"]
    /\ IF slot # 0 THEN holds' = [holds EXCEPT ![r] = slot] /\ UNCHANGED <<slot, heap>>
       ELSE /\ Len(heap) < MaxBuckets
            /\ heap' = Append(heap, [tokens |-> NewRateLimiter, last |-> now])
            /\ slot' = Len(heap) + 1 /\ holds' = [holds EXCEPT ![r] = Len(heap) + 1]
    /\ UNCHANGED <<now, setting, redis, down, answer, passed>>

\* Allow under b.mu, on the bucket found, which may have left the map since.
\* Mutant: the refill does not move lastUpdate.
RefillKeepsTime(b) ==
    LET add == (Rate[client] * (now - b.last)) \div Window IN
    [b EXCEPT !.tokens = IF @ + add > NewRateLimiter THEN NewRateLimiter ELSE @ + add]
Refill(b) ==
    LET add == (Rate[client] * (now - b.last)) \div Window
        most == NewRateLimiter IN
    IF add > 0 THEN [tokens |-> IF b.tokens + add > most THEN most ELSE b.tokens + add, last |-> now]
    ELSE b
Allow(r) ==
    /\ at[r] = "bucket"
    /\ LET b == Refill(heap[holds[r]]) IN
       IF b.tokens > 0
       THEN /\ heap' = [heap EXCEPT ![holds[r]] = [b EXCEPT !.tokens = @ - 1]]
            /\ at' = [at EXCEPT ![r] = "headers"] /\ Pass /\ UNCHANGED answer
       ELSE /\ heap' = [heap EXCEPT ![holds[r]] = b]
            /\ at' = [at EXCEPT ![r] = "idle"] /\ Reply(429, 0) /\ UNCHANGED passed
    /\ UNCHANGED <<now, setting, slot, holds, redis, down>>

\* The header: the bucket is looked up once more.
Remaining(r) ==
    /\ ~shared /\ at[r] = "headers" /\ at' = [at EXCEPT ![r] = "idle"]
    /\ Reply(200, IF slot = 0 THEN NewRateLimiter ELSE heap[slot].tokens)
    /\ UNCHANGED <<now, setting, slot, heap, holds, redis, down, passed>>

\* The goroutine of StartCleanup.
Cleanup ==
    /\ slot # 0 /\ now - heap[slot].last > 2 * Window
    /\ slot' = 0
    /\ UNCHANGED <<now, setting, heap, at, holds, redis, down, answer, passed>>

-----------------------------------------------------------------------------
(* The counters in Redis.                                                  *)

Live == redis.count > 0 /\ now < redis.expires
\* INCR and EXPIRE in one pipeline: every request renews the window.
IncrExpireOnce ==
    [count |-> (IF Live THEN redis.count ELSE 0) + 1,
     expires |-> IF Live THEN redis.expires ELSE now + Window]
IncrExpire == [count |-> (IF Live THEN redis.count ELSE 0) + 1, expires |-> now + Window]
DistributedAllow(r) ==
    /\ shared /\ at[r] = "idle"
    /\ IncrExpire.count <= MaxCount /\ redis' = IncrExpire
    /\ IF redis'.count <= Rate[client]
       THEN Pass /\ at' = [at EXCEPT ![r] = "headers"] /\ UNCHANGED answer
       ELSE Reply(429, 0) /\ UNCHANGED <<passed, at>>
    /\ UNCHANGED <<now, setting, slot, heap, holds, down>>

\* A Redis error lets the request through uncounted, or answers 503.  The
\* first command of the pipeline may have been executed.
DistributedDown(r) ==
    /\ shared /\ at[r] = "idle" /\ down < MaxDown /\ down' = down + 1 /\ IncrExpire.count <= MaxCount
    /\ Reply(IF fallback THEN 200 ELSE 503, 0)
    /\ redis' \in {redis, [count |-> (IF Live THEN redis.count ELSE 0) + 1,
                           expires |-> IF Live THEN redis.expires ELSE MaxNow + 1]}
    /\ UNCHANGED <<now, setting, slot, heap, at, holds, passed>>

DistributedRemaining(r) ==
    /\ shared /\ at[r] = "headers" /\ at' = [at EXCEPT ![r] = "idle"]
    /\ Reply(200, IF ~Live THEN Rate[client]
                  ELSE IF redis.count > Rate[client] THEN 0 ELSE Rate[client] - redis.count)
    /\ UNCHANGED <<now, setting, slot, heap, holds, redis, down, passed>>

Reset ==
    /\ shared /\ Live /\ redis' = [count |-> 0, expires |-> 0]
    /\ passed' = [t \in 0 .. MaxNow + 1 |-> 0]
    /\ UNCHANGED <<now, setting, slot, heap, at, holds, down, answer>>

Tick ==
    /\ now < MaxNow /\ now' = now + 1
    /\ UNCHANGED <<setting, slot, heap, at, holds, redis, down, answer, passed>>

LimitNext ==
    \/ \E r \in Requests :
        \/ Handler(r) \/ Allow(r) \/ Remaining(r)
        \/ DistributedAllow(r) \/ DistributedDown(r) \/ DistributedRemaining(r)
    \/ Cleanup \/ Reset \/ Tick

-----------------------------------------------------------------------------
\* Requests counted and let through at the times from .. to.
Passes(from, to) == passed[to + 1] - passed[from]

\* Buckets that Cleanup has taken out of the map.
Dropped == IF slot = 0 THEN Len(heap) ELSE Len(heap) - 1

\* With Redis up, no more than RequestsPerWindow requests of a client pass in
\* any stretch of one window, wherever it starts: each request renews the
\* expiry, so that counts never restart inside a stretch.  The price is that
\* steady traffic is refused for good.  distributed_ratelimit.go:47
SlidingWindow ==
    shared => \A t \in Times : t + Window - 1 \in Times
                  => Passes(t, t + Window - 1) <= Rate[client]

\* A bucket lets through at most its initial tokens and what the rate adds,
\* also when Cleanup drops it and a request makes a full one; on top come only
\* the requests that held a bucket when it was dropped, one each.
\* ratelimit.go:115
BucketLaw ==
    ~shared => Passes(0, now) <= NewRateLimiter + (Rate[client] * now) \div Window
                                 + Cardinality(Requests) * Dropped
=============================================================================
