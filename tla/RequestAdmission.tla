-------------------------- MODULE RequestAdmission --------------------------
(***************************************************************************)
(* A request on its way past both limiters: the auth gateway's             *)
(* PerUserRateLimiter, keyed by user and with the limit of the user's      *)
(* role, and then, a few awaits later, the proxy's own limiter, keyed by   *)
(* the API key.  A request that the proxy refuses has been paid for by its *)
(* user all the same.  The gateway reads time.monotonic(), which is never  *)
(* set back.                                                               *)
(*                                                                         *)
(* A limit is given by what a request costs under it, in ticks.  The       *)
(* gateway's token buckets are left out: the middleware passes no          *)
(* estimate, so their level decides nothing.                               *)
(***************************************************************************)
EXTENDS RateLimiter

CONSTANTS
    Users,         \* user ids
    Limits,        \* the limits that roles have: costs of a request
    CleanupEvery,  \* a minute in the code
    MaxInFlight,   \* requests between the two limiters
    MaxUptime,     \* bound on the monotonic clock
    MaxChanges     \* bound on the changes of a user's limit in a window

ASSUME LimitsAssumption == Limits \subseteq 1..Minute
ASSUME CleanupAssumption == CleanupEvery \in Nat
ASSUME AdmissionBounds == MaxInFlight \in Nat /\ MaxUptime \in Nat /\ MaxChanges \in Nat

VARIABLES
    mono,         \* time.monotonic()
    userBuckets,  \* PerUserRateLimiter._request_buckets
    lastCleanup,  \* PerUserRateLimiter._last_cleanup
    inFlight,     \* requests that the gateway let through to the proxy
    userSpent,    \* observer: what each user has paid since the window opened
    changes       \* observer: how often each user's limit changed in it

gatewayVars == <<userBuckets, lastCleanup, userSpent, changes>>
admissionVars == <<vars, mono, inFlight, gatewayVars>>

AdmissionInit ==
    /\ Init
    /\ mono = 0
    /\ userBuckets = [u \in {} |-> 0]
    /\ lastCleanup = 0
    /\ inFlight = 0
    /\ userSpent = [u \in Users |-> 0]
    /\ changes = [u \in Users |-> 0]

-----------------------------------------------------------------------------
\* _Bucket.refill.
UserRefilled(b) == Lesser(Minute, b.tokens + (mono - b.last))

\* Plausible bug: the threshold for stale buckets is in the wrong unit.
UserKeptEager ==
    IF mono - lastCleanup < CleanupEvery THEN DOMAIN userBuckets
    ELSE {u \in DOMAIN userBuckets : userBuckets[u].last >= mono - 1}

\* _cleanup_if_needed.
UserKept ==
    IF mono - lastCleanup < CleanupEvery THEN DOMAIN userBuckets
    ELSE {u \in DOMAIN userBuckets : userBuckets[u].last >= mono - Stale}

\* The middleware's call of check_rate_limit for user u under limit c.  A bucket
\* for another limit is replaced by a full one.
CheckRateLimit(u, c) ==
    LET known == u \in UserKept
        same == known /\ userBuckets[u].limit = c
        available == IF same THEN UserRefilled(userBuckets[u]) ELSE Minute
        allowed == available >= c
        left == IF allowed THEN available - c ELSE available
    IN  /\ known /\ ~same => changes[u] < MaxChanges
        /\ inFlight < MaxInFlight
        /\ userBuckets' = [v \in UserKept \cup {u} |->
               IF v = u THEN [tokens |-> left, last |-> mono, limit |-> c] ELSE userBuckets[v]]
        /\ lastCleanup' = IF mono - lastCleanup < CleanupEvery THEN lastCleanup ELSE mono
        /\ changes' = [changes EXCEPT ![u] = IF known /\ ~same THEN @ + 1 ELSE @]
        /\ userSpent' = [userSpent EXCEPT ![u] = IF allowed THEN @ + c ELSE @]
        /\ inFlight' = IF allowed THEN inFlight + 1 ELSE inFlight
        /\ UNCHANGED <<vars, mono>>

\* The proxy's handler gets to its own limiter.
ProxyCheck(k) ==
    /\ inFlight > 0
    /\ inFlight' = inFlight - 1
    /\ CheckRequest(k)
    /\ UNCHANGED <<now, top, elapsed, mono, gatewayVars>>

TimePasses ==
    /\ mono < MaxUptime
    /\ Tick
    /\ mono' = mono + 1
    /\ UNCHANGED <<inFlight, gatewayVars>>

ClockSetBack == SetBack /\ UNCHANGED <<mono, inFlight, gatewayVars>>

NewWindow ==
    /\ OpenWindow
    /\ userSpent' = [u \in Users |-> 0]
    /\ changes' = [u \in Users |-> 0]
    /\ UNCHANGED <<mono, userBuckets, lastCleanup, inFlight>>

AdmissionNext ==
    \/ \E u \in Users, c \in Limits : CheckRateLimit(u, c)
    \/ \E k \in Keys : ProxyCheck(k)
    \/ TimePasses \/ ClockSetBack \/ NewWindow

AdmissionSpec == AdmissionInit /\ [][AdmissionNext]_admissionVars

-----------------------------------------------------------------------------
\* What the user could spend now.
UserLevel(u) == IF u \in DOMAIN userBuckets THEN UserRefilled(userBuckets[u]) ELSE Minute

\* The values each variable may have.
AdmissionTypeOK ==
    /\ TypeOK
    /\ mono \in Nat /\ lastCleanup \in 0..mono /\ inFlight \in 0..MaxInFlight
    /\ DOMAIN userBuckets \subseteq Users
    /\ userBuckets \in [DOMAIN userBuckets ->
                           [tokens : 0..Minute, last : 0..mono, limit : Limits]]
    /\ userSpent \in [Users -> Nat] /\ changes \in [Users -> Nat]

\* In every window a user pays at most a full bucket, another one for each time
\* the limit changed, and what the time that passed puts back.
UserWindowBound ==
    \A u \in Users : userSpent[u] + UserLevel(u) <= Minute * (1 + changes[u]) + elapsed
=============================================================================
