---------------------------- MODULE RateLimiter ----------------------------
(***************************************************************************)
(* The proxy's TokenBucketRateLimiter: one bucket per API key or address,  *)
(* created full on first use, refilled when it is next used, dropped when  *)
(* there are too many buckets and it has been idle for a while.  An        *)
(* asyncio.Lock held around check_request makes it one step.               *)
(*                                                                         *)
(* A bucket is measured in the time it takes to refill: whatever the rate, *)
(* a full bucket is a minute, a request is 60/rate seconds, and a tick of  *)
(* the clock puts one unit back.  The clock is time.time(), which may be   *)
(* set back; it is not set forward.                                        *)
(***************************************************************************)
EXTENDS Integers, FiniteSets

CONSTANTS
    Keys,        \* rate keys
    Minute,      \* ticks in a minute: the capacity of every bucket
    Cost,        \* ticks that refill one request: 60 / requests_per_minute
    Stale,       \* stale_after_seconds, ten minutes in the code
    MaxBuckets,  \* MAX_RATE_LIMITER_BUCKETS
    MaxTime,     \* bound on the clock
    MaxWindow,   \* bound on the length of an observed window
    MaxBack      \* the furthest the clock is set back at once

ASSUME RateAssumption == Minute \in Nat /\ Cost \in Nat \ {0} /\ Cost <= Minute
ASSUME StaleAssumption == Stale \in Nat /\ Stale >= Minute /\ MaxBuckets \in Nat
ASSUME ClockAssumption == MaxTime \in Nat /\ MaxWindow \in Nat /\ MaxBack \in Nat

VARIABLES
    now,      \* time.time()
    buckets,  \* _request_buckets: key -> tokens, last_update
    answer,   \* what each client was told last
    top,      \* observer: the highest reading of the clock so far
    elapsed,  \* observer: ticks since the window was opened
    spent,    \* observer: what each key has paid since then
    due       \* observer: ticks left of the wait a client was told, or -1

proxyVars == <<buckets, answer, spent, due>>
vars == <<now, buckets, answer, top, elapsed, spent, due>>

Lesser(a, b) == IF a < b THEN a ELSE b
Fresh == [tokens |-> Minute, last |-> now]

Init ==
    /\ now = 0
    /\ buckets = [k \in {} |-> Fresh]
    /\ answer = [k \in Keys |-> "none"]
    /\ top = 0 /\ elapsed = 0
    /\ spent = [k \in Keys |-> 0]
    /\ due = [k \in Keys |-> -1]

-----------------------------------------------------------------------------
\* Plausible bug: the refill is not capped at the bucket's capacity.
RefilledUncapped(b) == b.tokens + (IF now > b.last THEN now - b.last ELSE 0)

\* Plausible bug: a clock that was set back takes tokens away.
RefilledSigned(b) == Lesser(Minute, b.tokens + (now - b.last))

\* refilled_tokens: a clock that was set back refills nothing.
Refilled(b) == Lesser(Minute, b.tokens + (IF now > b.last THEN now - b.last ELSE 0))

\* Plausible bug: a bucket is stale as soon as it has not been used at this instant.
StaleKeysEager == {k \in DOMAIN buckets : buckets[k].last < now}

\* stale_bucket_keys.
StaleKeys == {k \in DOMAIN buckets : buckets[k].last < now - Stale}

\* _cleanup_stale_buckets, which runs when there are more buckets than allowed.
KeptKeys ==
    IF Cardinality(DOMAIN buckets) > MaxBuckets
    THEN DOMAIN buckets \ StaleKeys ELSE DOMAIN buckets

\* Plausible bug: the wait is rounded down.
WaitTruncated(available) == Cost - available - 1

\* wait_seconds of consume_from_bucket: the time until the bucket covers a request.
Wait(available) == Cost - available

\* check_request.
CheckRequest(k) ==
    LET state == IF k \in KeptKeys THEN buckets[k] ELSE Fresh
        available == Refilled(state)
        allowed == available >= Cost
        left == IF allowed THEN available - Cost ELSE available
    IN  /\ buckets' = [j \in KeptKeys \cup {k} |->
                          IF j = k THEN [tokens |-> left, last |-> now] ELSE buckets[j]]
        /\ answer' = [answer EXCEPT ![k] = IF allowed THEN "allowed" ELSE "refused"]
        /\ spent' = [spent EXCEPT ![k] = IF allowed THEN @ + Cost ELSE @]
        /\ due' = [due EXCEPT ![k] = IF allowed THEN -1 ELSE Wait(available)]

-----------------------------------------------------------------------------
(* The clock and the observer. *)

Tick ==
    /\ now < MaxTime /\ elapsed < MaxWindow
    /\ now' = now + 1
    /\ top' = IF now < top THEN top ELSE now'
    /\ elapsed' = elapsed + 1
    /\ due' = [k \in Keys |-> IF due[k] > 0 THEN due[k] - 1 ELSE due[k]]
    /\ UNCHANGED <<buckets, answer, spent>>

\* The wall clock is corrected: what clients were told to wait is void.
SetBack ==
    /\ \E d \in 1..MaxBack : d <= now /\ now' = now - d
    /\ due' = [k \in Keys |-> -1]
    /\ UNCHANGED <<buckets, answer, top, elapsed, spent>>

OpenWindow ==
    /\ elapsed' = 0
    /\ spent' = [k \in Keys |-> 0]
    /\ UNCHANGED <<now, buckets, answer, top, due>>

Next ==
    \/ \E k \in Keys : CheckRequest(k) /\ UNCHANGED <<now, top, elapsed>>
    \/ Tick \/ SetBack \/ OpenWindow

Spec == Init /\ [][Next]_vars

-----------------------------------------------------------------------------
\* What the bucket of k holds, or would hold, if it were used now.
Level(k) == IF k \in DOMAIN buckets THEN Refilled(buckets[k]) ELSE Minute

\* The values each variable may have.
TypeOK ==
    /\ now \in Nat
    /\ DOMAIN buckets \subseteq Keys
    /\ buckets \in [DOMAIN buckets -> [tokens : 0..Minute, last : Nat]]
    /\ answer \in [Keys -> {"none", "allowed", "refused"}]
    /\ top \in Nat /\ elapsed \in Nat
    /\ spent \in [Keys -> Nat]
    /\ due \in [Keys -> -1..Cost]

\* In every window, however buckets are dropped and created again and however
\* the clock is set back, a key pays at most a full bucket plus what the time
\* that passed puts back.
WindowBound == \A k \in Keys : spent[k] + Level(k) <= Minute + elapsed

\* A client that is told to wait, waits that long and asks again is allowed,
\* provided the clock was not set back meanwhile.
WaitHonoured == \A k \in Keys : due[k] >= 0 => Level(k) + due[k] >= Cost

\* When there are more buckets than allowed besides the one just used, all of
\* them are in use: no idle bucket is kept.
OverflowIsActive ==
    [][buckets' # buckets /\ Cardinality(DOMAIN buckets') > MaxBuckets + 1
         => \A k \in DOMAIN buckets' : buckets'[k].last >= now - Stale]_vars

\* The limiter is a token bucket per key that is always refilled on time.
Bucket == INSTANCE TokenBucket WITH Capacity <- Minute,
                                    level <- [k \in Keys |-> Level(k)]
RefinesTokenBucket == Bucket!Spec
=============================================================================
