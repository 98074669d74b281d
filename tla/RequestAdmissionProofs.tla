----------------------- MODULE RequestAdmissionProofs -----------------------
(***************************************************************************)
(* Proofs about the two limiters in a row.  The proxy's limiter behind the *)
(* gateway is the proxy's limiter: what is proved of it alone carries      *)
(* over.  The bound on what a user pays is inductive as it is.             *)
(***************************************************************************)
EXTENDS RequestAdmission, RateLimiterProofs

\* Every step past the gateway is a step of the proxy's limiter or none of it.
LEMMA AdmissionStep == [AdmissionNext]_admissionVars => [Next]_vars
BY DEF AdmissionNext, admissionVars, CheckRateLimit, ProxyCheck, TimePasses,
       ClockSetBack, NewWindow, Next

\* The proxy's limiter is not disturbed by the gateway before it.
LEMMA ProxyUndisturbed == AdmissionSpec => Spec
BY AdmissionStep, PTL DEF AdmissionSpec, AdmissionInit, Spec

\* Behind the gateway, too, the proxy's limiter is a token bucket per key, within
\* the bound of every window, and true to the waits it announces.
THEOREM AdmissionRefines ==
    AdmissionSpec => RefinesTokenBucket /\ []WindowBound /\ []WaitHonoured
BY ProxyUndisturbed, Refinement, WindowBounded, WaitIsHonoured, PTL

-----------------------------------------------------------------------------
(* The type invariant. *)

UserBucket == [tokens : 0..Minute, last : 0..mono, limit : Limits]

LEMMA AdmissionInitType == AdmissionInit => AdmissionTypeOK
<1> SUFFICES ASSUME AdmissionInit PROVE AdmissionTypeOK
  OBVIOUS
<1>1. TypeOK
  BY InitType DEF AdmissionInit
<1>2. DOMAIN userBuckets = {} /\ userBuckets = [u \in DOMAIN userBuckets |-> 0]
  BY DEF AdmissionInit
<1>3. userBuckets \in [DOMAIN userBuckets -> UserBucket] /\ DOMAIN userBuckets \subseteq Users
  BY <1>2
<1>4. /\ mono \in Nat /\ lastCleanup \in 0..mono /\ inFlight \in 0..MaxInFlight
      /\ userSpent \in [Users -> Nat] /\ changes \in [Users -> Nat]
  BY AdmissionBounds DEF AdmissionInit
<1> QED
  BY <1>1, <1>3, <1>4 DEF AdmissionTypeOK, UserBucket

\* What check_rate_limit finds for its user is at most a full bucket.
LEMMA UserRefilledRange ==
    ASSUME AdmissionTypeOK, NEW u \in DOMAIN userBuckets
    PROVE  /\ UserRefilled(userBuckets[u]) \in 0..Minute
           /\ userBuckets[u].last \in 0..mono /\ userBuckets[u].tokens \in 0..Minute
<1>1. userBuckets[u].last \in 0..mono /\ userBuckets[u].tokens \in 0..Minute /\ mono \in Nat
  BY DEF AdmissionTypeOK
<1> QED
  BY <1>1, MinuteNat DEF UserRefilled, Lesser

LEMMA UserKeptSubset == UserKept \subseteq DOMAIN userBuckets
BY DEF UserKept

LEMMA UserCheckType ==
    ASSUME AdmissionTypeOK, NEW u \in Users, NEW c \in Limits, CheckRateLimit(u, c)
    PROVE  AdmissionTypeOK'
<1> DEFINE known == u \in UserKept
           same == known /\ userBuckets[u].limit = c
           available == IF same THEN UserRefilled(userBuckets[u]) ELSE Minute
           left == IF available >= c THEN available - c ELSE available
<1>1. available \in 0..Minute /\ c \in Nat
  BY UserRefilledRange, UserKeptSubset, MinuteNat, LimitsAssumption
<1>2. /\ userBuckets' = [v \in UserKept \cup {u} |->
            IF v = u THEN [tokens |-> left, last |-> mono, limit |-> c] ELSE userBuckets[v]]
      /\ lastCleanup' = IF mono - lastCleanup < CleanupEvery THEN lastCleanup ELSE mono
      /\ changes' = [changes EXCEPT ![u] = IF known /\ ~same THEN @ + 1 ELSE @]
      /\ userSpent' = [userSpent EXCEPT ![u] = IF available >= c THEN @ + c ELSE @]
      /\ inFlight' = IF available >= c THEN inFlight + 1 ELSE inFlight
      /\ inFlight < MaxInFlight
      /\ UNCHANGED <<vars, mono>>
  BY DEF CheckRateLimit
<1> HIDE DEF available, same, known
<1>3. left \in 0..Minute
  BY <1>1, MinuteNat
<1> HIDE DEF left
<1>4. DOMAIN userBuckets' = UserKept \cup {u} /\ mono' = mono
  BY <1>2
<1>5. DOMAIN userBuckets' \subseteq Users
  BY <1>4, UserKeptSubset DEF AdmissionTypeOK
<1>6. \A v \in UserKept : userBuckets[v] \in UserBucket
  BY UserKeptSubset DEF AdmissionTypeOK, UserBucket
<1>7. [tokens |-> left, last |-> mono, limit |-> c] \in UserBucket
  BY <1>3 DEF AdmissionTypeOK, UserBucket
<1>8. userBuckets' \in [DOMAIN userBuckets' -> UserBucket]
  BY <1>2, <1>4, <1>6, <1>7
<1>9. userSpent' \in [Users -> Nat]
  BY <1>1, <1>2 DEF AdmissionTypeOK
<1>10. changes' \in [Users -> Nat]
  BY <1>2 DEF AdmissionTypeOK
<1>11. lastCleanup' \in 0..mono /\ mono \in Nat
  BY <1>2 DEF AdmissionTypeOK
<1>12. inFlight' \in 0..MaxInFlight
  BY <1>2, AdmissionBounds DEF AdmissionTypeOK
<1>13. TypeOK'
  BY <1>2, StutterType DEF AdmissionTypeOK
<1> QED
  BY <1>4, <1>5, <1>8, <1>9, <1>10, <1>11, <1>12, <1>13 DEF AdmissionTypeOK, UserBucket

LEMMA OtherType ==
    ASSUME AdmissionTypeOK, TypeOK',
           \/ \E k \in Keys : ProxyCheck(k)
           \/ TimePasses \/ ClockSetBack \/ NewWindow \/ UNCHANGED admissionVars
    PROVE  AdmissionTypeOK'
<1>1. userBuckets' = userBuckets /\ lastCleanup' = lastCleanup /\ (mono' = mono \/ mono' = mono + 1)
  BY DEF ProxyCheck, TimePasses, ClockSetBack, NewWindow, admissionVars, gatewayVars
<1>2. inFlight' \in 0..MaxInFlight
  BY AdmissionBounds
  DEF AdmissionTypeOK, ProxyCheck, TimePasses, ClockSetBack, NewWindow, admissionVars
<1>3. userSpent' \in [Users -> Nat] /\ changes' \in [Users -> Nat]
  BY DEF AdmissionTypeOK, ProxyCheck, TimePasses, ClockSetBack, NewWindow, admissionVars,
         gatewayVars
<1>4. mono \in Nat /\ mono' \in Nat /\ lastCleanup' \in 0..mono'
  BY <1>1 DEF AdmissionTypeOK
<1>5. ASSUME NEW u \in DOMAIN userBuckets
      PROVE  userBuckets[u] \in [tokens : 0..Minute, last : 0..mono', limit : Limits]
  <2>1. userBuckets[u] \in [tokens : 0..Minute, last : 0..mono, limit : Limits]
    BY DEF AdmissionTypeOK
  <2>2. 0..mono \subseteq 0..mono'
    BY <1>1, <1>4
  <2> QED
    BY <2>1, <2>2
<1>6. userBuckets' \in [DOMAIN userBuckets' ->
                          [tokens : 0..Minute, last : 0..mono', limit : Limits]]
  BY <1>1, <1>5 DEF AdmissionTypeOK
<1> QED
  BY <1>1, <1>2, <1>3, <1>4, <1>6 DEF AdmissionTypeOK

\* Every variable of the two limiters keeps its type.
THEOREM AdmissionTypeCorrect == AdmissionSpec => []AdmissionTypeOK
<1>1. AdmissionTypeOK /\ [AdmissionNext]_admissionVars => AdmissionTypeOK'
  <2> SUFFICES ASSUME AdmissionTypeOK, [AdmissionNext]_admissionVars PROVE AdmissionTypeOK'
    OBVIOUS
  <2>1. TypeOK'
    BY AdmissionStep, TypeStep DEF AdmissionTypeOK
  <2> QED
    BY <2>1, UserCheckType, OtherType DEF AdmissionNext
<1> QED
  BY <1>1, AdmissionInitType, PTL DEF AdmissionSpec

-----------------------------------------------------------------------------
(* The bound on what a user pays. *)

\* Minute * (1 + n), the buckets that n changes of the limit open.
LEMMA OneMoreBucket ==
    ASSUME NEW n \in Nat
    PROVE  /\ Minute * (1 + n) \in Nat
           /\ Minute * (1 + (n + 1)) = Minute * (1 + n) + Minute
           /\ Minute <= Minute * (1 + n)
BY MinuteNat

LEMMA UserLevelRange ==
    ASSUME AdmissionTypeOK, NEW u \in Users
    PROVE  UserLevel(u) \in 0..Minute
BY UserRefilledRange, MinuteNat DEF UserLevel

\* A bucket that the gateway's cleanup drops is full.
LEMMA UserDroppedIsFull ==
    ASSUME AdmissionTypeOK, NEW u \in DOMAIN userBuckets, u \notin UserKept
    PROVE  UserRefilled(userBuckets[u]) = Minute
<1>1. ~(userBuckets[u].last >= mono - Stale)
  BY DEF UserKept
<1>2. /\ userBuckets[u].last \in 0..mono /\ userBuckets[u].tokens \in 0..Minute
      /\ mono \in Nat
  BY UserRefilledRange DEF AdmissionTypeOK
<1> QED
  BY <1>1, <1>2, StaleAssumption, MinuteNat DEF UserRefilled, Lesser

LEMMA InitUserWindow == AdmissionInit => UserWindowBound
<1> SUFFICES ASSUME AdmissionInit, NEW u \in Users
             PROVE  userSpent[u] + UserLevel(u) <= Minute * (1 + changes[u]) + elapsed
  BY DEF UserWindowBound
<1>1. UserLevel(u) = Minute /\ userSpent[u] = 0 /\ changes[u] = 0 /\ elapsed = 0
  BY DEF AdmissionInit, Init, UserLevel
<1> QED
  BY <1>1, MinuteNat

LEMMA UserCheckWindow ==
    ASSUME AdmissionTypeOK, UserWindowBound,
           NEW u \in Users, NEW c \in Limits, CheckRateLimit(u, c)
    PROVE  UserWindowBound'
<1> SUFFICES ASSUME NEW v \in Users
             PROVE  userSpent'[v] + UserLevel(v)' <= Minute * (1 + changes'[v]) + elapsed'
  BY DEF UserWindowBound
<1> DEFINE known == u \in UserKept
           same == known /\ userBuckets[u].limit = c
           available == IF same THEN UserRefilled(userBuckets[u]) ELSE Minute
           left == IF available >= c THEN available - c ELSE available
<1>1. available \in 0..Minute /\ c \in Nat
  BY UserRefilledRange, UserKeptSubset, MinuteNat, LimitsAssumption
<1>2. /\ userBuckets' = [w \in UserKept \cup {u} |->
            IF w = u THEN [tokens |-> left, last |-> mono, limit |-> c] ELSE userBuckets[w]]
      /\ changes' = [changes EXCEPT ![u] = IF known /\ ~same THEN @ + 1 ELSE @]
      /\ userSpent' = [userSpent EXCEPT ![u] = IF available >= c THEN @ + c ELSE @]
      /\ mono' = mono /\ elapsed' = elapsed
  BY DEF CheckRateLimit, vars
<1>3. /\ userSpent[v] \in Nat /\ changes[v] \in Nat /\ UserLevel(v) \in 0..Minute
      /\ elapsed \in Nat /\ mono \in Nat
      /\ userSpent[v] + UserLevel(v) <= Minute * (1 + changes[v]) + elapsed
  BY UserLevelRange DEF AdmissionTypeOK, TypeOK, UserWindowBound
<1>4. (v = u /\ ~(known /\ ~same)) => available = UserLevel(v)
  BY UserDroppedIsFull, UserKeptSubset DEF UserLevel
<1> HIDE DEF available, same, known
<1>5. left \in 0..Minute /\ (available >= c => left + c = available)
      /\ (~(available >= c) => left = available)
  BY <1>1, MinuteNat
<1> HIDE DEF left
<1>6. CASE v # u
  <2>1. userSpent'[v] = userSpent[v] /\ changes'[v] = changes[v]
    BY <1>2, <1>6 DEF AdmissionTypeOK
  <2>2. UserLevel(v)' = UserLevel(v)
    <3>1. CASE v \in UserKept
      <4>1. v \in DOMAIN userBuckets /\ v \in DOMAIN userBuckets' /\ userBuckets'[v] = userBuckets[v]
        BY <1>2, <1>6, <3>1, UserKeptSubset
      <4> QED
        BY <1>2, <4>1 DEF UserLevel, UserRefilled
    <3>2. CASE v \notin UserKept
      <4>1. v \notin DOMAIN userBuckets'
        BY <1>2, <1>6, <3>2
      <4>2. UserLevel(v)' = Minute
        BY <4>1 DEF UserLevel
      <4> QED
        BY <3>2, <4>2, UserDroppedIsFull DEF UserLevel
    <3> QED
      BY <3>1, <3>2
  <2> QED
    BY <1>2, <1>3, <2>1, <2>2
<1>7. CASE v = u
  <2>1. UserLevel(v)' = left
    <3>1. u \in DOMAIN userBuckets' /\ userBuckets'[u] = [tokens |-> left, last |-> mono, limit |-> c]
      BY <1>2
    <3>2. UserRefilled(userBuckets[u])' = left
      BY <1>2, <1>3, <1>5, <3>1, MinuteNat DEF UserRefilled, Lesser
    <3> QED
      BY <1>7, <3>1, <3>2 DEF UserLevel
  <2>2. userSpent'[v] = IF available >= c THEN userSpent[v] + c ELSE userSpent[v]
    BY <1>2, <1>7 DEF AdmissionTypeOK
  <2>3. userSpent'[v] + left = userSpent[v] + available
    BY <1>1, <1>3, <1>5, <2>2
  <2>4. CASE known /\ ~same
    <3>1. changes'[v] = changes[v] + 1
      BY <1>2, <1>7, <2>4 DEF AdmissionTypeOK
    <3>2. Minute * (1 + changes'[v]) = Minute * (1 + changes[v]) + Minute
      BY <1>3, <3>1, OneMoreBucket
    <3>3. Minute * (1 + changes[v]) \in Nat
      BY <1>3, OneMoreBucket
    <3> DEFINE full == Minute * (1 + changes[v])
    <3> HIDE DEF full
    <3>4. full \in Nat /\ userSpent[v] + UserLevel(v) <= full + elapsed
      BY <1>3, <3>3 DEF full
    <3>5. userSpent[v] + available <= (full + Minute) + elapsed
      BY <1>1, <1>3, <3>4, MinuteNat
    <3> QED
      BY <1>2, <2>1, <2>3, <3>2, <3>5 DEF full
  <2>5. CASE ~(known /\ ~same)
    <3>1. changes'[v] = changes[v]
      BY <1>2, <1>7, <2>5 DEF AdmissionTypeOK
    <3> QED
      BY <1>2, <1>3, <1>4, <1>7, <2>1, <2>3, <2>5, <3>1
  <2> QED
    BY <2>4, <2>5
<1> QED
  BY <1>6, <1>7

LEMMA TimeUserWindow ==
    ASSUME AdmissionTypeOK, UserWindowBound, TimePasses PROVE UserWindowBound'
<1> SUFFICES ASSUME NEW v \in Users
             PROVE  userSpent'[v] + UserLevel(v)' <= Minute * (1 + changes'[v]) + elapsed'
  BY DEF UserWindowBound
<1>1. /\ userSpent' = userSpent /\ changes' = changes /\ userBuckets' = userBuckets
      /\ elapsed' = elapsed + 1 /\ mono' = mono + 1
  BY DEF TimePasses, Tick, gatewayVars
<1>2. /\ userSpent[v] \in Nat /\ changes[v] \in Nat /\ UserLevel(v) \in 0..Minute
      /\ elapsed \in Nat /\ mono \in Nat
      /\ userSpent[v] + UserLevel(v) <= Minute * (1 + changes[v]) + elapsed
  BY UserLevelRange DEF AdmissionTypeOK, TypeOK, UserWindowBound
<1>3. Minute * (1 + changes[v]) \in Nat
  BY <1>2, OneMoreBucket
<1>4. UserLevel(v)' \in Nat /\ UserLevel(v)' <= UserLevel(v) + 1
  <2>1. CASE v \notin DOMAIN userBuckets
    BY <1>1, <2>1, MinuteNat DEF UserLevel
  <2>2. CASE v \in DOMAIN userBuckets
    <3>1. userBuckets[v].last \in 0..mono /\ userBuckets[v].tokens \in 0..Minute
      BY <2>2, UserRefilledRange
    <3>2. UserLevel(v) = Lesser(Minute, userBuckets[v].tokens + (mono - userBuckets[v].last))
      BY <2>2 DEF UserLevel, UserRefilled
    <3>3. UserLevel(v)' = Lesser(Minute, userBuckets[v].tokens + (mono' - userBuckets[v].last))
      BY <1>1, <2>2 DEF UserLevel, UserRefilled
    <3> QED
      BY <1>1, <1>2, <3>1, <3>2, <3>3, MinuteNat DEF Lesser
  <2> QED
    BY <2>1, <2>2
<1> DEFINE full == Minute * (1 + changes[v])
           old == UserLevel(v)
           new == UserLevel(v)'
           paid == userSpent[v]
<1>5. full \in Nat /\ old \in Nat /\ new \in Nat /\ paid \in Nat /\ new <= old + 1
      /\ paid + old <= full + elapsed
  BY <1>2, <1>3, <1>4
<1> HIDE DEF full, old, new, paid
<1>6. paid + new <= full + (elapsed + 1)
  BY <1>2, <1>5
<1> QED
  BY <1>1, <1>6 DEF full, new, paid

LEMMA OpenUserWindow == ASSUME AdmissionTypeOK, NewWindow PROVE UserWindowBound'
<1> SUFFICES ASSUME NEW v \in Users
             PROVE  userSpent'[v] + UserLevel(v)' <= Minute * (1 + changes'[v]) + elapsed'
  BY DEF UserWindowBound
<1>1. userSpent'[v] = 0 /\ changes'[v] = 0 /\ elapsed' = 0 /\ UserLevel(v)' = UserLevel(v)
  BY DEF NewWindow, OpenWindow, UserLevel, UserRefilled
<1>2. UserLevel(v) \in 0..Minute
  BY UserLevelRange
<1> QED
  BY <1>1, <1>2, MinuteNat

\* In every window a user pays at most one full bucket, another for each change of
\* the limit, and the time that passed, for every set of limits and users.
THEOREM UserWindowBounded == AdmissionSpec => []UserWindowBound
<1>1. ASSUME UserWindowBound, UNCHANGED <<mono, userBuckets, userSpent, changes, elapsed>>
      PROVE  UserWindowBound'
  BY <1>1 DEF UserWindowBound, UserLevel, UserRefilled
<1>2. AdmissionTypeOK /\ UserWindowBound /\ [AdmissionNext]_admissionVars => UserWindowBound'
  BY <1>1, UserCheckWindow, TimeUserWindow, OpenUserWindow
  DEF AdmissionNext, ProxyCheck, ClockSetBack, SetBack, gatewayVars, admissionVars, vars
<1> QED
  BY <1>2, InitUserWindow, AdmissionTypeCorrect, PTL DEF AdmissionSpec
=============================================================================
