------------------------- MODULE RateLimiterProofs -------------------------
(***************************************************************************)
(* Proofs about the proxy's rate limiter, for every rate, every number of  *)
(* keys and buckets, every clock.  All rest on how the level of a key, the *)
(* bucket's content if it were used now, moves: up by at most one in a     *)
(* tick, not at all when a bucket is created or dropped, down by the cost  *)
(* when a request is allowed.                                              *)
(***************************************************************************)
EXTENDS RateLimiter, FiniteSetTheorems, TLAPS

LEMMA MinuteNat == Minute \in Nat /\ Cost \in Nat /\ Stale \in Nat
BY RateAssumption, StaleAssumption

\* refilled_tokens never leaves the bucket's capacity.
LEMMA RefilledRange ==
    ASSUME TypeOK, NEW b \in [tokens : 0..Minute, last : Nat]
    PROVE  Refilled(b) \in 0..Minute
BY MinuteNat DEF Refilled, Lesser, TypeOK

\* The level of a key is within the capacity.
LEMMA LevelRange ==
    ASSUME TypeOK, NEW k \in Keys
    PROVE  Level(k) \in 0..Minute
BY RefilledRange, MinuteNat DEF Level, TypeOK

\* The same after a step.
LEMMA LevelRangeNext ==
    ASSUME TypeOK', NEW k \in Keys
    PROVE  Level(k)' \in 0..Minute
<1>1. CASE k \notin DOMAIN buckets'
  BY <1>1, MinuteNat DEF Level
<1>2. CASE k \in DOMAIN buckets'
  <2>1. buckets'[k].tokens \in 0..Minute /\ buckets'[k].last \in Nat /\ now' \in Nat
    BY <1>2 DEF TypeOK
  <2>2. Level(k)' = Refilled(buckets[k])'
    BY <1>2 DEF Level
  <2>3. Refilled(buckets[k])' \in 0..Minute
    BY <2>1, MinuteNat DEF Refilled, Lesser
  <2> QED
    BY <2>2, <2>3
<1> QED
  BY <1>1, <1>2

\* A stale bucket is full: whoever drops it changes no level.
LEMMA StaleIsFull ==
    ASSUME TypeOK, NEW k \in StaleKeys
    PROVE  Refilled(buckets[k]) = Minute
<1>1. k \in DOMAIN buckets /\ buckets[k].last < now - Stale
  BY DEF StaleKeys
<1>2. buckets[k].tokens \in 0..Minute /\ buckets[k].last \in Nat /\ now \in Nat
  BY <1>1 DEF TypeOK
<1>3. Stale >= Minute
  BY StaleAssumption
<1> QED
  BY <1>1, <1>2, <1>3, MinuteNat DEF Refilled, Lesser

\* What check_request sees of its key is the key's level.
LEMMA AvailableIsLevel ==
    ASSUME TypeOK, NEW k \in Keys
    PROVE  Refilled(IF k \in KeptKeys THEN buckets[k] ELSE Fresh) = Level(k)
<1>1. Refilled(Fresh) = Minute
  BY MinuteNat DEF Refilled, Fresh, Lesser, TypeOK
<1>2. KeptKeys \subseteq DOMAIN buckets
  BY DEF KeptKeys
<1>3. ASSUME k \in DOMAIN buckets, k \notin KeptKeys PROVE Refilled(buckets[k]) = Minute
  BY <1>3, StaleIsFull DEF KeptKeys
<1> QED
  BY <1>1, <1>2, <1>3 DEF Level

\* The arithmetic of a refill at two instants.
LEMMA RefillLater ==
    ASSUME NEW m \in Nat, NEW t \in 0..m, NEW l \in Nat, NEW n \in Nat,
           NEW p \in Nat, p = n + 1, NEW x, NEW y,
           x = (IF m < t + (IF n > l THEN n - l ELSE 0) THEN m
                ELSE t + (IF n > l THEN n - l ELSE 0)),
           y = (IF m < t + (IF p > l THEN p - l ELSE 0) THEN m
                ELSE t + (IF p > l THEN p - l ELSE 0))
    PROVE  /\ y = x \/ (y = x + 1 /\ x < m)
           /\ l <= n => y = (IF x < m THEN x + 1 ELSE x)
<1>1. CASE p <= l
  BY <1>1
<1>2. CASE p > l /\ t + (n - l) < m
  BY <1>2
<1>3. CASE p > l /\ t + (n - l) >= m
  BY <1>3
<1> QED
  BY <1>1, <1>2, <1>3

-----------------------------------------------------------------------------
\* How each step moves the levels.

LEMMA CheckLevels ==
    ASSUME TypeOK, NEW k \in Keys, CheckRequest(k), UNCHANGED now
    PROVE  /\ Level(k) >= Cost => Level(k)' = Level(k) - Cost
           /\ Level(k) < Cost => Level(k)' = Level(k)
           /\ \A j \in Keys \ {k} : Level(j)' = Level(j)
<1> DEFINE available == Refilled(IF k \in KeptKeys THEN buckets[k] ELSE Fresh)
           left == IF available >= Cost THEN available - Cost ELSE available
<1>1. available = Level(k) /\ Level(k) \in 0..Minute
  BY AvailableIsLevel, LevelRange
<1>2. buckets' = [j \in KeptKeys \cup {k} |->
                     IF j = k THEN [tokens |-> left, last |-> now] ELSE buckets[j]]
  BY DEF CheckRequest
<1> HIDE DEF available
<1>3. left \in 0..Minute
  BY <1>1, MinuteNat
<1>4. Level(k)' = left
  <2>1. k \in DOMAIN buckets' /\ buckets'[k] = [tokens |-> left, last |-> now]
    BY <1>2
  <2>2. now' = now /\ now \in Nat
    BY DEF TypeOK
  <2> HIDE DEF left
  <2>3. Refilled(buckets[k])' = left
    BY <2>1, <2>2, <1>3, MinuteNat DEF Refilled, Lesser
  <2> QED
    BY <2>1, <2>3 DEF Level
<1>5. ASSUME NEW j \in Keys \ {k} PROVE Level(j)' = Level(j)
  <2>1. CASE j \in KeptKeys
    <3>1. j \in DOMAIN buckets /\ j \in DOMAIN buckets' /\ buckets'[j] = buckets[j]
      BY <1>2, <1>5, <2>1 DEF KeptKeys
    <3> QED
      BY <3>1 DEF Level, Refilled
  <2>2. CASE j \notin KeptKeys
    <3>1. j \notin DOMAIN buckets'
      BY <1>2, <1>5, <2>2
    <3>2. Level(j)' = Minute
      BY <3>1 DEF Level
    <3>3. j \in DOMAIN buckets => j \in StaleKeys
      BY <2>2 DEF KeptKeys
    <3> QED
      BY <3>2, <3>3, StaleIsFull DEF Level
  <2> QED
    BY <2>1, <2>2
<1>6. Level(k) >= Cost => Level(k)' = Level(k) - Cost
  BY <1>1, <1>4
<1>7. Level(k) < Cost => Level(k)' = Level(k)
  BY <1>1, <1>4, MinuteNat
<1> QED
  BY <1>5, <1>6, <1>7

LEMMA TickLevels ==
    ASSUME TypeOK, Tick, NEW k \in Keys
    PROVE  /\ Level(k)' = Level(k) \/ (Level(k)' = Level(k) + 1 /\ Level(k) < Minute)
           /\ (k \in DOMAIN buckets => buckets[k].last <= now)
                 => Level(k)' = (IF Level(k) < Minute THEN Level(k) + 1 ELSE Level(k))
<1>1. buckets' = buckets /\ now' = now + 1 /\ now \in Nat
  BY DEF Tick, TypeOK
<1>2. CASE k \notin DOMAIN buckets
  BY <1>1, <1>2, MinuteNat DEF Level
<1>3. CASE k \in DOMAIN buckets
  <2>1. buckets[k].tokens \in 0..Minute /\ buckets[k].last \in Nat
    BY <1>3 DEF TypeOK
  <2>2. Level(k) = Refilled(buckets[k])
    BY <1>3 DEF Level
  <2>3. Level(k)' = Lesser(Minute, buckets[k].tokens +
                       (IF now' > buckets[k].last THEN now' - buckets[k].last ELSE 0))
    BY <1>1, <1>3 DEF Level, Refilled
  <2>4. Level(k) = Lesser(Minute, buckets[k].tokens +
                       (IF now > buckets[k].last THEN now - buckets[k].last ELSE 0))
    BY <2>2 DEF Refilled
  <2> DEFINE lev == Level(k)
             new == Level(k)'
             t == buckets[k].tokens
             l == buckets[k].last
  <2>5. /\ new = lev \/ (new = lev + 1 /\ lev < Minute)
        /\ l <= now => new = (IF lev < Minute THEN lev + 1 ELSE lev)
    <3> HIDE DEF lev, new, t, l
    <3>1. t \in 0..Minute /\ l \in Nat
      BY <2>1 DEF t, l
    <3>2. lev = Lesser(Minute, t + (IF now > l THEN now - l ELSE 0))
      BY <2>4 DEF lev, t, l
    <3>3. new = Lesser(Minute, t + (IF now' > l THEN now' - l ELSE 0))
      BY <2>3 DEF new, t, l
    <3> QED
      BY <1>1, <3>1, <3>2, <3>3, MinuteNat, RefillLater DEF Lesser
  <2> QED
    BY <1>3, <2>5
<1> QED
  BY <1>2, <1>3

LEMMA SetBackLevels ==
    ASSUME TypeOK, SetBack, NEW k \in Keys
    PROVE  Level(k)' <= Level(k)
<1>1. PICK d \in 1..MaxBack : d <= now /\ now' = now - d
  BY DEF SetBack
<1>2. buckets' = buckets /\ now \in Nat /\ now' \in Nat /\ now' <= now
  BY <1>1, ClockAssumption DEF SetBack, TypeOK
<1>3. CASE k \notin DOMAIN buckets
  BY <1>2, <1>3, MinuteNat DEF Level
<1>4. CASE k \in DOMAIN buckets
  <2>1. buckets[k].tokens \in 0..Minute /\ buckets[k].last \in Nat
    BY <1>4 DEF TypeOK
  <2>2. Level(k) = Refilled(buckets[k])
    BY <1>4 DEF Level
  <2>3. Level(k)' = Lesser(Minute, buckets[k].tokens +
                       (IF now' > buckets[k].last THEN now' - buckets[k].last ELSE 0))
    BY <1>2, <1>4 DEF Level, Refilled
  <2> QED
    BY <1>2, <2>1, <2>2, <2>3, MinuteNat DEF Refilled, Lesser
<1> QED
  BY <1>3, <1>4

-----------------------------------------------------------------------------
(* The type invariant. *)

LEMMA InitType == Init => TypeOK
<1> SUFFICES ASSUME Init PROVE TypeOK
  OBVIOUS
<1>1. DOMAIN buckets = {} /\ buckets = [k \in DOMAIN buckets |-> Fresh]
  BY DEF Init
<1>2. DOMAIN buckets \subseteq Keys
  BY <1>1
<1>3. buckets \in [DOMAIN buckets -> [tokens : 0..Minute, last : Nat]]
  BY <1>1
<1>4. due \in [Keys -> -1..Cost]
  BY MinuteNat DEF Init
<1> QED
  BY <1>2, <1>3, <1>4 DEF Init, TypeOK

LEMMA CheckType ==
    ASSUME TypeOK, NEW k \in Keys, CheckRequest(k), UNCHANGED <<now, top, elapsed>>
    PROVE  TypeOK'
<1> DEFINE available == Refilled(IF k \in KeptKeys THEN buckets[k] ELSE Fresh)
           left == IF available >= Cost THEN available - Cost ELSE available
<1>1. available \in 0..Minute
  BY AvailableIsLevel, LevelRange
<1>2. /\ buckets' = [j \in KeptKeys \cup {k} |->
                        IF j = k THEN [tokens |-> left, last |-> now] ELSE buckets[j]]
      /\ answer' = [answer EXCEPT ![k] = IF available >= Cost THEN "allowed" ELSE "refused"]
      /\ spent' = [spent EXCEPT ![k] = IF available >= Cost THEN @ + Cost ELSE @]
      /\ due' = [due EXCEPT ![k] = IF available >= Cost THEN -1 ELSE Wait(available)]
  BY DEF CheckRequest
<1> HIDE DEF available
<1>3. left \in 0..Minute
  BY <1>1, MinuteNat
<1> HIDE DEF left
<1>4. DOMAIN buckets' = KeptKeys \cup {k} /\ KeptKeys \subseteq DOMAIN buckets
  BY <1>2 DEF KeptKeys
<1>5. \A j \in KeptKeys : buckets[j] \in [tokens : 0..Minute, last : Nat]
  BY <1>4 DEF TypeOK
<1>6. [tokens |-> left, last |-> now] \in [tokens : 0..Minute, last : Nat]
  BY <1>3 DEF TypeOK
<1>7. buckets' \in [DOMAIN buckets' -> [tokens : 0..Minute, last : Nat]]
  BY <1>2, <1>4, <1>5, <1>6
<1>8. DOMAIN buckets' \subseteq Keys
  BY <1>4 DEF TypeOK
<1>9. answer' \in [Keys -> {"none", "allowed", "refused"}]
  BY <1>2 DEF TypeOK
<1>10. spent' \in [Keys -> Nat]
  BY <1>2, MinuteNat DEF TypeOK
<1>11. due' \in [Keys -> -1..Cost]
  BY <1>1, <1>2, MinuteNat DEF TypeOK, Wait
<1>12. now' \in Nat /\ top' \in Nat /\ elapsed' \in Nat
  BY DEF TypeOK
<1> QED
  BY <1>7, <1>8, <1>9, <1>10, <1>11, <1>12 DEF TypeOK

LEMMA TickType == ASSUME TypeOK, Tick PROVE TypeOK'
<1>1. now' \in Nat /\ top' \in Nat /\ elapsed' \in Nat
  BY DEF TypeOK, Tick
<1>2. due' \in [Keys -> -1..Cost]
  BY MinuteNat DEF TypeOK, Tick
<1> QED
  BY <1>1, <1>2 DEF TypeOK, Tick

LEMMA SetBackType == ASSUME TypeOK, SetBack PROVE TypeOK'
<1>1. now' \in Nat
  BY ClockAssumption DEF TypeOK, SetBack
<1>2. due' \in [Keys -> -1..Cost]
  BY MinuteNat DEF SetBack
<1> QED
  BY <1>1, <1>2 DEF TypeOK, SetBack

LEMMA WindowType == ASSUME TypeOK, OpenWindow PROVE TypeOK'
BY DEF TypeOK, OpenWindow

LEMMA StutterType == ASSUME TypeOK, UNCHANGED vars PROVE TypeOK'
BY DEF TypeOK, vars

LEMMA TypeStep == TypeOK /\ [Next]_vars => TypeOK'
BY CheckType, TickType, SetBackType, WindowType, StutterType DEF Next

\* Every variable of the limiter keeps its type; above all, no bucket is ever
\* overdrawn or filled beyond a minute.
THEOREM TypeCorrect == Spec => []TypeOK
BY InitType, TypeStep, PTL DEF Spec

-----------------------------------------------------------------------------
(* The bound on a window.  With the level in it, it is inductive as it is. *)

LEMMA InitWindow == Init => WindowBound
<1> SUFFICES ASSUME Init, NEW k \in Keys PROVE spent[k] + Level(k) <= Minute + elapsed
  BY DEF WindowBound
<1>1. Level(k) = Minute /\ spent[k] = 0 /\ elapsed = 0
  BY DEF Init, Level
<1> QED
  BY <1>1, MinuteNat

LEMMA CheckWindow ==
    ASSUME TypeOK, WindowBound, NEW k \in Keys, CheckRequest(k),
           UNCHANGED <<now, top, elapsed>>
    PROVE  WindowBound'
<1> SUFFICES ASSUME NEW j \in Keys PROVE spent'[j] + Level(j)' <= Minute + elapsed'
  BY DEF WindowBound
<1>1. Level(j) \in 0..Minute /\ spent[j] \in Nat /\ elapsed \in Nat
  BY LevelRange DEF TypeOK
<1>2. spent[j] + Level(j) <= Minute + elapsed
  BY DEF WindowBound
<1>3. spent' = [spent EXCEPT ![k] = IF Level(k) >= Cost THEN @ + Cost ELSE @]
  BY AvailableIsLevel DEF CheckRequest
<1>4. elapsed' = elapsed
  OBVIOUS
<1>5. CASE j # k
  <2>1. Level(j)' = Level(j) /\ spent'[j] = spent[j]
    BY <1>3, <1>5, CheckLevels DEF TypeOK
  <2> QED
    BY <1>2, <1>4, <2>1
<1>6. CASE j = k /\ Level(k) >= Cost
  <2>1. Level(j)' = Level(j) - Cost /\ spent'[j] = spent[j] + Cost
    BY <1>3, <1>6, CheckLevels DEF TypeOK
  <2>2. spent'[j] + Level(j)' = spent[j] + Level(j)
    BY <1>1, <2>1, MinuteNat
  <2> QED
    BY <1>2, <1>4, <2>2
<1>7. CASE j = k /\ ~(Level(k) >= Cost)
  <2>1. Level(k) < Cost
    BY <1>1, <1>7, MinuteNat
  <2>2. Level(j)' = Level(j)
    BY <1>7, <2>1, CheckLevels
  <2>3. spent'[j] = spent[j]
    BY <1>3, <1>7 DEF TypeOK
  <2> QED
    BY <1>2, <1>4, <2>2, <2>3
<1> QED
  BY <1>5, <1>6, <1>7

LEMMA TickWindow == ASSUME TypeOK, WindowBound, Tick PROVE WindowBound'
<1> SUFFICES ASSUME NEW j \in Keys PROVE spent'[j] + Level(j)' <= Minute + elapsed'
  BY DEF WindowBound
<1>1. Level(j) \in 0..Minute /\ spent[j] \in Nat /\ elapsed \in Nat
  BY LevelRange DEF TypeOK
<1>2. spent[j] + Level(j) <= Minute + elapsed
  BY DEF WindowBound
<1>3. spent'[j] = spent[j] /\ elapsed' = elapsed + 1
  BY DEF Tick
<1>4. Level(j)' = Level(j) \/ Level(j)' = Level(j) + 1
  BY TickLevels
<1> DEFINE new == Level(j)'
           old == Level(j)
<1>5. new \in Nat /\ old \in Nat /\ (new = old \/ new = old + 1)
      /\ spent[j] + old <= Minute + elapsed
  BY <1>1, <1>2, <1>4
<1> HIDE DEF new, old
<1>6. spent[j] + new <= Minute + (elapsed + 1)
  BY <1>1, <1>5, MinuteNat
<1> QED
  BY <1>3, <1>6 DEF new

LEMMA SetBackWindow == ASSUME TypeOK, WindowBound, SetBack PROVE WindowBound'
<1> SUFFICES ASSUME NEW j \in Keys PROVE spent'[j] + Level(j)' <= Minute + elapsed'
  BY DEF WindowBound
<1>1. Level(j) \in 0..Minute /\ spent[j] \in Nat /\ elapsed \in Nat
  BY LevelRange DEF TypeOK
<1>2. spent[j] + Level(j) <= Minute + elapsed
  BY DEF WindowBound
<1>3. spent'[j] = spent[j] /\ elapsed' = elapsed
  BY DEF SetBack
<1>4. Level(j)' <= Level(j)
  BY SetBackLevels
<1>5. Level(j)' \in 0..Minute
  BY SetBackType, LevelRangeNext
<1> DEFINE new == Level(j)'
<1> HIDE DEF new
<1>6. new \in Nat /\ new <= Level(j)
  BY <1>4, <1>5 DEF new
<1>7. spent[j] + new <= Minute + elapsed
  BY <1>1, <1>2, <1>6, MinuteNat
<1> QED
  BY <1>3, <1>7 DEF new

LEMMA OpenWindowBound == ASSUME TypeOK, OpenWindow PROVE WindowBound'
<1> SUFFICES ASSUME NEW j \in Keys PROVE spent'[j] + Level(j)' <= Minute + elapsed'
  BY DEF WindowBound
<1>1. Level(j)' = Level(j) /\ spent'[j] = 0 /\ elapsed' = 0
  BY DEF OpenWindow, Level, Refilled
<1>2. Level(j) \in 0..Minute
  BY LevelRange
<1> QED
  BY <1>1, <1>2, MinuteNat

LEMMA StutterWindow == ASSUME WindowBound, UNCHANGED vars PROVE WindowBound'
BY DEF WindowBound, vars, Level, Refilled

\* In every window a key pays at most one full bucket plus the time that passed,
\* for every rate, every set of keys and every way the clock is set back.
THEOREM WindowBounded == Spec => []WindowBound
<1>1. TypeOK /\ WindowBound /\ [Next]_vars => WindowBound'
  BY CheckWindow, TickWindow, SetBackWindow, OpenWindowBound, StutterWindow DEF Next
<1> QED
  BY <1>1, InitWindow, TypeCorrect, PTL DEF Spec

-----------------------------------------------------------------------------
(* The wait a client is told. *)

LEMMA InitWait == Init => WaitHonoured
BY DEF Init, WaitHonoured

LEMMA CheckWait ==
    ASSUME TypeOK, WaitHonoured, NEW k \in Keys, CheckRequest(k),
           UNCHANGED <<now, top, elapsed>>
    PROVE  WaitHonoured'
<1> SUFFICES ASSUME NEW j \in Keys, due'[j] >= 0 PROVE Level(j)' + due'[j] >= Cost
  BY DEF WaitHonoured
<1>1. due' = [due EXCEPT ![k] = IF Level(k) >= Cost THEN -1 ELSE Cost - Level(k)]
  BY AvailableIsLevel DEF CheckRequest, Wait
<1>2. Level(k) \in 0..Minute
  BY LevelRange
<1>3. CASE j # k
  <2>1. Level(j)' = Level(j) /\ due'[j] = due[j]
    BY <1>1, <1>3, CheckLevels DEF TypeOK
  <2> QED
    BY <2>1 DEF WaitHonoured
<1>4. CASE j = k
  <2>1. due'[k] = IF Level(k) >= Cost THEN -1 ELSE Cost - Level(k)
    BY <1>1 DEF TypeOK
  <2>2. ~(Level(k) >= Cost)
    BY <1>4, <2>1
  <2>3. Level(k) < Cost /\ due'[k] = Cost - Level(k)
    BY <1>2, <2>1, <2>2, MinuteNat
  <2>4. Level(k)' = Level(k)
    BY <2>3, CheckLevels
  <2>5. Level(k) + (Cost - Level(k)) = Cost
    BY <1>2, MinuteNat
  <2> QED
    BY <1>4, <2>3, <2>4, <2>5, MinuteNat
<1> QED
  BY <1>3, <1>4

\* No bucket was updated after the highest reading of the clock, and none of a
\* client that is waiting was updated after the clock's present reading.
Clocks ==
    /\ now <= top
    /\ \A k \in DOMAIN buckets :
          /\ buckets[k].last <= top
          /\ due[k] >= 0 => buckets[k].last <= now

LEMMA InitClocks == Init => Clocks
BY DEF Init, Clocks

LEMMA CheckClocks ==
    ASSUME TypeOK, Clocks, NEW k \in Keys, CheckRequest(k),
           UNCHANGED <<now, top, elapsed>>
    PROVE  Clocks'
<1>1. DOMAIN buckets' = KeptKeys \cup {k} /\ KeptKeys \subseteq DOMAIN buckets
  BY DEF CheckRequest, KeptKeys
<1>2. now \in Nat /\ top \in Nat /\ now' = now /\ top' = top
  BY DEF TypeOK
<1>3. ASSUME NEW j \in DOMAIN buckets'
      PROVE  /\ buckets'[j].last <= top'
             /\ due'[j] >= 0 => buckets'[j].last <= now'
  <2>1. CASE j = k
    <3>1. buckets'[k].last = now
      BY DEF CheckRequest
    <3> QED
      BY <1>2, <2>1, <3>1 DEF Clocks
  <2>2. CASE j # k
    <3>1. j \in KeptKeys /\ j \in DOMAIN buckets
      BY <1>1, <1>3, <2>2
    <3>2. buckets'[j] = buckets[j]
      BY <2>2, <3>1 DEF CheckRequest
    <3>3. due'[j] = due[j]
      BY <2>2, <3>1 DEF CheckRequest, TypeOK
    <3> QED
      BY <1>2, <3>1, <3>2, <3>3 DEF Clocks
  <2> QED
    BY <2>1, <2>2
<1> QED
  BY <1>2, <1>3 DEF Clocks

LEMMA TickClocks == ASSUME TypeOK, Clocks, Tick PROVE Clocks'
<1>1. /\ now \in Nat /\ top \in Nat /\ now' = now + 1
      /\ top' = (IF now < top THEN top ELSE now + 1) /\ buckets' = buckets
  BY DEF TypeOK, Tick
<1>2. now <= top
  BY DEF Clocks
<1>3. now' <= top' /\ top <= top' /\ now <= now' /\ now' \in Nat /\ top' \in Nat
  BY <1>1, <1>2
<1>4. ASSUME NEW k \in DOMAIN buckets
      PROVE  buckets[k].last <= top' /\ (due'[k] >= 0 => buckets[k].last <= now')
  <2>1. k \in Keys /\ buckets[k].last \in Nat /\ due[k] \in -1..Cost
    BY DEF TypeOK
  <2>2. buckets[k].last <= top /\ (due[k] >= 0 => buckets[k].last <= now)
    BY DEF Clocks
  <2>3. due'[k] >= 0 => due[k] >= 0
    BY <2>1, MinuteNat DEF Tick
  <2> QED
    BY <1>1, <1>3, <2>1, <2>2, <2>3
<1> QED
  BY <1>1, <1>3, <1>4 DEF Clocks

LEMMA SetBackClocks == ASSUME TypeOK, Clocks, SetBack PROVE Clocks'
<1>1. PICK d \in 1..MaxBack : d <= now /\ now' = now - d
  BY DEF SetBack
<1>2. now \in Nat /\ top \in Nat /\ top' = top /\ buckets' = buckets /\ now <= top
  BY DEF SetBack, TypeOK, Clocks
<1>3. now' <= top'
  BY <1>1, <1>2, ClockAssumption
<1>4. \A k \in DOMAIN buckets : ~(due'[k] >= 0)
  BY DEF SetBack, TypeOK
<1>5. \A k \in DOMAIN buckets : buckets[k].last <= top
  BY DEF Clocks
<1> QED
  BY <1>2, <1>3, <1>4, <1>5 DEF Clocks

LEMMA ClocksStep == TypeOK /\ Clocks /\ [Next]_vars => Clocks'
<1>1. ASSUME Clocks, UNCHANGED <<now, buckets, top, due>> PROVE Clocks'
  BY <1>1 DEF Clocks
<1> QED
  BY <1>1, CheckClocks, TickClocks, SetBackClocks DEF Next, OpenWindow, vars

LEMMA ClocksInv == Spec => []Clocks
BY InitClocks, ClocksStep, TypeCorrect, PTL DEF Spec

LEMMA TickWait == ASSUME TypeOK, Clocks, WaitHonoured, Tick PROVE WaitHonoured'
<1> SUFFICES ASSUME NEW k \in Keys, due'[k] >= 0 PROVE Level(k)' + due'[k] >= Cost
  BY DEF WaitHonoured
<1>1. due[k] \in -1..Cost /\ due'[k] = (IF due[k] > 0 THEN due[k] - 1 ELSE due[k])
  BY DEF TypeOK, Tick
<1>2. due[k] >= 0
  BY <1>1, MinuteNat
<1>3. Level(k) + due[k] >= Cost
  BY <1>2 DEF WaitHonoured
<1>4. k \in DOMAIN buckets => buckets[k].last <= now
  BY <1>2 DEF Clocks
<1>5. Level(k)' = (IF Level(k) < Minute THEN Level(k) + 1 ELSE Level(k))
  BY <1>4, TickLevels
<1>6. Level(k) \in 0..Minute /\ Cost <= Minute
  BY LevelRange, RateAssumption
<1> DEFINE new == Level(k)'
           old == Level(k)
           later == due'[k]
           before == due[k]
<1>7. /\ old \in 0..Minute /\ before \in -1..Cost /\ before >= 0 /\ old + before >= Cost
      /\ new = (IF old < Minute THEN old + 1 ELSE old)
      /\ later = (IF before > 0 THEN before - 1 ELSE before)
  BY <1>1, <1>2, <1>3, <1>5, <1>6
<1> HIDE DEF new, old, later, before
<1>8. new + later >= Cost
  BY <1>6, <1>7, MinuteNat
<1> QED
  BY <1>8 DEF new, later

LEMMA SetBackWait == ASSUME TypeOK, SetBack PROVE WaitHonoured'
BY DEF SetBack, WaitHonoured

\* Whoever waits as long as the limiter said is allowed when asking again, as
\* long as the clock is not set back meanwhile.
THEOREM WaitIsHonoured == Spec => []WaitHonoured
<1>1. ASSUME WaitHonoured, UNCHANGED <<now, buckets, due>> PROVE WaitHonoured'
  BY <1>1 DEF WaitHonoured, Level, Refilled
<1>2. TypeOK /\ Clocks /\ WaitHonoured /\ [Next]_vars => WaitHonoured'
  BY <1>1, CheckWait, TickWait, SetBackWait DEF Next, OpenWindow, vars
<1> QED
  BY <1>2, InitWait, TypeCorrect, ClocksInv, PTL DEF Spec

-----------------------------------------------------------------------------
(* The limiter implements the token bucket. *)

LEMMA InitRefines == Init => Bucket!Init
<1> SUFFICES ASSUME Init PROVE Bucket!Init
  OBVIOUS
<1>1. \A k \in Keys : Level(k) = Minute
  BY DEF Init, Level
<1> QED
  BY <1>1 DEF Init, Bucket!Init

LEMMA LevelsFunction ==
    ASSUME TypeOK PROVE [k \in Keys |-> Level(k)] \in [Keys -> 0..Minute]
BY LevelRange

LEMMA CheckRefines ==
    ASSUME TypeOK, NEW k \in Keys, CheckRequest(k), UNCHANGED <<now, top, elapsed>>
    PROVE  Bucket!Allow(k) \/ Bucket!Refuse(k)
<1> DEFINE level == [j \in Keys |-> Level(j)]
<1>1. answer' = [answer EXCEPT ![k] = IF Level(k) >= Cost THEN "allowed" ELSE "refused"]
  BY AvailableIsLevel DEF CheckRequest
<1>2. Level(k) \in 0..Minute
  BY LevelRange
<1>3. CASE Level(k) >= Cost
  <2>1. \A j \in Keys : Level(j)' = (IF j = k THEN Level(k) - Cost ELSE Level(j))
    BY <1>3, CheckLevels
  <2>2. level' = [level EXCEPT ![k] = @ - Cost]
    BY <2>1
  <2> QED
    BY <1>1, <1>3, <2>2 DEF Bucket!Allow
<1>4. CASE Level(k) < Cost
  <2>1. \A j \in Keys : Level(j)' = Level(j)
    BY <1>4, CheckLevels
  <2>2. level' = level
    BY <2>1
  <2>3. ~(Level(k) >= Cost)
    BY <1>2, <1>4, MinuteNat
  <2> QED
    BY <1>1, <1>4, <2>2, <2>3 DEF Bucket!Refuse
<1> QED
  BY <1>2, <1>3, <1>4, MinuteNat

LEMMA TickRefines == ASSUME TypeOK, Clocks, Tick PROVE Bucket!Tick
<1> DEFINE level == [j \in Keys |-> Level(j)]
<1>1. level' \in [Keys -> 0..Minute]
  BY TickType, LevelRangeNext
<1>2. ASSUME NEW k \in Keys
      PROVE  \/ level'[k] = Bucket!Rise(level[k])
             \/ now < top /\ level'[k] = level[k]
  <2>1. now \in Nat /\ top \in Nat /\ now <= top
    BY DEF TypeOK, Clocks
  <2>2. CASE now < top
    BY <2>2, TickLevels DEF Bucket!Rise
  <2>3. CASE now = top
    <3>1. k \in DOMAIN buckets => buckets[k].last <= now
      BY <2>3 DEF Clocks
    <3> QED
      BY <3>1, TickLevels DEF Bucket!Rise
  <2> QED
    BY <2>1, <2>2, <2>3
<1> QED
  BY <1>1, <1>2 DEF Tick, Bucket!Tick

LEMMA SetBackRefines == ASSUME TypeOK, SetBack PROVE Bucket!SetBack
<1> DEFINE level == [j \in Keys |-> Level(j)]
<1>1. level' \in [Keys -> 0..Minute]
  BY SetBackType, LevelRangeNext
<1>2. \A k \in Keys : level'[k] <= level[k]
  BY SetBackLevels
<1>3. now' \in Nat /\ now' < now
  BY ClockAssumption DEF TypeOK, SetBack
<1> QED
  BY <1>1, <1>2, <1>3 DEF SetBack, Bucket!SetBack

LEMMA StepRefines ==
    TypeOK /\ Clocks /\ [Next]_vars => [Bucket!Next]_(Bucket!tbVars)
<1>1. ASSUME UNCHANGED <<now, buckets, answer, top>> PROVE UNCHANGED Bucket!tbVars
  BY <1>1 DEF Bucket!tbVars, Level, Refilled
<1> QED
  BY <1>1, CheckRefines, TickRefines, SetBackRefines
  DEF Next, OpenWindow, vars, Bucket!Next

\* The limiter with its late refills, its buckets made on demand and its
\* cleanup behaves as one token bucket per key, refilled on time.
THEOREM Refinement == Spec => RefinesTokenBucket
<1> QED
  BY InitRefines, StepRefines, TypeCorrect, ClocksInv, PTL
  DEF Spec, RefinesTokenBucket, Bucket!Spec

-----------------------------------------------------------------------------
(* Cleanup. *)

Finite == IsFiniteSet(DOMAIN buckets)

LEMMA FiniteStep == Finite /\ [Next]_vars => Finite'
<1> SUFFICES ASSUME IsFiniteSet(DOMAIN buckets), [Next]_vars
             PROVE  IsFiniteSet(DOMAIN buckets')
  BY DEF Finite
<1>1. CASE buckets' = buckets
  BY <1>1
<1>2. ASSUME NEW k \in Keys, CheckRequest(k) PROVE IsFiniteSet(DOMAIN buckets')
  <2>1. DOMAIN buckets' = KeptKeys \cup {k} /\ KeptKeys \subseteq DOMAIN buckets
    BY <1>2 DEF CheckRequest, KeptKeys
  <2>2. IsFiniteSet(KeptKeys)
    BY <2>1, FS_Subset
  <2> QED
    BY <2>1, <2>2, FS_AddElement
<1> QED
  BY <1>1, <1>2 DEF Next, Tick, SetBack, OpenWindow, vars

LEMMA FiniteBuckets == Spec => []Finite
<1>1. Init => Finite
  BY FS_EmptySet DEF Init, Finite
<1> QED
  BY <1>1, FiniteStep, PTL DEF Spec

LEMMA CheckOverflow ==
    ASSUME TypeOK, IsFiniteSet(DOMAIN buckets), NEW k \in Keys, CheckRequest(k),
           Cardinality(DOMAIN buckets') > MaxBuckets + 1, NEW j \in DOMAIN buckets'
    PROVE  buckets'[j].last >= now - Stale
<1>1. DOMAIN buckets' = KeptKeys \cup {k} /\ KeptKeys \subseteq DOMAIN buckets
  BY DEF CheckRequest, KeptKeys
<1>2. IsFiniteSet(KeptKeys)
  BY <1>1, FS_Subset
<1>3. /\ Cardinality(KeptKeys) \in Nat
      /\ Cardinality(KeptKeys \cup {k}) \in Nat
      /\ Cardinality(KeptKeys \cup {k}) <= Cardinality(KeptKeys) + 1
  <2>1. Cardinality(KeptKeys) \in Nat
    BY <1>2, FS_CardinalityType
  <2>2. Cardinality(KeptKeys \cup {k}) =
          IF k \in KeptKeys THEN Cardinality(KeptKeys) ELSE Cardinality(KeptKeys) + 1
    BY <1>2, FS_AddElement
  <2> QED
    BY <2>1, <2>2
<1>4. Cardinality(KeptKeys) <= Cardinality(DOMAIN buckets) /\ Cardinality(DOMAIN buckets) \in Nat
  BY <1>1, FS_Subset, FS_CardinalityType
<1>5. Cardinality(DOMAIN buckets) > MaxBuckets
  BY <1>1, <1>3, <1>4, StaleAssumption
<1>6. KeptKeys = DOMAIN buckets \ StaleKeys
  BY <1>5 DEF KeptKeys
<1>7. now \in Nat
  BY DEF TypeOK
<1>8. CASE j = k
  <2>1. buckets'[k].last = now
    BY DEF CheckRequest
  <2> QED
    BY <1>7, <1>8, <2>1, MinuteNat
<1>9. CASE j # k
  <2>1. j \in DOMAIN buckets /\ j \notin StaleKeys /\ j \in KeptKeys
    BY <1>1, <1>6, <1>9
  <2>2. buckets'[j] = buckets[j]
    BY <1>9, <2>1 DEF CheckRequest
  <2>3. buckets[j].last \in Nat /\ ~(buckets[j].last < now - Stale)
    BY <2>1 DEF StaleKeys, TypeOK
  <2> QED
    BY <1>7, <2>2, <2>3, MinuteNat
<1> QED
  BY <1>8, <1>9

\* More buckets than the limit, besides the one just used, are kept only while
\* every one of them is in use.
THEOREM NoIdleBucketInOverflow == Spec => OverflowIsActive
<1>1. TypeOK /\ Finite /\ [Next]_vars =>
        [buckets' # buckets /\ Cardinality(DOMAIN buckets') > MaxBuckets + 1
           => \A k \in DOMAIN buckets' : buckets'[k].last >= now - Stale]_vars
  <2> SUFFICES ASSUME TypeOK, IsFiniteSet(DOMAIN buckets), [Next]_vars, buckets' # buckets,
                      Cardinality(DOMAIN buckets') > MaxBuckets + 1
               PROVE  \A k \in DOMAIN buckets' : buckets'[k].last >= now - Stale
    BY DEF Finite
  <2>1. PICK k \in Keys : CheckRequest(k)
    BY DEF Next, Tick, SetBack, OpenWindow, vars
  <2> QED
    BY <2>1, CheckOverflow
<1> QED
  BY <1>1, TypeCorrect, FiniteBuckets, PTL DEF Spec, OverflowIsActive

=============================================================================
