---------------------------- MODULE TokenBucket ----------------------------
(***************************************************************************)
(* What a rate limiter promises its clients, with no word about buckets    *)
(* being created, dropped or refilled late: every key has a level that     *)
(* rises by one unit per tick up to its capacity, a request is allowed     *)
(* exactly when the level covers its cost, and an allowed request pays it. *)
(* When the clock is set back a level may fall, and until the clock is     *)
(* past its old reading again a level may miss a rise.                     *)
(***************************************************************************)
EXTENDS Integers

CONSTANTS Keys, Capacity, Cost

VARIABLES
    now,     \* the clock
    top,     \* its highest reading so far
    level,   \* what each key may still spend
    answer   \* the last answer given for each key

tbVars == <<now, top, level, answer>>

Answers == {"none", "allowed", "refused"}
Rise(l) == IF l < Capacity THEN l + 1 ELSE l

Init ==
    /\ now = 0 /\ top = 0
    /\ level = [k \in Keys |-> Capacity]
    /\ answer = [k \in Keys |-> "none"]

Tick ==
    /\ now' = now + 1
    /\ top' = IF now < top THEN top ELSE now'
    /\ level' \in [Keys -> 0..Capacity]
    /\ \A k \in Keys :
          level'[k] = Rise(level[k]) \/ (now < top /\ level'[k] = level[k])
    /\ UNCHANGED answer

SetBack ==
    /\ now' \in Nat /\ now' < now
    /\ level' \in [Keys -> 0..Capacity]
    /\ \A k \in Keys : level'[k] <= level[k]
    /\ UNCHANGED <<top, answer>>

Allow(k) ==
    /\ level[k] >= Cost
    /\ level' = [level EXCEPT ![k] = @ - Cost]
    /\ answer' = [answer EXCEPT ![k] = "allowed"]
    /\ UNCHANGED <<now, top>>

Refuse(k) ==
    /\ level[k] < Cost
    /\ answer' = [answer EXCEPT ![k] = "refused"]
    /\ UNCHANGED <<now, top, level>>

Next == Tick \/ SetBack \/ \E k \in Keys : Allow(k) \/ Refuse(k)

Spec == Init /\ [][Next]_tbVars
=============================================================================
