-------------------- MODULE BackgroundCompressionProofs --------------------
(***************************************************************************)
(* Proofs about BackgroundCompression, for every set of sessions and every *)
(* queue size: its types, the exactness of enqueue's claims and of the     *)
(* count that join() waits on, and what stop() can lose.                   *)
(***************************************************************************)
EXTENDS BackgroundCompression, SequenceTheorems, TLAPS

Lost == accepted - (processed + errors + unfinished)

\* Where the drain holds a job, and when a job may have been lost already.
DrainState ==
    /\ task \in {"none", "waiting"} => job = <<>>
    /\ task = "running" => Len(job) = 1
    /\ task = "cancelled" => stopper = "await_task" /\ Lost = 0
    /\ stopper = "stopped" => task = "none"

IInv ==
    /\ TypeOK
    /\ DrainState
    /\ PendingExact
    /\ UnfinishedExact
    /\ AtMostOneLost

\* The claims that the jobs of s call for, no key being claimed twice.
Claims(s) == {s[i].key : i \in DOMAIN s}
Distinct(s) == \A i, j \in DOMAIN s : s[i].key = s[j].key => i = j

-----------------------------------------------------------------------------
(* Arithmetic that the steps below instantiate.                             *)

LEMMA ZeroOrOne == ASSUME NEW n \in Nat, n <= 1 PROVE n \in {0, 1}
OBVIOUS

LEMMA OneMore ==
    ASSUME NEW a \in {0, 1}, NEW b \in Nat, NEW m \in Nat, b < m
    PROVE  (a + b) + 1 \in 0 .. m + 1
OBVIOUS

LEMMA Budget ==
    ASSUME NEW m \in Nat, NEW a \in 0 .. m, NEW p \in Nat, NEW e \in Nat, NEW u \in Nat,
           a - (p + e + u) \in {0, 1}
    PROVE  p \in 0 .. m /\ e \in 0 .. m
<1>1. a - (p + e + u) >= 0
  OBVIOUS
<1>. QED  BY <1>1

-----------------------------------------------------------------------------
(* How the sequence of jobs in flight changes.                              *)

LEMMA AppendInFlight ==
    ASSUME NEW s \in Seq(Jobs), NEW q \in Seq(Jobs), NEW x \in Jobs
    PROVE  s \o Append(q, x) = Append(s \o q, x)
<1>1. Append(q, x) = q \o <<x>> /\ <<x>> \in Seq(Jobs)
  BY AppendIsConcat
<1>2. s \o q \in Seq(Jobs)
  BY ConcatProperties
<1>3. Append(s \o q, x) = (s \o q) \o <<x>>
  BY <1>2, AppendIsConcat
<1>4. (s \o q) \o <<x>> = s \o (q \o <<x>>)
  BY <1>1, ConcatAssociative
<1>. QED  BY <1>1, <1>3, <1>4

LEMMA HeadThenTail ==
    ASSUME NEW q \in Seq(Jobs), q # <<>>
    PROVE  <<Head(q)>> \o Tail(q) = q
<1> DEFINE r == <<Head(q)>> \o Tail(q)
<1>1. /\ Head(q) \in Jobs /\ Tail(q) \in Seq(Jobs) /\ Len(Tail(q)) = Len(q) - 1
      /\ \A i \in 1 .. Len(Tail(q)) : Tail(q)[i] = q[i + 1]
  BY HeadTailProperties
<1>2. <<Head(q)>> \in Seq(Jobs) /\ Len(<<Head(q)>>) = 1 /\ <<Head(q)>>[1] = q[1]
  BY <1>1
<1>3. /\ r \in Seq(Jobs) /\ Len(r) = 1 + Len(Tail(q))
      /\ \A i \in 1 .. 1 + Len(Tail(q)) :
            r[i] = IF i <= 1 THEN <<Head(q)>>[i] ELSE Tail(q)[i - 1]
  BY <1>1, <1>2, ConcatProperties
<1>4. Len(r) = Len(q) /\ Len(q) \in Nat
  BY <1>1, <1>3, LenProperties
<1>5. \A i \in 1 .. Len(q) : r[i] = q[i]
  BY <1>1, <1>2, <1>3, <1>4
<1>. QED  BY <1>3, <1>4, <1>5, SeqEqual

LEMMA Singleton ==
    ASSUME NEW s \in Seq(Jobs), Len(s) = 1
    PROVE  \E x \in Jobs : s = <<x>>
<1>1. s[1] \in Jobs
  <2>1. 1 \in 1 .. Len(s)
    OBVIOUS
  <2>. QED  BY <2>1, ElementOfSeq
<1>2. <<s[1]>> \in Seq(Jobs) /\ Len(<<s[1]>>) = 1 /\ <<s[1]>>[1] = s[1]
  BY <1>1
<1>3. s = <<s[1]>>
  BY <1>2, SeqEqual
<1>. QED  BY <1>1, <1>3

\* A new job with an unclaimed key adds its claim and no clash.
LEMMA ClaimAppend ==
    ASSUME NEW s \in Seq(Jobs), NEW x \in Jobs, x.key \notin Claims(s), Distinct(s)
    PROVE  Claims(Append(s, x)) = Claims(s) \cup {x.key} /\ Distinct(Append(s, x))
<1>1. /\ Append(s, x) \in Seq(Jobs) /\ Len(Append(s, x)) = Len(s) + 1
      /\ \A i \in 1 .. Len(s) : Append(s, x)[i] = s[i]
      /\ Append(s, x)[Len(s) + 1] = x
  BY AppendProperties
<1>2. DOMAIN Append(s, x) = 1 .. Len(s) + 1 /\ DOMAIN s = 1 .. Len(s) /\ Len(s) \in Nat
  BY <1>1, LenProperties
<1> HIDE DEF Claims
<1>3. Claims(Append(s, x)) = Claims(s) \cup {x.key}
  BY <1>1, <1>2 DEF Claims
<1>4. Distinct(Append(s, x))
  BY <1>1, <1>2 DEF Claims, Distinct
<1>. QED  BY <1>3, <1>4

\* Releasing the oldest job's claim leaves exactly the others'.
LEMMA ClaimTail ==
    ASSUME NEW x \in Jobs, NEW q \in Seq(Jobs), Distinct(<<x>> \o q)
    PROVE  Claims(q) = Claims(<<x>> \o q) \ {x.key} /\ Distinct(q)
<1> DEFINE r == <<x>> \o q
<1>1. <<x>> \in Seq(Jobs) /\ Len(<<x>>) = 1 /\ <<x>>[1] = x
  OBVIOUS
<1>2. /\ r \in Seq(Jobs) /\ Len(r) = 1 + Len(q)
      /\ \A i \in 1 .. 1 + Len(q) : r[i] = IF i <= 1 THEN <<x>>[i] ELSE q[i - 1]
  BY <1>1, ConcatProperties
<1>3. DOMAIN r = 1 .. 1 + Len(q) /\ DOMAIN q = 1 .. Len(q) /\ Len(q) \in Nat
  BY <1>2, LenProperties
<1>4. r[1] = x /\ \A i \in 1 .. Len(q) : i + 1 \in 1 .. 1 + Len(q) /\ r[i + 1] = q[i]
  BY <1>1, <1>2, <1>3
<1>5. Distinct(r)
  OBVIOUS
<1> HIDE DEF r
<1>6. Distinct(q)
  <2> SUFFICES ASSUME NEW i \in 1 .. Len(q), NEW j \in 1 .. Len(q), q[i].key = q[j].key
               PROVE  i = j
    BY <1>3 DEF Distinct
  <2>1. /\ i + 1 \in DOMAIN r /\ j + 1 \in DOMAIN r
        /\ r[i + 1].key = r[j + 1].key
    BY <1>3, <1>4
  <2>2. i + 1 = j + 1
    BY <2>1, <1>5 DEF Distinct
  <2>. QED  BY <2>2, <1>3
<1>7. x.key \notin Claims(q)
  <2> SUFFICES ASSUME NEW i \in 1 .. Len(q), q[i].key = x.key PROVE FALSE
    BY <1>3 DEF Claims
  <2>1. r[i + 1].key = r[1].key /\ i + 1 \in DOMAIN r /\ 1 \in DOMAIN r
    BY <1>3, <1>4
  <2>2. i + 1 = 1
    BY <2>1, <1>5 DEF Distinct
  <2>. QED  BY <2>2, <1>3
<1>8. Claims(r) = {x.key} \cup Claims(q)
  <2>1. ASSUME NEW c \in Claims(r) PROVE c \in {x.key} \cup Claims(q)
    <3>1. PICK i \in 1 .. 1 + Len(q) : c = r[i].key
      BY <2>1, <1>3 DEF Claims
    <3>2. CASE i = 1
      BY <3>1, <3>2, <1>4
    <3>3. CASE i # 1
      <4>1. i - 1 \in 1 .. Len(q) /\ r[i] = q[i - 1]
        BY <3>3, <1>2, <1>3 DEF r
      <4>. QED  BY <4>1, <3>1, <1>3 DEF Claims
    <3>. QED  BY <3>2, <3>3
  <2>2. x.key \in Claims(r)
    BY <1>3, <1>4 DEF Claims
  <2>3. ASSUME NEW i \in 1 .. Len(q) PROVE q[i].key \in Claims(r)
    BY <1>3, <1>4 DEF Claims
  <2>4. Claims(q) \subseteq Claims(r)
    BY <2>3, <1>3 DEF Claims
  <2>. QED  BY <2>1, <2>2, <2>4
<1>. QED  BY <1>6, <1>7, <1>8 DEF r

-----------------------------------------------------------------------------
(* What the steps of the drain do to the jobs in flight.                    *)

LEMMA InFlightType ==
    ASSUME TypeOK
    PROVE  /\ InFlight \in Seq(Jobs) /\ Len(InFlight) = Len(job) + Len(queue)
           /\ Len(job) \in {0, 1} /\ Len(queue) \in Nat
<1>1. job \in Seq(Jobs) /\ queue \in Seq(Jobs) /\ Len(job) <= 1
  BY DEF TypeOK
<1>2. Len(job) \in Nat /\ Len(queue) \in Nat
  BY <1>1, LenProperties
<1>3. Len(job) \in {0, 1}
  BY <1>1, <1>2, ZeroOrOne
<1>4. InFlight \in Seq(Jobs) /\ Len(InFlight) = Len(job) + Len(queue)
  BY <1>1, ConcatProperties DEF InFlight
<1>. QED  BY <1>2, <1>3, <1>4

\* get() moves the head of the queue into the drain's hands, or waits.
LEMMA GetJobLemma ==
    ASSUME TypeOK, GetJob
    PROVE  /\ InFlight' = queue
           /\ queue' \in Seq(Jobs) /\ Len(queue') <= MaxQueue
           /\ job' \in Seq(Jobs) /\ Len(job') <= 1
           /\ \/ task' = "waiting" /\ job' = <<>>
              \/ task' = "running" /\ Len(job') = 1
           /\ thread' \in {"idle", "busy"}
<1>1. queue \in Seq(Jobs) /\ Len(queue) <= MaxQueue /\ Len(queue) \in Nat /\ MaxQueue \in Nat
  BY LenProperties, QueueAssumption DEF TypeOK
<1>2. CASE queue = <<>>
  <2>1. task' = "waiting" /\ job' = <<>> /\ thread' = "idle" /\ queue' = queue
    BY <1>2 DEF GetJob
  <2>2. InFlight' = <<>> \o queue
    BY <2>1 DEF InFlight
  <2>3. InFlight' = queue
    BY <2>2, <1>1, ConcatEmptySeq
  <2>4. job' \in Seq(Jobs) /\ Len(job') = 0
    BY <2>1, EmptySeq
  <2>5. queue' \in Seq(Jobs) /\ Len(queue') <= MaxQueue
    BY <1>1, <2>1
  <2>6. Len(job') <= 1
    BY <2>4
  <2>. QED  BY <2>1, <2>3, <2>4, <2>5, <2>6
<1>3. CASE queue # <<>>
  <2>1. task' = "running" /\ job' = <<Head(queue)>> /\ queue' = Tail(queue) /\ thread' = "busy"
    BY <1>3 DEF GetJob
  <2>2. Head(queue) \in Jobs /\ Tail(queue) \in Seq(Jobs) /\ Len(Tail(queue)) = Len(queue) - 1
    BY <1>1, <1>3, HeadTailProperties
  <2>3. InFlight' = queue
    BY <2>1, <1>1, <1>3, HeadThenTail DEF InFlight
  <2>4. job' \in Seq(Jobs) /\ Len(job') = 1
    BY <2>1, <2>2
  <2>5. Len(queue') <= MaxQueue
    BY <1>1, <2>1, <2>2
  <2>. QED  BY <2>1, <2>2, <2>3, <2>4, <2>5
<1>. QED  BY <1>2, <1>3

LEMMA InitIInv == Init => IInv
<1> SUFFICES ASSUME Init PROVE IInv
  OBVIOUS
<1>1. TypeOK
  <2>1. <<>> \in Seq(Jobs) /\ <<>> \in Seq(1 .. MaxJobs) /\ Len(<<>>) = 0
    BY EmptySeq
  <2>. QED  BY <2>1, QueueAssumption DEF Init, TypeOK
<1>2. InFlight = <<>>
  BY ConcatEmptySeq DEF Init, InFlight
<1>3. PendingExact /\ UnfinishedExact
  BY <1>2 DEF Init, PendingExact, UnfinishedExact
<1>4. DrainState /\ AtMostOneLost
  BY DEF Init, DrainState, AtMostOneLost
<1>. QED  BY <1>1, <1>3, <1>4 DEF IInv

-----------------------------------------------------------------------------
(* Each action preserves the invariant.                                     *)

\* The actions that leave the jobs in flight, their claims and their count.
LEMMA SameJobs ==
    ASSUME IInv, UNCHANGED <<queue, job, pending, unfinished>>
    PROVE  PendingExact' /\ UnfinishedExact'
<1>1. InFlight' = InFlight
  BY DEF InFlight
<1>. QED  BY <1>1 DEF IInv, PendingExact, UnfinishedExact

LEMMA AcceptStep == ASSUME IInv, NEW k \in Keys, Accept(k) PROVE IInv'
<1> DEFINE x == [id |-> accepted + 1, key |-> k]
<1> USE QueueAssumption
<1>1. /\ k \notin pending /\ Len(queue) < MaxQueue /\ accepted < MaxJobs
      /\ accepted' = accepted + 1 /\ pending' = pending \cup {k}
      /\ queue' = Append(queue, x) /\ unfinished' = unfinished + 1
      /\ UNCHANGED <<task, job, thread, processed, errors, dropped, settled, stopper, owed>>
  BY DEF Accept, stats, stopping
<1>2. x \in Jobs /\ x.key = k
  BY <1>1 DEF IInv, TypeOK, Jobs
<1>3. /\ queue \in Seq(Jobs) /\ job \in Seq(Jobs) /\ InFlight \in Seq(Jobs)
      /\ Len(InFlight) = Len(job) + Len(queue) /\ Len(job) \in {0, 1} /\ Len(queue) \in Nat
  BY InFlightType DEF IInv, TypeOK
<1> HIDE DEF x
<1>4. InFlight' = Append(InFlight, x)
  BY <1>1, <1>2, <1>3, AppendInFlight DEF InFlight
<1>5. PendingExact'
  <2>1. pending = Claims(InFlight) /\ Distinct(InFlight)
    BY DEF IInv, PendingExact, Claims, Distinct
  <2>2. Claims(InFlight') = pending' /\ Distinct(InFlight')
    BY <1>1, <1>2, <1>3, <1>4, <2>1, ClaimAppend
  <2>. QED  BY <2>2 DEF PendingExact, Claims, Distinct
<1>6. UnfinishedExact'
  BY <1>1, <1>2, <1>3, <1>4, AppendProperties DEF IInv, UnfinishedExact
<1>7. queue' \in Seq(Jobs) /\ Len(queue') = Len(queue) + 1
  BY <1>1, <1>2, <1>3, AppendProperties
<1>8. unfinished' \in 0 .. MaxQueue + 1
  <2>1. unfinished = Len(job) + Len(queue)
    BY <1>3 DEF IInv, UnfinishedExact
  <2>2. Len(queue) < MaxQueue /\ unfinished' = unfinished + 1
    BY <1>1
  <2>3. Len(job) \in {0, 1} /\ Len(queue) \in Nat
    BY <1>3
  <2>. QED  BY <2>1, <2>2, <2>3, OneMore
<1>9. TypeOK'
  BY <1>1, <1>3, <1>7, <1>8 DEF IInv, TypeOK
<1>10. Lost' = Lost
  BY <1>1, <1>3 DEF Lost, IInv, TypeOK
<1>11. DrainState' /\ AtMostOneLost'
  BY <1>1, <1>10 DEF IInv, DrainState, AtMostOneLost, Lost
<1>. QED  BY <1>5, <1>6, <1>9, <1>11 DEF IInv

LEMMA ResumeStep == ASSUME IInv, Resume PROVE IInv'
<1> USE QueueAssumption
<1>1. /\ task = "running" /\ Outcome /\ Release /\ TaskDone /\ GetJob
      /\ settled' = settled \o Ids(job) /\ UNCHANGED <<dropped, accepted>>
  BY DEF Resume
<1>2. /\ queue \in Seq(Jobs) /\ job \in Seq(Jobs) /\ InFlight \in Seq(Jobs)
      /\ Len(InFlight) = Len(job) + Len(queue) /\ Len(job) = 1 /\ Len(queue) \in Nat
  BY <1>1, InFlightType DEF IInv, TypeOK, DrainState
<1>3. PICK x \in Jobs : job = <<x>>
  BY <1>2, Singleton
<1>4. InFlight = <<x>> \o queue /\ InFlight' = queue
  BY <1>1, <1>3, GetJobLemma DEF InFlight, IInv
<1>5. pending' = pending \ {x.key}
  BY <1>1, <1>3 DEF Release
<1>6. PendingExact'
  <2>1. pending = Claims(InFlight) /\ Distinct(InFlight)
    BY DEF IInv, PendingExact, Claims, Distinct
  <2>2. Claims(queue) = Claims(InFlight) \ {x.key} /\ Distinct(queue)
    BY <1>2, <1>4, <2>1, ClaimTail
  <2>3. pending' = Claims(InFlight') /\ Distinct(InFlight')
    BY <1>4, <1>5, <2>1, <2>2
  <2>. QED  BY <2>3 DEF PendingExact, Claims, Distinct
<1>7. unfinished' = unfinished - 1 /\ unfinished = Len(queue) + 1
  BY <1>1, <1>2 DEF TaskDone, IInv, UnfinishedExact
<1>8. UnfinishedExact'
  BY <1>2, <1>4, <1>7 DEF UnfinishedExact
<1>9. \/ processed' = processed + 1 /\ errors' = errors
      \/ errors' = errors + 1 /\ processed' = processed
  BY <1>1 DEF Outcome
<1>10. processed' \in Nat /\ errors' \in Nat
  BY <1>9 DEF IInv, TypeOK
<1>11. Lost' = Lost
  <2>1. processed \in Nat /\ errors \in Nat /\ accepted \in Nat /\ unfinished \in Nat
    BY DEF IInv, TypeOK
  <2>2. accepted' = accepted /\ unfinished' = unfinished - 1
    BY <1>1, <1>7
  <2>3. CASE processed' = processed + 1 /\ errors' = errors
    BY <2>1, <2>2, <2>3 DEF Lost
  <2>4. CASE errors' = errors + 1 /\ processed' = processed
    BY <2>1, <2>2, <2>4 DEF Lost
  <2>. QED  BY <1>9, <2>3, <2>4
<1>12. Lost \in {0, 1} /\ accepted \in 0 .. MaxJobs
  BY DEF IInv, AtMostOneLost, Lost, TypeOK
<1>13. processed' \in 0 .. MaxJobs /\ errors' \in 0 .. MaxJobs
  <2>1. unfinished' \in Nat
    BY <1>2, <1>7
  <2>2. accepted' = accepted
    BY <1>1
  <2>3. accepted - (processed' + errors' + unfinished') \in {0, 1}
    BY <1>11, <1>12, <2>2 DEF Lost
  <2>. QED  BY <1>10, <1>12, <2>1, <2>3, Budget
<1>14. settled' \in Seq(1 .. MaxJobs)
  <2>1. Ids(job) \in Seq(1 .. MaxJobs)
    <3>1. Ids(job) \in [1 .. 1 -> 1 .. MaxJobs]
      BY <1>2, <1>3 DEF Ids, Jobs
    <3>. QED  BY <3>1, SeqDef
  <2>. QED  BY <1>1, <2>1, ConcatProperties DEF IInv, TypeOK
<1>15. /\ stopper' \in {stopper, "joined"} /\ UNCHANGED owed
       /\ stopper' # stopper => stopper = "joining"
  BY <1>1 DEF TaskDone, stopping
<1>16. TypeOK'
  <2>1. /\ queue' \in Seq(Jobs) /\ Len(queue') <= MaxQueue
        /\ job' \in Seq(Jobs) /\ Len(job') <= 1 /\ thread' \in {"idle", "busy"}
        /\ task' \in {"waiting", "running"}
    BY <1>1, GetJobLemma DEF IInv
  <2>2. pending' \in SUBSET Keys
    BY <1>5 DEF IInv, TypeOK
  <2>3. unfinished' \in 0 .. MaxQueue + 1
    BY <1>2, <1>7 DEF IInv, TypeOK
  <2>. QED  BY <1>1, <1>13, <1>14, <1>15, <2>1, <2>2, <2>3 DEF IInv, TypeOK
<1>17. stopper # "stopped"
  BY <1>1 DEF IInv, DrainState
<1>18. DrainState'
  BY <1>1, <1>15, <1>17, GetJobLemma DEF IInv, DrainState
<1>19. AtMostOneLost'
  BY <1>11, <1>15 DEF IInv, AtMostOneLost, Lost
<1>. QED  BY <1>6, <1>8, <1>16, <1>18, <1>19 DEF IInv

LEMMA TakeStep == ASSUME IInv, Take PROVE IInv'
<1>1. /\ task = "waiting" /\ GetJob
      /\ UNCHANGED <<pending, unfinished, processed, errors, dropped, accepted, settled,
                     stopper, owed>>
  BY DEF Take, stats, stopping
<1>2. job = <<>> /\ queue \in Seq(Jobs) /\ stopper # "stopped"
  BY <1>1 DEF IInv, DrainState, TypeOK
<1>3. InFlight' = InFlight
  BY <1>1, <1>2, GetJobLemma, ConcatEmptySeq DEF InFlight, IInv
<1>4. PendingExact' /\ UnfinishedExact'
  BY <1>1, <1>3 DEF IInv, PendingExact, UnfinishedExact
<1>5. TypeOK'
  <2>1. /\ queue' \in Seq(Jobs) /\ Len(queue') <= MaxQueue
        /\ job' \in Seq(Jobs) /\ Len(job') <= 1 /\ thread' \in {"idle", "busy"}
        /\ task' \in {"waiting", "running"}
    BY <1>1, GetJobLemma DEF IInv
  <2>. QED  BY <1>1, <2>1 DEF IInv, TypeOK
<1>6. DrainState' /\ AtMostOneLost'
  BY <1>1, <1>2, GetJobLemma DEF IInv, DrainState, AtMostOneLost, Lost
<1>. QED  BY <1>4, <1>5, <1>6 DEF IInv

LEMMA CancelledStep == ASSUME IInv, Cancelled PROVE IInv'
<1> USE QueueAssumption
<1>1. /\ task = "cancelled" /\ task' = "none" /\ Release
      /\ unfinished' = unfinished - Len(job) /\ job' = <<>>
      /\ thread' \in {"orphan", "idle"}
      /\ UNCHANGED <<queue, processed, errors, dropped, accepted, settled, stopper, owed>>
  BY DEF Cancelled, stats, stopping
<1>2. /\ queue \in Seq(Jobs) /\ job \in Seq(Jobs) /\ InFlight \in Seq(Jobs)
      /\ Len(InFlight) = Len(job) + Len(queue) /\ Len(job) \in {0, 1} /\ Len(queue) \in Nat
      /\ stopper = "await_task" /\ Lost = 0
  BY <1>1, InFlightType DEF IInv, TypeOK, DrainState
<1>3. InFlight' = queue
  BY <1>1, <1>2, ConcatEmptySeq DEF InFlight
<1>4. UnfinishedExact' /\ unfinished' = Len(queue)
  BY <1>1, <1>2, <1>3 DEF IInv, UnfinishedExact
<1>5. PendingExact'
  <2>1. pending = Claims(InFlight) /\ Distinct(InFlight)
    BY DEF IInv, PendingExact, Claims, Distinct
  <2>2. CASE Len(job) = 0
    <3>1. job = <<>>
      BY <1>2, <2>2, EmptySeq
    <3>2. InFlight = queue /\ pending' = pending
      BY <1>1, <1>2, <3>1, ConcatEmptySeq DEF InFlight, Release
    <3>. QED  BY <1>3, <2>1, <3>2 DEF PendingExact, Claims, Distinct
  <2>3. CASE Len(job) = 1
    <3>1. PICK x \in Jobs : job = <<x>>
      BY <1>2, <2>3, Singleton
    <3>2. InFlight = <<x>> \o queue /\ pending' = pending \ {x.key}
      BY <1>1, <3>1 DEF InFlight, Release
    <3>3. Claims(queue) = Claims(InFlight) \ {x.key} /\ Distinct(queue)
      BY <1>2, <2>1, <3>2, ClaimTail
    <3>4. pending' = Claims(InFlight') /\ Distinct(InFlight')
      BY <1>3, <2>1, <3>2, <3>3
    <3>. QED  BY <3>4 DEF PendingExact, Claims, Distinct
  <2>. QED  BY <1>2, <2>2, <2>3
<1>6. TypeOK'
  <2>1. job' \in Seq(Jobs) /\ Len(job') = 0
    BY <1>1, EmptySeq
  <2>2. pending' \in SUBSET Keys
    BY <1>1 DEF Release, IInv, TypeOK
  <2>3. unfinished' \in 0 .. MaxQueue + 1
    BY <1>2, <1>4 DEF IInv, TypeOK
  <2>. QED  BY <1>1, <2>1, <2>2, <2>3 DEF IInv, TypeOK
<1>7. Lost' = Len(job)
  BY <1>1, <1>2 DEF Lost, IInv, TypeOK
<1>8. DrainState' /\ AtMostOneLost'
  BY <1>1, <1>2, <1>7 DEF DrainState, AtMostOneLost, Lost
<1>. QED  BY <1>4, <1>5, <1>6, <1>8 DEF IInv

\* The remaining actions touch neither the jobs in flight nor the counts.
LEMMA OtherSteps ==
    ASSUME IInv,
           \/ \E k \in Keys : Drop(k)
           \/ Start \/ ThreadEnds \/ StopBegin \/ Join \/ JoinTimesOut \/ Cancel
           \/ OrphanEnds \/ StopEnds \/ UNCHANGED vars
    PROVE  IInv'
<1> USE QueueAssumption
<1>1. UNCHANGED <<queue, job, pending, unfinished, processed, errors, accepted, settled>>
  BY DEF Drop, Start, ThreadEnds, StopBegin, Join, JoinTimesOut, Cancel, OrphanEnds, StopEnds,
         vars, stats, stopping
<1>2. PendingExact' /\ UnfinishedExact'
  BY <1>1, SameJobs
<1>3. Lost' = Lost
  BY <1>1 DEF Lost
<1>4. /\ task' \in {"none", "waiting", "running", "cancelled"}
      /\ thread' \in {"idle", "busy", "returned", "raised", "orphan"}
      /\ stopper' \in {"idle", "join", "joining", "joined", "await_task", "stopped"}
  BY DEF IInv, TypeOK, Drop, Start, ThreadEnds, StopBegin, Join, JoinTimesOut, Cancel,
         OrphanEnds, StopEnds, vars, stopping
<1>5. dropped' \in 0 .. MaxDrops
  BY DEF IInv, TypeOK, Drop, Start, ThreadEnds, StopBegin, Join, JoinTimesOut, Cancel,
         OrphanEnds, StopEnds, vars, stopping
<1>6. owed' \in SUBSET (1 .. MaxJobs)
  <2>1. owed' = owed \/ owed' = {} \/ owed' = 1 .. accepted
    BY DEF Drop, Start, ThreadEnds, StopBegin, Join, JoinTimesOut, Cancel, OrphanEnds,
           StopEnds, vars, stopping
  <2>2. accepted \in 0 .. MaxJobs /\ owed \in SUBSET (1 .. MaxJobs)
    BY DEF IInv, TypeOK
  <2>3. 1 .. accepted \subseteq 1 .. MaxJobs
    BY <2>2
  <2>. QED  BY <2>1, <2>2, <2>3
<1>7. TypeOK'
  BY <1>1, <1>4, <1>5, <1>6 DEF IInv, TypeOK
<1>8. DrainState'
  BY <1>1, <1>3 DEF IInv, DrainState, AtMostOneLost, Lost, Drop, Start, ThreadEnds, StopBegin,
              Join, JoinTimesOut, Cancel, OrphanEnds, StopEnds, vars, stopping
<1>9. AtMostOneLost'
  BY <1>1, <1>3 DEF IInv, AtMostOneLost, Lost, Drop, Start, ThreadEnds, StopBegin,
              Join, JoinTimesOut, Cancel, OrphanEnds, StopEnds, vars, stopping
<1>. QED  BY <1>2, <1>7, <1>8, <1>9 DEF IInv

LEMMA NextIInv == IInv /\ [Next]_vars => IInv'
BY AcceptStep, ResumeStep, TakeStep, CancelledStep, OtherSteps DEF Next

LEMMA Invariance == Spec => []IInv
BY InitIInv, NextIInv, PTL DEF Spec

-----------------------------------------------------------------------------
(* The order of the jobs, and what stop() waits for.                        *)

\* The accepted jobs that were not cancelled, in the order they settle.
Line == settled \o Ids(InFlight)
InLine == {Line[i] : i \in DOMAIN Line}

Increasing(s) == \A i, j \in DOMAIN s : i < j => s[i] < s[j]

\* Until the drain is cancelled every accepted job is in the line, so that
\* when join() returns the settled jobs are all of them.
OInv ==
    /\ Increasing(Line)
    /\ InLine \subseteq 1 .. accepted
    /\ stopper \notin {"await_task", "stopped"} => InLine = 1 .. accepted
    /\ owed \subseteq 1 .. accepted
    /\ StopDrains

LEMMA Joined ==
    ASSUME NEW S, NEW a \in Seq(S), NEW b \in Seq(S), NEW m, NEW n, Len(a) = m, Len(b) = n
    PROVE  /\ a \o b \in Seq(S) /\ Len(a \o b) = m + n /\ m \in Nat /\ n \in Nat
           /\ \A i \in 1 .. m + n : (a \o b)[i] = IF i <= m THEN a[i] ELSE b[i - m]
BY ConcatProperties, LenProperties

LEMMA SeqOfLength == ASSUME NEW S, NEW n \in Nat, NEW s \in [1 .. n -> S] PROVE s \in Seq(S)
BY SeqDef

LEMMA IdsType ==
    ASSUME NEW s \in Seq(Jobs)
    PROVE  /\ Ids(s) \in Seq(1 .. MaxJobs) /\ Len(Ids(s)) = Len(s)
           /\ \A i \in 1 .. Len(s) : Ids(s)[i] = s[i].id
<1>1. DOMAIN s = 1 .. Len(s) /\ Len(s) \in Nat
  BY LenProperties
<1>2. \A i \in 1 .. Len(s) : s[i].id \in 1 .. MaxJobs
  <2>1. \A i \in 1 .. Len(s) : s[i] \in Jobs
    BY ElementOfSeq
  <2>. QED  BY <2>1 DEF Jobs
<1>3. Ids(s) \in [1 .. Len(s) -> 1 .. MaxJobs]
  BY <1>1, <1>2 DEF Ids
<1>4. Ids(s) \in Seq(1 .. MaxJobs)
  BY <1>1, <1>3, SeqOfLength
<1>5. DOMAIN Ids(s) = 1 .. Len(s)
  BY <1>3
<1>6. DOMAIN Ids(s) = 1 .. Len(Ids(s)) /\ Len(Ids(s)) \in Nat
  BY <1>4, LenProperties
<1>7. Len(Ids(s)) = Len(s)
  BY <1>1, <1>5, <1>6
<1>. QED  BY <1>1, <1>4, <1>7 DEF Ids

LEMMA IdsConcat ==
    ASSUME NEW s \in Seq(Jobs), NEW t \in Seq(Jobs)
    PROVE  Ids(s \o t) = Ids(s) \o Ids(t)
<1>1. /\ s \o t \in Seq(Jobs) /\ Len(s \o t) = Len(s) + Len(t)
      /\ \A i \in 1 .. Len(s) + Len(t) :
            (s \o t)[i] = IF i <= Len(s) THEN s[i] ELSE t[i - Len(s)]
  BY ConcatProperties
<1>2. /\ Ids(s) \in Seq(1 .. MaxJobs) /\ Len(Ids(s)) = Len(s)
      /\ \A i \in 1 .. Len(s) : Ids(s)[i] = s[i].id
  BY IdsType
<1>3. /\ Ids(t) \in Seq(1 .. MaxJobs) /\ Len(Ids(t)) = Len(t)
      /\ \A i \in 1 .. Len(t) : Ids(t)[i] = t[i].id
  BY IdsType
<1>4. /\ Ids(s \o t) \in Seq(1 .. MaxJobs) /\ Len(Ids(s \o t)) = Len(s) + Len(t)
      /\ \A i \in 1 .. Len(s) + Len(t) : Ids(s \o t)[i] = (s \o t)[i].id
  BY <1>1, IdsType
<1>5. /\ Ids(s) \o Ids(t) \in Seq(1 .. MaxJobs)
      /\ Len(Ids(s) \o Ids(t)) = Len(s) + Len(t)
      /\ \A i \in 1 .. Len(s) + Len(t) :
            (Ids(s) \o Ids(t))[i] = IF i <= Len(s) THEN Ids(s)[i] ELSE Ids(t)[i - Len(s)]
  <2> DEFINE a == Ids(s)
             b == Ids(t)
  <2>1. a \in Seq(1 .. MaxJobs) /\ b \in Seq(1 .. MaxJobs) /\ Len(a) = Len(s) /\ Len(b) = Len(t)
    BY <1>2, <1>3
  <2> HIDE DEF a, b
  <2>2. /\ a \o b \in Seq(1 .. MaxJobs) /\ Len(a \o b) = Len(s) + Len(t)
        /\ \A i \in 1 .. Len(s) + Len(t) :
              (a \o b)[i] = IF i <= Len(s) THEN a[i] ELSE b[i - Len(s)]
    <3>1. /\ a \o b \in Seq(1 .. MaxJobs) /\ Len(a \o b) = Len(a) + Len(b)
          /\ \A i \in 1 .. Len(a) + Len(b) :
                (a \o b)[i] = IF i <= Len(a) THEN a[i] ELSE b[i - Len(a)]
      BY <2>1, ConcatProperties
    <3>. QED  BY <2>1, <3>1
  <2>. QED  BY <2>2 DEF a, b
<1>6. Len(s) \in Nat /\ Len(t) \in Nat
  BY LenProperties
<1>7. ASSUME NEW i \in 1 .. Len(s) + Len(t)
      PROVE  Ids(s \o t)[i] = (Ids(s) \o Ids(t))[i]
  <2>1. CASE i <= Len(s)
    <3>1. i \in 1 .. Len(s)
      BY <1>6, <2>1
    <3>. QED  BY <1>1, <1>2, <1>4, <1>5, <2>1, <3>1
  <2>2. CASE ~ (i <= Len(s))
    <3>1. i - Len(s) \in 1 .. Len(t)
      BY <1>6, <2>2
    <3>. QED  BY <1>1, <1>3, <1>4, <1>5, <2>2, <3>1
  <2>. QED  BY <2>1, <2>2
<1>. QED  BY <1>4, <1>5, <1>7, SeqEqual

LEMMA LineType ==
    ASSUME TypeOK
    PROVE  /\ Ids(InFlight) \in Seq(1 .. MaxJobs) /\ Len(Ids(InFlight)) = Len(InFlight)
           /\ Line \in Seq(1 .. MaxJobs) /\ DOMAIN Line = 1 .. Len(Line)
           /\ Len(Line) = Len(settled) + Len(InFlight)
           /\ Len(settled) \in Nat /\ Len(InFlight) \in Nat
           /\ DOMAIN settled = 1 .. Len(settled)
           /\ \A i \in 1 .. Len(settled) : Line[i] = settled[i]
<1>1. InFlight \in Seq(Jobs) /\ settled \in Seq(1 .. MaxJobs)
  BY InFlightType DEF TypeOK
<1>2. Ids(InFlight) \in Seq(1 .. MaxJobs) /\ Len(Ids(InFlight)) = Len(InFlight)
  BY <1>1, IdsType
<1>3. /\ Line \in Seq(1 .. MaxJobs) /\ Len(Line) = Len(settled) + Len(InFlight)
      /\ \A i \in 1 .. Len(settled) + Len(InFlight) :
            Line[i] = IF i <= Len(settled) THEN settled[i] ELSE Ids(InFlight)[i - Len(settled)]
  BY <1>1, <1>2, Joined DEF Line
<1>4. /\ Len(settled) \in Nat /\ Len(InFlight) \in Nat /\ DOMAIN Line = 1 .. Len(Line)
      /\ DOMAIN settled = 1 .. Len(settled)
  BY <1>1, <1>3, LenProperties
<1>5. \A i \in 1 .. Len(settled) : Line[i] = settled[i]
  BY <1>3, <1>4
<1>. QED  BY <1>2, <1>3, <1>4, <1>5

\* When no job is in flight, the line is the settled jobs.
LEMMA EmptyFlight ==
    ASSUME NEW s \in Seq(1 .. MaxJobs), NEW f \in Seq(Jobs), Len(f) = 0
    PROVE  s \o Ids(f) = s
<1>1. Ids(f) \in Seq(1 .. MaxJobs) /\ Len(Ids(f)) = 0
  BY IdsType
<1>2. Ids(f) = <<>>
  BY <1>1, EmptySeq
<1>. QED  BY <1>2, ConcatEmptySeq

LEMMA InitOInv == Init => OInv
<1> SUFFICES ASSUME Init PROVE OInv
  OBVIOUS
<1>1. TypeOK /\ InFlight = <<>> /\ settled = <<>>
  BY InitIInv, ConcatEmptySeq DEF Init, IInv, InFlight
<1>2. Len(Line) = 0 /\ DOMAIN Line = 1 .. Len(Line)
  BY <1>1, LineType
<1>3. DOMAIN Line = {}
  BY <1>2
<1>4. Increasing(Line) /\ InLine = {}
  BY <1>3 DEF Increasing, InLine
<1>5. StopDrains /\ owed = {} /\ accepted = 0
  BY DEF Init, StopDrains
<1>. QED  BY <1>4, <1>5 DEF OInv

LEMMA AcceptOrder == ASSUME IInv, IInv', OInv, NEW k \in Keys, Accept(k) PROVE OInv'
<1> DEFINE x == [id |-> accepted + 1, key |-> k]
<1>1. /\ accepted' = accepted + 1 /\ queue' = Append(queue, x) /\ accepted < MaxJobs
      /\ UNCHANGED <<job, settled, stopper, owed>>
  BY DEF Accept, stopping
<1>2. x \in Jobs /\ x.id = accepted + 1 /\ accepted \in Nat
  BY <1>1, QueueAssumption DEF IInv, TypeOK, Jobs
<1>3. queue \in Seq(Jobs) /\ job \in Seq(Jobs) /\ InFlight \in Seq(Jobs)
  BY InFlightType DEF IInv, TypeOK
<1> HIDE DEF x
<1>4. InFlight' = Append(InFlight, x)
  BY <1>1, <1>2, <1>3, AppendInFlight DEF InFlight
<1>5. Len(InFlight') = Len(InFlight) + 1
  BY <1>2, <1>3, <1>4, AppendProperties
<1>6. InFlight' = InFlight \o <<x>> /\ <<x>> \in Seq(Jobs)
  BY <1>2, <1>3, <1>4, AppendIsConcat
<1>7. Ids(<<x>>) = <<accepted + 1>>
  <2>1. DOMAIN <<x>> = {1} /\ <<x>>[1] = x
    OBVIOUS
  <2>2. Ids(<<x>>) = [i \in {1} |-> accepted + 1]
    BY <1>2, <2>1 DEF Ids
  <2>. QED  BY <2>2
<1>8. Ids(InFlight') = Ids(InFlight) \o <<accepted + 1>>
  BY <1>3, <1>6, <1>7, IdsConcat
<1>9. /\ Line \in Seq(1 .. MaxJobs) /\ Ids(InFlight) \in Seq(1 .. MaxJobs)
      /\ settled \in Seq(1 .. MaxJobs) /\ <<accepted + 1>> \in Seq(1 .. MaxJobs)
      /\ accepted + 1 \in 1 .. MaxJobs
  <2>1. accepted + 1 \in 1 .. MaxJobs
    BY <1>1, <1>2, QueueAssumption
  <2>2. <<accepted + 1>> \in Seq(1 .. MaxJobs)
    BY <2>1
  <2>3. TypeOK /\ settled \in Seq(1 .. MaxJobs)
    BY DEF IInv, TypeOK
  <2>. QED  BY <2>1, <2>2, <2>3, LineType
<1>10. Line' = Line \o <<accepted + 1>>
  BY <1>1, <1>8, <1>9, ConcatAssociative DEF Line
<1>11. Line' = Append(Line, accepted + 1)
  BY <1>9, <1>10, AppendIsConcat
<1>12. /\ DOMAIN Line' = 1 .. Len(Line) + 1 /\ DOMAIN Line = 1 .. Len(Line) /\ Len(Line) \in Nat
       /\ \A i \in 1 .. Len(Line) : Line'[i] = Line[i]
       /\ Line'[Len(Line) + 1] = accepted + 1
  <2>1. /\ Line' \in Seq(1 .. MaxJobs) /\ Len(Line') = Len(Line) + 1
        /\ \A i \in 1 .. Len(Line) : Line'[i] = Line[i]
        /\ Line'[Len(Line) + 1] = accepted + 1
    BY <1>9, <1>11, AppendProperties
  <2>. QED  BY <1>9, <2>1, LenProperties
<1>13. \A i \in 1 .. Len(Line) : Line[i] \in 1 .. accepted
  BY <1>12 DEF OInv, InLine
<1>14. Increasing(Line')
  <2> SUFFICES ASSUME NEW i \in 1 .. Len(Line) + 1, NEW j \in 1 .. Len(Line) + 1, i < j
               PROVE  Line'[i] < Line'[j]
    BY <1>12 DEF Increasing
  <2>1. i \in 1 .. Len(Line) /\ Line'[i] = Line[i]
    BY <1>12
  <2>2. CASE j = Len(Line) + 1
    BY <1>2, <1>12, <1>13, <2>1, <2>2
  <2>3. CASE j # Len(Line) + 1
    <3>1. j \in 1 .. Len(Line) /\ Line'[j] = Line[j]
      BY <1>12, <2>3
    <3>. QED  BY <1>12, <2>1, <3>1 DEF OInv, Increasing
  <2>. QED  BY <2>2, <2>3
<1>15. InLine' = InLine \cup {accepted + 1}
  <2>1. InLine' = {Line'[i] : i \in 1 .. Len(Line) + 1} /\ InLine = {Line[i] : i \in 1 .. Len(Line)}
    BY <1>12 DEF InLine
  <2>2. 1 .. Len(Line) + 1 = (1 .. Len(Line)) \cup {Len(Line) + 1}
    BY <1>12
  <2>. QED  BY <1>12, <2>1, <2>2
<1>16. 1 .. accepted' = (1 .. accepted) \cup {accepted + 1}
  BY <1>1, <1>2
<1>17. StopDrains'
  BY <1>1 DEF OInv, StopDrains, SettledIds
<1>. QED  BY <1>1, <1>14, <1>15, <1>16, <1>17 DEF OInv

\* Settling the job in hand moves it within the line, which stays as it is.
LEMMA ResumeOrder == ASSUME IInv, IInv', OInv, Resume PROVE OInv'
<1>1. /\ task = "running" /\ TaskDone /\ GetJob
      /\ settled' = settled \o Ids(job) /\ UNCHANGED accepted
  BY DEF Resume
<1>2. /\ queue \in Seq(Jobs) /\ job \in Seq(Jobs) /\ settled \in Seq(1 .. MaxJobs)
      /\ Ids(job) \in Seq(1 .. MaxJobs) /\ Ids(queue) \in Seq(1 .. MaxJobs)
  BY IdsType DEF IInv, TypeOK
<1>3. InFlight' = queue
  BY <1>1, GetJobLemma DEF IInv
<1>4. Ids(InFlight) = Ids(job) \o Ids(queue)
  BY <1>2, IdsConcat DEF InFlight
<1>5. Line' = (settled \o Ids(job)) \o Ids(queue)
  BY <1>1, <1>3 DEF Line
<1>6. Line' = Line
  BY <1>2, <1>4, <1>5, ConcatAssociative DEF Line
<1>7. InLine' = InLine
  BY <1>6 DEF InLine
<1>8. SettledIds \subseteq SettledIds'
  <2>1. /\ Len(settled') = Len(settled) + Len(Ids(job)) /\ settled' \in Seq(1 .. MaxJobs)
        /\ \A i \in 1 .. Len(settled) + Len(Ids(job)) :
              settled'[i] = IF i <= Len(settled) THEN settled[i] ELSE Ids(job)[i - Len(settled)]
    BY <1>1, <1>2, ConcatProperties
  <2>2. /\ Len(settled) \in Nat /\ Len(Ids(job)) \in Nat /\ DOMAIN settled = 1 .. Len(settled)
        /\ DOMAIN settled' = 1 .. Len(settled')
    BY <1>2, <2>1, LenProperties
  <2>3. \A i \in 1 .. Len(settled) : i \in DOMAIN settled' /\ settled'[i] = settled[i]
    BY <2>1, <2>2
  <2>. QED  BY <2>2, <2>3 DEF SettledIds
<1>9. owed' = owed
  BY <1>1 DEF TaskDone, stopping
<1>10. StopDrains'
  <2>1. CASE stopper' = stopper
    BY <1>8, <1>9, <2>1 DEF OInv, StopDrains
  <2>2. CASE stopper' # stopper
    <3>1. stopper = "joining" /\ unfinished' = 0
      BY <1>1, <2>2 DEF TaskDone, stopping
    <3>2. /\ Len(InFlight') = 0 /\ InFlight' \in Seq(Jobs)
          /\ settled' \in Seq(1 .. MaxJobs)
      BY <1>2, <1>3, <3>1 DEF IInv, UnfinishedExact, TypeOK
    <3>3. Line' = settled'
      BY <3>2, EmptyFlight DEF Line
    <3>4. InLine = 1 .. accepted
      BY <3>1 DEF OInv
    <3>. QED  BY <1>7, <1>9, <3>3, <3>4 DEF OInv, StopDrains, InLine, SettledIds
  <2>. QED  BY <2>1, <2>2
<1>11. stopper' \notin {"await_task", "stopped"} => stopper \notin {"await_task", "stopped"}
  BY <1>1 DEF TaskDone, stopping
<1>. QED  BY <1>1, <1>6, <1>7, <1>9, <1>10, <1>11 DEF OInv

\* Cancelling the drain takes at most one job out of the line.
LEMMA CancelledOrder == ASSUME IInv, IInv', OInv, Cancelled PROVE OInv'
<1> DEFINE n == Len(settled)
           d == Len(job)
           q == Len(queue)
<1>1. /\ task = "cancelled" /\ job' = <<>>
      /\ UNCHANGED <<queue, accepted, settled, stopper, owed>>
  BY DEF Cancelled, stopping
<1>2. /\ queue \in Seq(Jobs) /\ job \in Seq(Jobs) /\ settled \in Seq(1 .. MaxJobs)
      /\ stopper = "await_task" /\ InFlight \in Seq(Jobs)
  BY <1>1, InFlightType DEF IInv, TypeOK, DrainState
<1>3. InFlight' = queue
  BY <1>1, <1>2, ConcatEmptySeq DEF InFlight
<1>4. /\ Ids(queue) \in Seq(1 .. MaxJobs) /\ Len(Ids(queue)) = q
      /\ Ids(job) \in Seq(1 .. MaxJobs) /\ Len(Ids(job)) = d
      /\ n \in Nat /\ d \in Nat /\ q \in Nat
  BY <1>2, IdsType, LenProperties
<1>5. Line = settled \o (Ids(job) \o Ids(queue)) /\ Line' = settled \o Ids(queue)
  BY <1>1, <1>2, <1>3, IdsConcat DEF Line, InFlight
<1>6. /\ Ids(job) \o Ids(queue) \in Seq(1 .. MaxJobs) /\ Len(Ids(job) \o Ids(queue)) = d + q
      /\ \A i \in 1 .. d + q : (Ids(job) \o Ids(queue))[i] =
            IF i <= d THEN Ids(job)[i] ELSE Ids(queue)[i - d]
  BY <1>4, Joined
<1>7. /\ Line \in Seq(1 .. MaxJobs) /\ Len(Line) = n + (d + q)
      /\ \A i \in 1 .. n + (d + q) : Line[i] =
            IF i <= n THEN settled[i] ELSE (Ids(job) \o Ids(queue))[i - n]
  <2> DEFINE a == Ids(job) \o Ids(queue)
  <2>1. a \in Seq(1 .. MaxJobs) /\ Len(a) = d + q /\ Line = settled \o a
    BY <1>5, <1>6
  <2> HIDE DEF a, d, q
  <2>2. /\ Line \in Seq(1 .. MaxJobs) /\ Len(Line) = n + (d + q)
        /\ \A i \in 1 .. n + (d + q) : Line[i] = IF i <= n THEN settled[i] ELSE a[i - n]
    <3>1. /\ settled \o a \in Seq(1 .. MaxJobs) /\ Len(settled \o a) = Len(settled) + Len(a)
          /\ \A i \in 1 .. Len(settled) + Len(a) :
                (settled \o a)[i] = IF i <= Len(settled) THEN settled[i] ELSE a[i - Len(settled)]
      BY <1>2, <2>1, ConcatProperties
    <3>. QED  BY <2>1, <3>1
  <2>. QED  BY <2>2 DEF a
<1>8. /\ Line' \in Seq(1 .. MaxJobs) /\ Len(Line') = n + q
      /\ \A i \in 1 .. n + q : Line'[i] = IF i <= n THEN settled[i] ELSE Ids(queue)[i - n]
  <2> DEFINE a == Ids(queue)
  <2>1. a \in Seq(1 .. MaxJobs) /\ Len(a) = q /\ Line' = settled \o a
    BY <1>4, <1>5
  <2> HIDE DEF a, q
  <2>2. /\ Line' \in Seq(1 .. MaxJobs) /\ Len(Line') = n + q
        /\ \A i \in 1 .. n + q : Line'[i] = IF i <= n THEN settled[i] ELSE a[i - n]
    <3>1. /\ settled \o a \in Seq(1 .. MaxJobs) /\ Len(settled \o a) = Len(settled) + Len(a)
          /\ \A i \in 1 .. Len(settled) + Len(a) :
                (settled \o a)[i] = IF i <= Len(settled) THEN settled[i] ELSE a[i - Len(settled)]
      BY <1>2, <2>1, ConcatProperties
    <3>. QED  BY <2>1, <3>1
  <2>. QED  BY <2>2 DEF a
<1>9. DOMAIN Line = 1 .. n + d + q /\ DOMAIN Line' = 1 .. n + q
  <2>1. DOMAIN Line = 1 .. Len(Line) /\ DOMAIN Line' = 1 .. Len(Line')
    BY <1>7, <1>8, LenProperties
  <2>2. n + (d + q) = n + d + q
    BY <1>4
  <2>. QED  BY <1>7, <1>8, <2>1, <2>2
<1> HIDE DEF n, d, q
<1>10. ASSUME NEW i \in 1 .. n + q
       PROVE  /\ i <= n => i \in DOMAIN Line /\ Line'[i] = Line[i]
              /\ i > n  => i + d \in DOMAIN Line /\ Line'[i] = Line[i + d]
  <2>1. CASE i <= n
    <3>1. i \in 1 .. n + (d + q) /\ i \in 1 .. n + d + q /\ ~ (i > n)
      BY <1>4, <2>1
    <3>. QED  BY <1>7, <1>8, <1>9, <2>1, <3>1
  <2>2. CASE i > n
    <3>1. /\ i + d \in 1 .. n + (d + q) /\ i + d \in 1 .. n + d + q /\ ~ (i + d <= n)
          /\ ~ (i <= n) /\ (i + d) - n \in 1 .. d + q /\ ~ ((i + d) - n <= d)
          /\ ((i + d) - n) - d = i - n
      BY <1>4, <2>2
    <3>2. Line[i + d] = (Ids(job) \o Ids(queue))[(i + d) - n]
      BY <1>7, <3>1
    <3>3. (Ids(job) \o Ids(queue))[(i + d) - n] = Ids(queue)[i - n]
      BY <1>6, <3>1
    <3>. QED  BY <1>8, <1>9, <3>1, <3>2, <3>3
  <2>. QED  BY <1>4, <2>1, <2>2
<1>11. Increasing(Line')
  <2> SUFFICES ASSUME NEW i \in 1 .. n + q, NEW j \in 1 .. n + q, i < j
               PROVE  Line'[i] < Line'[j]
    BY <1>9 DEF Increasing
  <2>1. PICK a \in DOMAIN Line, b \in DOMAIN Line :
           Line'[i] = Line[a] /\ Line'[j] = Line[b] /\ a < b
    <3>1. CASE j <= n
      BY <1>4, <1>10, <3>1
    <3>2. CASE i <= n /\ j > n
      <4>1. i < j + d
        BY <1>4, <3>2
      <4>. QED  BY <1>10, <3>2, <4>1
    <3>3. CASE i > n
      <4>1. i + d < j + d /\ j > n
        BY <1>4, <3>3
      <4>. QED  BY <1>10, <3>3, <4>1
    <3>. QED  BY <1>4, <3>1, <3>2, <3>3
  <2>. QED  BY <2>1 DEF OInv, Increasing
<1>12. InLine' \subseteq InLine
  <2> SUFFICES ASSUME NEW i \in 1 .. n + q PROVE Line'[i] \in InLine
    BY <1>9 DEF InLine
  <2>1. i <= n \/ i > n
    BY <1>4
  <2>. QED  BY <1>10, <2>1 DEF InLine
<1>13. StopDrains'
  BY <1>1 DEF OInv, StopDrains, SettledIds
<1>. QED  BY <1>1, <1>2, <1>11, <1>12, <1>13 DEF OInv

LEMMA TakeOrder == ASSUME IInv, OInv, Take PROVE OInv'
<1>1. /\ task = "waiting" /\ GetJob /\ UNCHANGED <<accepted, settled, stopper, owed>>
  BY DEF Take, stopping
<1>2. job = <<>> /\ queue \in Seq(Jobs)
  BY <1>1 DEF IInv, DrainState, TypeOK
<1>3. InFlight' = InFlight
  BY <1>1, <1>2, GetJobLemma, ConcatEmptySeq DEF InFlight, IInv
<1>4. Line' = Line /\ InLine' = InLine
  BY <1>1, <1>3 DEF Line, InLine
<1>. QED  BY <1>1, <1>4 DEF OInv, StopDrains, SettledIds

LEMMA OtherOrder ==
    ASSUME IInv, OInv,
           \/ \E k \in Keys : Drop(k)
           \/ Start \/ ThreadEnds \/ StopBegin \/ Join \/ JoinTimesOut \/ Cancel
           \/ OrphanEnds \/ StopEnds \/ UNCHANGED vars
    PROVE  OInv'
<1>1. UNCHANGED <<queue, job, unfinished, accepted, settled>>
  BY DEF Drop, Start, ThreadEnds, StopBegin, Join, JoinTimesOut, Cancel, OrphanEnds, StopEnds,
         vars, stopping
<1>2. InFlight' = InFlight
  BY <1>1 DEF InFlight
<1>3. Line' = Line /\ InLine' = InLine /\ SettledIds' = SettledIds
  BY <1>1, <1>2 DEF Line, InLine, SettledIds
<1>4. owed' \subseteq 1 .. accepted
  BY DEF OInv, Drop, Start, ThreadEnds, StopBegin, Join, JoinTimesOut, Cancel, OrphanEnds,
         StopEnds, vars, stopping
<1>5. stopper' \notin {"await_task", "stopped"} => stopper \notin {"await_task", "stopped"}
  BY DEF Drop, Start, ThreadEnds, StopBegin, Join, JoinTimesOut, Cancel, OrphanEnds,
         StopEnds, vars, stopping
<1>6. StopDrains'
  <2>1. CASE Join /\ unfinished = 0
    <3>1. Len(InFlight) = 0 /\ InFlight \in Seq(Jobs) /\ settled \in Seq(1 .. MaxJobs)
      BY <2>1, InFlightType DEF IInv, UnfinishedExact, TypeOK
    <3>2. Line = settled
      BY <3>1, EmptyFlight DEF Line
    <3>3. InLine = SettledIds
      BY <3>2 DEF InLine, SettledIds
    <3>4. InLine = 1 .. accepted /\ owed \subseteq 1 .. accepted /\ owed' = owed
      BY <2>1 DEF Join, OInv
    <3>. QED  BY <1>3, <3>3, <3>4 DEF StopDrains
  <2>2. CASE ~ (Join /\ unfinished = 0)
    <3>1. \/ owed' = {}
          \/ stopper' \in {"idle", "join", "joining"}
          \/ owed' = owed /\ (stopper' = stopper \/ stopper \in {"joined", "await_task"})
      BY <2>2 DEF Drop, Start, ThreadEnds, StopBegin, Join, JoinTimesOut, Cancel, OrphanEnds,
         StopEnds, vars, stopping
    <3>. QED  BY <1>3, <3>1 DEF OInv, StopDrains
  <2>. QED  BY <2>1, <2>2
<1>. QED  BY <1>1, <1>3, <1>4, <1>5, <1>6 DEF OInv

LEMMA NextOInv == IInv /\ IInv' /\ OInv /\ [Next]_vars => OInv'
BY AcceptOrder, ResumeOrder, TakeOrder, CancelledOrder, OtherOrder DEF Next

LEMMA OrderInvariance == Spec => []OInv
BY InitOInv, NextOInv, Invariance, PTL DEF Spec

-----------------------------------------------------------------------------
\* Every variable keeps its type; in particular the queue its bound.
THEOREM TypeCorrect == Spec => []TypeOK
<1>1. IInv => TypeOK
  BY DEF IInv
<1>. QED  BY <1>1, Invariance, PTL

\* enqueue's claims are exact and no two jobs in flight share a key.
THEOREM ClaimsExact == Spec => []PendingExact
<1>1. IInv => PendingExact
  BY DEF IInv
<1>. QED  BY <1>1, Invariance, PTL

\* The count that stop() joins on is the number of jobs in flight.
THEOREM JoinCountExact == Spec => []UnfinishedExact
<1>1. IInv => UnfinishedExact
  BY DEF IInv
<1>. QED  BY <1>1, Invariance, PTL

\* No accepted job vanishes from the counters, but for one that stop() cancels.
THEOREM CancelLosesAtMostOne == Spec => []AtMostOneLost
<1>1. IInv => AtMostOneLost
  BY DEF IInv
<1>. QED  BY <1>1, Invariance, PTL

\* Jobs settle in the order enqueue() accepted them, each at most once, and
\* every job in flight is younger than all the settled ones, through failures
\* and the cancellation of the drain.
THEOREM SettlesInOrder == Spec => []SettledInOrder
<1>1. OInv => SettledInOrder
  BY DEF OInv, SettledInOrder, Line, Increasing
<1>. QED  BY <1>1, OrderInvariance, PTL

\* Unless its timeout struck, stop() cancels the drain only after every job
\* accepted before the call was settled.
THEOREM StopWaitsForOwed == Spec => []StopDrains
<1>1. OInv => StopDrains
  BY DEF OInv
<1>. QED  BY <1>1, OrderInvariance, PTL

=============================================================================
