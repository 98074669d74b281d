-------------------- MODULE CompressionStoreRestartProofs --------------------
(***************************************************************************)
(* Proofs about CompressionStoreRestart, for any number of restarts and    *)
(* failed backend calls: how far the store can outgrow its capacity, and   *)
(* that no feedback event is forwarded twice.                              *)
(***************************************************************************)
EXTENDS CompressionStoreRestart, CompressionStoreProofs

(***************************************************************************)
(* Why the drift is bounded: a restart or a failed call puts entries out   *)
(* of eviction's reach, at most those there were, and adds at most one     *)
(* entry; every other step leaves at most one entry beside those.          *)
(***************************************************************************)
RInv ==
    /\ BInv
    /\ restarts \in Nat /\ faults \in Nat
    /\ CapacityDrift
    /\ Cardinality(Uncovered) < MaxEntries + restarts + faults

\* What a restart or a failed call may do to the entries.
LooseStep ==
    /\ Uncovered' \subseteq live
    /\ \E k : live' \subseteq live \cup {k}

\* What store() with a failed call does to the queue: new ids for new events.
QueueStep ==
    \E N : /\ pending' = pending \cup N /\ UniqueIds(N)
           /\ made' \in Nat /\ made <= made' /\ Ids(N) = made + 1 .. made'

\* The types that store() with a failed call must restore.
StoreTypes ==
    /\ DOMAIN store \subseteq Keys /\ store \in [DOMAIN store -> Entry]
    /\ heap \subseteq HeapItem /\ IsFiniteSet(heap)
    /\ stale \in Nat /\ made \in Nat /\ pending \subseteq Event

\* The heap with which the loop may begin.
LoopHeap == [heap : {h \in SUBSET HeapItem : IsFiniteSet(h)}, stale : Nat]

\* What a sweep may leave.
SweepOutcome == [left : SUBSET live, stale : Nat]

LEMMA SweepTypes == ASSUME BInv PROVE Sweep \in SweepOutcome /\ FaultySweeps \subseteq SweepOutcome
<1>1. Unexpired \subseteq live /\ StaleCleaned \in Nat /\ stale \in Nat
  BY CleanedType DEF Unexpired, BInv, TypeOK
<1>. QED  BY <1>1 DEF Sweep, FaultySweeps, SweepOutcome

LEMMA LoopStartType ==
    ASSUME BInv, NEW w \in SweepOutcome PROVE LoopStart(w) \in LoopHeap
<1>1. w.left \subseteq live /\ w.stale \in Nat
  BY DEF SweepOutcome
<1>2. CASE Rebuilds(w)
  <2> DEFINE R == {[at |-> store[k].created, key |-> k, n |-> 0] : k \in w.left}
             g == [k \in w.left |-> [at |-> store[k].created, key |-> k, n |-> 0]]
  <2>1. \A k \in live : k \in Keys /\ store[k].created \in Nat
    BY DEF BInv, TypeOK, live, Entry
  <2>2. R \subseteq HeapItem
    BY <1>1, <2>1 DEF HeapItem
  <2>3. IsFiniteSet(w.left)
    BY <1>1, LiveFinite, FS_Subset DEF BInv
  <2>4. g \in Surjection(w.left, R)
    BY DEF Surjection
  <2>5. IsFiniteSet(R)
    BY <2>3, <2>4, FS_Surjection
  <2>6. LoopStart(w) = [heap |-> R, stale |-> 0]
    BY <1>2 DEF LoopStart
  <2> HIDE DEF R, g
  <2>. QED  BY <2>2, <2>5, <2>6 DEF LoopHeap
<1>3. CASE ~Rebuilds(w)
  BY <1>1, <1>3 DEF LoopStart, LoopHeap, BInv, TypeOK
<1>. QED  BY <1>2, <1>3

-----------------------------------------------------------------------------
(* The end of a pass of _evict_if_needed in which a call failed.            *)

\* The reported evictions get the next ids, one each, in the order of the pops.
LEMMA ReportedIds ==
    ASSUME NEW news \in SUBSET HeapItem, IsFiniteSet(news), made \in Nat,
           pending' = pending \cup
               {[id |-> made + 1 + Cardinality({q \in news : Before(q, r)}),
                 kind |-> "eviction_success", key |-> r.key, sig |-> TRUE] : r \in news},
           made' = made + Cardinality(news)
    PROVE  QueueStep /\ (pending \subseteq Event => pending' \subseteq Event)
<1> DEFINE E == [r \in news |-> {q \in news : Before(q, r)}]
           rank == [r \in news |-> Cardinality(E[r]) + 1]
           Ev(r) == [id |-> made + 1 + Cardinality({q \in news : Before(q, r)}),
                     kind |-> "eviction_success", key |-> r.key, sig |-> TRUE]
           N == {Ev(r) : r \in news}
           c == Cardinality(news)
<1>1. c \in Nat
  BY FS_CardinalityType
<1>2. E \in [news -> SUBSET news] /\ \A r \in news : r \notin E[r]
  BY BeforeOrder
<1>3. ASSUME NEW j \in news, NEW k \in news, j # k
      PROVE  \/ j \in E[k] /\ E[j] \subseteq E[k]
             \/ k \in E[j] /\ E[k] \subseteq E[j]
  <2>1. ASSUME NEW a \in news, NEW b \in news, Before(a, b)
        PROVE  a \in E[b] /\ E[a] \subseteq E[b]
    <3>1. a \in E[b]
      BY <2>1
    <3>2. ASSUME NEW q \in news, Before(q, a) PROVE Before(q, b)
      <4>1. q \in HeapItem /\ a \in HeapItem /\ b \in HeapItem
        OBVIOUS
      <4>. QED  BY <2>1, <3>2, <4>1, BeforeOrder
    <3>. QED  BY <3>1, <3>2
  <2>2. Before(j, k) \/ Before(k, j)
    BY <1>3, BeforeOrder
  <2>. QED  BY <2>1, <2>2
<1>4. \A r \in news : Ev(r).id = made + 1 + Cardinality(E[r])
  OBVIOUS
<1>5. \A r \in news : Cardinality(E[r]) \in Nat
  <2>1. \A r \in news : E[r] \in SUBSET news
    OBVIOUS
  <2> HIDE DEF E
  <2>. QED  BY <2>1, FS_Subset, FS_CardinalityType
<1>6. \A r \in news : Ev(r).key \in Keys /\ Ev(r) =
          [id |-> made + 1 + Cardinality(E[r]), kind |-> "eviction_success",
           key |-> r.key, sig |-> TRUE]
  BY DEF HeapItem
<1> HIDE DEF E
<1>7. rank \in Injection(news, 1 .. c) /\ rank \in Surjection(news, 1 .. c)
  BY <1>2, <1>3, Ranking
<1>8. \A r \in news : rank[r] \in 1 .. c
  BY <1>7 DEF Injection
<1>9. \A r \in news : Ev(r).id = made + rank[r]
  <2> HIDE DEF Ev
  <2>1. \A r \in news : made + 1 + Cardinality(E[r]) = made + rank[r]
    BY <1>5
  <2>. QED  BY <1>4, <2>1
<1>10. \A i \in 1 .. c : \E r \in news : rank[r] = i
  BY <1>7 DEF Surjection
<1>11. \A j, k \in news : rank[j] = rank[k] => j = k
  BY <1>7 DEF Injection, IsInjective
<1>12. pending' = pending \cup N
  OBVIOUS
<1>13. pending \subseteq Event => pending' \subseteq Event
  <2>1. ASSUME NEW r \in news PROVE Ev(r) \in Event
    <3>1. r.key \in Keys /\ made + 1 + Cardinality(E[r]) \in Nat
      BY <1>5 DEF HeapItem
    <3>2. Ev(r) = [id |-> made + 1 + Cardinality(E[r]), kind |-> "eviction_success",
                   key |-> r.key, sig |-> TRUE]
      BY <1>6
    <3> HIDE DEF Ev
    <3>. QED  BY <3>1, <3>2 DEF Event, Kinds
  <2>. QED  BY <1>12, <2>1
<1> HIDE DEF rank, c, Ev
<1>14. Ids(N) = made + 1 .. made + c
  <2>1. \A x \in Ids(N) : x \in made + 1 .. made + c
    <3> SUFFICES ASSUME NEW r \in news PROVE Ev(r).id \in made + 1 .. made + c
      BY DEF Ids
    <3>. QED  BY <1>1, <1>8, <1>9
  <2>2. ASSUME NEW x \in made + 1 .. made + c PROVE x \in Ids(N)
    <3>1. x - made \in 1 .. c
      BY <1>1
    <3>2. PICK r \in news : rank[r] = x - made
      BY <1>10, <3>1
    <3>3. Ev(r).id = x
      BY <1>9, <3>2
    <3>. QED  BY <3>3 DEF Ids
  <2>. QED  BY <2>1, <2>2
<1>15. UniqueIds(N)
  <2> SUFFICES ASSUME NEW j \in news, NEW k \in news, Ev(j).id = Ev(k).id
               PROVE  j = k
    BY DEF UniqueIds
  <2>1. rank[j] = rank[k]
    BY <1>1, <1>8, <1>9
  <2>. QED  BY <1>11, <2>1
<1> HIDE DEF N
<1>16. made' \in Nat /\ made <= made' /\ made' = made + c
  BY <1>1 DEF c
<1>. QED  BY <1>12, <1>13, <1>14, <1>15, <1>16 DEF QueueStep

\* What is left of the store and of the heap, whatever failed: entries there were
\* before and, if it was stored, the new one, which the heap covers.
LEMMA FinishLemma ==
    ASSUME BInv, NEW j \in Job, NEW K \in SUBSET live, NEW h0 \in LoopHeap,
           NEW P \in SUBSET h0.heap, NEW x, NEW reported \in SUBSET {r \in P : r.key \in K},
           NEW stored \in BOOLEAN, Finish(j, K, h0, P, x, reported, stored)
    PROVE  StoreTypes' /\ LooseStep /\ QueueStep
<1> DEFINE kept == K \ EvictedKeys(K, P \ x)
           found == Evicting(K, P \ x) \cup reported
           missed == Cardinality(P \ found)
           news == {r \in found : ~store[r.key].retrieved /\ store[r.key].sig}
           s == [k \in kept \cup {j.key} |-> IF k = j.key THEN NewEntry(j, FALSE) ELSE store[k]]
<1>1. /\ store' \in IF stored THEN AfterSet(s) ELSE {Only(kept)}
      /\ stale' = IF missed <= h0.stale THEN h0.stale - missed ELSE 0
      /\ heap' = Push(h0.heap \ P, j.at, j.key)
      /\ pending' = pending \cup
             {[id |-> made + 1 + Cardinality({q \in news : Before(q, r)}),
               kind |-> "eviction_success", key |-> r.key, sig |-> TRUE] : r \in news}
      /\ made' = made + Cardinality(news)
  BY DEF Finish
<1>2. /\ h0.heap \subseteq HeapItem /\ IsFiniteSet(h0.heap) /\ h0.stale \in Nat
      /\ P \subseteq HeapItem /\ IsFiniteSet(P)
      /\ h0.heap \ P \in SUBSET HeapItem /\ IsFiniteSet(h0.heap \ P)
  BY FS_Subset DEF LoopHeap
<1>3. found \subseteq P /\ kept \subseteq live
  BY DEF Evicting
<1>4. news \in SUBSET HeapItem /\ IsFiniteSet(news) /\ made \in Nat /\ pending \subseteq Event
  <2>1. news \subseteq found
    OBVIOUS
  <2> HIDE DEF news, found
  <2>2. news \in SUBSET P /\ news \in SUBSET HeapItem
    BY <1>2, <1>3, <2>1
  <2>3. IsFiniteSet(news)
    BY <1>2, <2>2, FS_Subset
  <2>4. made \in Nat /\ pending \subseteq Event
    BY DEF BInv, TypeOK
  <2>. QED  BY <2>2, <2>3, <2>4
<1>5. stale' \in Nat
  <2>1. missed \in Nat
    BY <1>2, FS_Subset, FS_CardinalityType
  <2> HIDE DEF missed
  <2>. QED  BY <1>1, <1>2, <2>1
<1>6. j.key \in Keys /\ j.at \in Nat
  BY DEF Job
<1>7. /\ heap' \subseteq HeapItem /\ IsFiniteSet(heap')
      /\ \E r \in heap' : r.key = j.key /\ r.at = j.at
  BY <1>1, <1>2, <1>6, PushLemma
<1>8. QueueStep /\ pending' \subseteq Event
  <2> HIDE DEF news
  <2>. QED  BY <1>1, <1>4, ReportedIds
<1>9. made' \in Nat
  BY <1>8 DEF QueueStep
<1> HIDE DEF missed, news, found, kept
<1>10. \A k \in live : k \in Keys /\ store[k] \in Entry
  BY DEF BInv, TypeOK, live
<1>11. CASE stored
  <2>1. /\ DOMAIN s = kept \cup {j.key} /\ s = [k \in DOMAIN s |-> s[k]]
        /\ s[j.key] = NewEntry(j, FALSE) /\ store' \in AfterSet(s)
        /\ \A k \in kept \ {j.key} : s[k] = store[k]
    BY <1>1, <1>11
  <2>2. NewEntry(j, FALSE) \in Entry /\ NewEntry(j, FALSE).created = j.at
    BY NewEntryType DEF NewEntry
  <2> HIDE DEF s
  <2>3. DOMAIN store' \subseteq kept \cup {j.key} /\ store' = [k \in DOMAIN store' |-> s[k]]
    BY <2>1, AfterSetLemma
  <2>4. \A k \in DOMAIN store' : k \in Keys /\ store'[k] \in Entry
    BY <1>3, <1>6, <1>10, <2>1, <2>2, <2>3
  <2>5. DOMAIN store' \subseteq Keys /\ store' \in [DOMAIN store' -> Entry]
    BY <2>3, <2>4
  <2>6. j.key \in DOMAIN store' => store'[j.key].created = j.at
    BY <2>1, <2>2, <2>3
  <2>7. Uncovered' \subseteq live
    BY <1>3, <1>7, <2>3, <2>6 DEF Uncovered, live
  <2>8. LooseStep
    BY <1>3, <2>3, <2>7 DEF LooseStep, live
  <2>. QED  BY <1>5, <1>7, <1>8, <1>9, <2>5, <2>8 DEF StoreTypes
<1>12. CASE ~stored
  <2>1. store' = [k \in kept |-> store[k]]
    BY <1>1, <1>12 DEF Only
  <2>2. DOMAIN store' \subseteq Keys /\ store' \in [DOMAIN store' -> Entry]
    BY <1>3, <1>10, <2>1
  <2>3. LooseStep
    BY <1>3, <2>1 DEF LooseStep, Uncovered, live
  <2>. QED  BY <1>5, <1>7, <1>8, <1>9, <2>2, <2>3 DEF StoreTypes
<1>. QED  BY <1>11, <1>12

LEMMA PassLemma ==
    ASSUME BInv, NEW j \in Job, NEW w \in SweepOutcome, NEW stored \in BOOLEAN,
           Pass(j, w, stored)
    PROVE  StoreTypes' /\ LooseStep /\ QueueStep
<1>1. w.left \in SUBSET live /\ LoopStart(w) \in LoopHeap
  BY LoopStartType DEF SweepOutcome
<1>2. PICK P \in Segments(LoopStart(w).heap) :
          Finish(j, w.left, LoopStart(w), P, {}, {}, stored)
  BY DEF Pass
<1>3. P \in SUBSET LoopStart(w).heap
  BY DEF Segments
<1>4. {} \in SUBSET {r \in P : r.key \in w.left}
  OBVIOUS
<1>. QED  BY <1>1, <1>2, <1>3, <1>4, FinishLemma

LEMMA FaultyStoreLemma ==
    ASSUME BInv, NEW j \in Job, FaultyStore(j)
    PROVE  StoreTypes' /\ LooseStep /\ QueueStep
<1> DEFINE h0 == LoopStart(Sweep)
<1>1. Sweep \in SweepOutcome /\ h0 \in LoopHeap /\ Unexpired \in SUBSET live
  BY SweepTypes, LoopStartType DEF Unexpired
<1>2. ASSUME NEW stored \in BOOLEAN, Pass(j, Sweep, stored)
      PROVE  StoreTypes' /\ LooseStep /\ QueueStep
  BY <1>1, <1>2, PassLemma
<1>3. ASSUME NEW w \in FaultySweeps, Pass(j, w, TRUE)
      PROVE  StoreTypes' /\ LooseStep /\ QueueStep
  BY <1>3, SweepTypes, PassLemma
<1>4. ASSUME j.key \in live, stale' = stale + 1, heap' = Push(heap, j.at, j.key),
             UNCHANGED <<store, pending, made>>
      PROVE  StoreTypes' /\ LooseStep /\ QueueStep
  <2>1. heap' \subseteq HeapItem /\ IsFiniteSet(heap')
    BY <1>4, PushLemma DEF BInv, TypeOK, Job
  <2>2. StoreTypes'
    BY <1>4, <2>1 DEF StoreTypes, BInv, TypeOK
  <2>3. LooseStep
    BY <1>4 DEF LooseStep, Uncovered, live
  <2>4. QueueStep
    <3>1. made \in Nat /\ made + 1 .. made = {} /\ Ids({}) = {} /\ UniqueIds({})
      BY DEF BInv, TypeOK, Ids, UniqueIds
    <3>2. pending' = pending \cup {} /\ made' = made
      BY <1>4
    <3>. QED  BY <3>1, <3>2 DEF QueueStep
  <2>. QED  BY <2>2, <2>3, <2>4
<1>5. ASSUME Finish(j, Unexpired, [heap |-> {}, stale |-> 0], {}, {}, {}, TRUE)
      PROVE  StoreTypes' /\ LooseStep /\ QueueStep
  <2>1. [heap |-> {}, stale |-> 0] \in LoopHeap
    BY FS_EmptySet DEF LoopHeap
  <2>2. {} \in SUBSET [heap |-> {}, stale |-> 0].heap
        /\ {} \in SUBSET {r \in {} : r.key \in Unexpired}
    OBVIOUS
  <2>. QED  BY <1>1, <1>5, <2>1, <2>2, FinishLemma
<1>6. ASSUME NEW P \in Segments(h0.heap), NEW x, NEW reported \in SUBSET {r \in P : r.key \in Unexpired},
             Finish(j, Unexpired, h0, P, x, reported, TRUE)
      PROVE  StoreTypes' /\ LooseStep /\ QueueStep
  <2>1. P \in SUBSET h0.heap
    BY DEF Segments
  <2> HIDE DEF h0
  <2>. QED  BY <1>1, <1>6, <2>1, FinishLemma
<1>7. ASSUME NEW P \in Segments(h0.heap), NEW r \in Evicting(Unexpired, P),
             NEW reported \in {{}, {r}}, Finish(j, Unexpired, h0, P, {r}, reported, TRUE)
      PROVE  StoreTypes' /\ LooseStep /\ QueueStep
  <2>1. reported \in SUBSET {q \in P : q.key \in Unexpired}
    BY DEF Evicting
  <2> HIDE DEF h0
  <2>. QED  BY <1>6, <1>7, <2>1
<1>8. ASSUME NEW Q \in Segments(h0.heap), Finish(j, Unexpired, h0, Q, {}, {}, TRUE)
      PROVE  StoreTypes' /\ LooseStep /\ QueueStep
  <2>1. {} \in SUBSET {q \in Q : q.key \in Unexpired}
    OBVIOUS
  <2> HIDE DEF h0
  <2>. QED  BY <1>6, <1>8, <2>1
<1> HIDE DEF h0
<1>. QED  BY <1>2, <1>3, <1>4, <1>5, <1>7, <1>8 DEF FaultyStore, h0

-----------------------------------------------------------------------------
(* Each action.                                                             *)

LEMMA FaultyCommitStep ==
    ASSUME BInv, NEW t \in Threads, FaultyCommit(t)
    PROVE  BInv' /\ LooseStep /\ (EInv => EInv')
<1>1. PICK j \in job[t] : FaultyStore(j)
  BY DEF FaultyCommit
<1>2. /\ pc[t] = "commit" /\ pc' = [pc EXCEPT ![t] = "idle"] /\ job' = [job EXCEPT ![t] = {}]
      /\ UNCHANGED <<now, batch, fed, cleared, stores, sqlite>>
  BY DEF FaultyCommit
<1>3. StoreTypes' /\ LooseStep /\ QueueStep
  BY <1>1, FaultyStoreLemma DEF BInv, TypeOK
<1>4. BInv'
  BY <1>2, <1>3 DEF BInv, TypeOK, StoreTypes
<1>5. ASSUME EInv PROVE EInv'
  <2>1. PICK N : /\ pending' = pending \cup N /\ UniqueIds(N)
                 /\ made' \in Nat /\ made <= made' /\ Ids(N) = made + 1 .. made'
    BY <1>3 DEF QueueStep
  <2>2. \A u \in Threads : pc'[u] # "deliver" => batch[u] = {}
    BY <1>2, <1>5 DEF EInv, BInv, TypeOK
  <2>. QED  BY <1>2, <1>5, <2>1, <2>2, NewEvents DEF BInv
<1>. QED  BY <1>3, <1>4, <1>5

LEMMA FaultyRetrieveStep ==
    ASSUME BInv, NEW t \in Threads, NEW k \in Keys, FaultyRetrieve(t, k)
    PROVE  BInv' /\ LooseStep /\ (EInv => EInv')
<1> DEFINE e == [id |-> made + 1, kind |-> "full", key |-> k, sig |-> store[k].sig]
<1>1. /\ pending' = pending \cup {e} /\ made' = made + 1 /\ k \in live
      /\ pc[t] = "idle" /\ pc' = [pc EXCEPT ![t] = "swap"]
      /\ UNCHANGED <<now, store, heap, stale, job, batch, fed, cleared, stores, sqlite>>
  BY DEF FaultyRetrieve
<1>2. e \in Event /\ e.id = made + 1
  BY <1>1 DEF BInv, TypeOK, live, Entry, Event, Kinds
<1> HIDE DEF e
<1>3. BInv'
  BY <1>1, <1>2 DEF BInv, TypeOK
<1>4. LooseStep
  BY <1>1 DEF LooseStep, Uncovered, live
<1>5. EInv => EInv'
  BY <1>1, <1>2, OneEvent DEF BInv
<1>. QED  BY <1>3, <1>4, <1>5

LEMMA FaultySwapStep ==
    ASSUME BInv, NEW t \in Threads, FaultySwap(t)
    PROVE  BInv' /\ LooseStep /\ (EInv => EInv')
<1>1. PICK lost \in pending :
          batch' = [batch EXCEPT ![t] =
              {[id |-> e.id, kind |-> e.kind, key |-> e.key, sig |-> e.sig,
                known |-> e # lost /\ e.key \in live /\ store[e.key].sig] : e \in pending}]
  BY DEF FaultySwap
<1> DEFINE Look(e) == [id |-> e.id, kind |-> e.kind, key |-> e.key, sig |-> e.sig,
                       known |-> e # lost /\ e.key \in live /\ store[e.key].sig]
           new == {Look(e) : e \in pending}
<1>2. /\ pc[t] = "swap" /\ batch' = [batch EXCEPT ![t] = new] /\ pending' = {}
      /\ pending # {} /\ pc' = [pc EXCEPT ![t] = "deliver"]
      /\ UNCHANGED <<now, store, heap, stale, job, fed, made, cleared, stores, sqlite>>
  BY <1>1 DEF FaultySwap
<1>3. ASSUME NEW e \in pending PROVE Look(e) \in Datum /\ Look(e).id = e.id
  <2>1. e \in Event
    BY DEF BInv, TypeOK
  <2>2. (e # lost /\ e.key \in live /\ store[e.key].sig) \in BOOLEAN
    OBVIOUS
  <2>. QED  BY <2>1, <2>2 DEF Event, Datum
<1> HIDE DEF Look
<1>4. Ids(new) = Ids(pending)
  <2>1. Ids(new) = {Look(e).id : e \in pending}
    BY DEF Ids
  <2>. QED  BY <1>3, <2>1 DEF Ids
<1>5. EInv => UniqueIds(new)
  BY <1>3 DEF EInv, UniqueIds
<1>6. new \subseteq Datum
  BY <1>3
<1> HIDE DEF new
<1>7. BInv'
  BY <1>2, <1>6 DEF BInv, TypeOK
<1>8. LooseStep
  BY <1>2 DEF LooseStep, Uncovered, live
<1>9. EInv => EInv'
  BY <1>2, <1>4, <1>5, QueueTaken DEF BInv
<1>. QED  BY <1>7, <1>8, <1>9

LEMMA FaultyLookupStep ==
    ASSUME BInv, NEW k \in Keys, FaultyLookup(k)
    PROVE  BInv' /\ LooseStep /\ (EInv => EInv')
<1>1. BInv'
  BY DEF BInv, TypeOK, FaultyLookup, threadVars, eventVars
<1>2. LooseStep
  BY DEF FaultyLookup, LooseStep, Uncovered, live
<1>3. EInv => EInv'
  BY SameEvents DEF FaultyLookup, threadVars, eventVars, EInv
<1>. QED  BY <1>1, <1>2, <1>3

LEMMA FaultyStatsStep ==
    ASSUME BInv, FaultyStats PROVE BInv' /\ LooseStep /\ (EInv => EInv')
<1>1. PICK w \in SweepOutcome : store' = Only(w.left) /\ stale' = w.stale
  BY SweepTypes DEF FaultyStats
<1>2. UNCHANGED <<now, heap, stores, sqlite, pc, job, batch, pending, fed, made, cleared>>
  BY DEF FaultyStats, threadVars, eventVars
<1>3. w.left \subseteq live /\ w.stale \in Nat
  BY DEF SweepOutcome
<1>4. BInv'
  BY <1>1, <1>2, <1>3 DEF BInv, TypeOK, Only, live
<1>5. LooseStep
  BY <1>1, <1>3 DEF LooseStep, Uncovered, live, Only
<1>6. EInv => EInv'
  BY <1>2, SameEvents DEF EInv
<1>. QED  BY <1>4, <1>5, <1>6

LEMMA FaultyClearStep ==
    ASSUME BInv, FaultyClear PROVE BInv' /\ LooseStep /\ (EInv => EInv')
<1>1. /\ heap' = {} /\ stale' = 0 /\ pending' = {} /\ cleared' = cleared \cup Ids(pending)
      /\ UNCHANGED <<now, store, stores, sqlite, pc, job, batch, fed, made>>
  BY DEF FaultyClear, threadVars
<1>2. Ids(pending) \subseteq Nat
  BY DEF BInv, TypeOK, Event, Ids
<1>3. BInv'
  BY <1>1, <1>2, FS_EmptySet DEF BInv, TypeOK
<1>4. LooseStep
  BY <1>1 DEF LooseStep, Uncovered, live
<1>5. EInv => EInv'
  BY <1>1, ClearEvents
<1>. QED  BY <1>3, <1>4, <1>5

LEMMA CorruptionStep ==
    ASSUME BInv, Corruption PROVE BInv' /\ LooseStep /\ (EInv => EInv')
<1>1. /\ DOMAIN store' = {} /\ store' = Only({})
      /\ UNCHANGED <<now, heap, stale, stores, sqlite, pc, job, batch, pending, fed, made, cleared>>
  BY DEF Corruption, threadVars, eventVars, Only
<1>2. BInv'
  BY <1>1 DEF BInv, TypeOK, Only
<1>3. LooseStep
  BY <1>1 DEF LooseStep, Uncovered, live
<1>4. EInv => EInv'
  BY <1>1, SameEvents DEF EInv
<1>. QED  BY <1>2, <1>3, <1>4

\* The end of the process throws away the queue and every batch.
LEMMA PartsRestart ==
    ASSUME NEW n, NEW Q, NEW B, NEW F, NEW C, Parts(n, Q, B, F, C), NEW B2,
           \A t \in Threads : B2[t] = {},
           NEW C2, C2 = C \cup Q \cup UNION {B[t] : t \in Threads}
    PROVE  Parts(n, {}, B2, F, C2)
BY DEF Parts

LEMMA RestartStep == ASSUME BInv, Restart PROVE BInv' /\ LooseStep /\ (EInv => EInv')
<1>1. /\ store' = Only(Unexpired) /\ heap' = {} /\ stale' = 0 /\ pending' = {}
      /\ cleared' = cleared \cup Ids(pending) \cup UNION {Ids(batch[t]) : t \in Threads}
      /\ pc' = [t \in Threads |-> "idle"]
      /\ job' = [t \in Threads |-> {}]
      /\ batch' = [t \in Threads |-> {}]
      /\ UNCHANGED <<now, fed, made, stores, sqlite>>
  BY DEF Restart
<1>2. cleared' \subseteq Nat
  <2>1. Ids(pending) \subseteq Nat /\ cleared \subseteq Nat
    BY DEF BInv, TypeOK, Event, Ids
  <2>2. \A t \in Threads : Ids(batch[t]) \subseteq Nat
    BY DEF BInv, TypeOK, Datum, Ids
  <2>. QED  BY <1>1, <2>1, <2>2
<1>3. store' \in [DOMAIN store' -> Entry] /\ DOMAIN store' \subseteq live
  BY <1>1 DEF BInv, TypeOK, Only, Unexpired, live
<1>4. BInv'
  BY <1>1, <1>2, <1>3, FS_EmptySet DEF BInv, TypeOK, live
<1>5. LooseStep
  BY <1>3 DEF LooseStep, Uncovered, live
<1>6. ASSUME EInv PROVE EInv'
  <2>1. \A t \in Threads : batch'[t] = {} /\ BatchIds'[t] = {} /\ BatchIds[t] = Ids(batch[t])
    BY <1>1 DEF BatchIds, Ids
  <2>2. cleared' = cleared \cup Ids(pending) \cup UNION {BatchIds[t] : t \in Threads}
    BY <1>1, <2>1
  <2>3. Parts(made, Ids(pending), BatchIds, Ids(fed), cleared)
    BY <1>6 DEF EInv
  <2>4. Parts(made, {}, BatchIds', Ids(fed), cleared')
    BY <2>1, <2>2, <2>3, PartsRestart
  <2>5. Ids(pending') = {} /\ UniqueIds(pending') /\ \A t \in Threads : UniqueIds(batch'[t])
    BY <1>1, <2>1 DEF Ids, UniqueIds
  <2>. QED  BY <1>1, <2>1, <2>4, <2>5 DEF EInv
<1>. QED  BY <1>4, <1>5, <1>6

LEMMA FaultStep == ASSUME BInv, Fault PROVE BInv' /\ LooseStep /\ (EInv => EInv')
BY FaultyCommitStep, FaultySwapStep, FaultyRetrieveStep, FaultyLookupStep, FaultyStatsStep,
   FaultyClearStep, CorruptionStep DEF Fault

-----------------------------------------------------------------------------
(* The invariant.                                                           *)

LEMMA Finiteness ==
    ASSUME BInv
    PROVE  /\ IsFiniteSet(live) /\ Cardinality(live) \in Nat
           /\ IsFiniteSet(Uncovered) /\ Cardinality(Uncovered) \in Nat
           /\ Cardinality(Uncovered) <= Cardinality(live)
<1>1. IsFiniteSet(live) /\ Uncovered \in SUBSET live
  BY LiveFinite DEF BInv, Uncovered
<1>. QED  BY <1>1, FS_Subset, FS_CardinalityType

LEMMA LooseRInv ==
    ASSUME RInv, BInv', LooseStep, restarts' \in Nat, faults' \in Nat,
           restarts' + faults' = restarts + faults + 1
    PROVE  RInv'
<1> DEFINE bound == MaxEntries + restarts + faults
           bound2 == MaxEntries + restarts' + faults'
<1>1. bound \in Nat /\ bound2 \in Nat /\ bound2 = bound + 1
  <2>1. MaxEntries \in Nat /\ restarts \in Nat /\ faults \in Nat
    BY MaxEntriesAssumption DEF RInv
  <2>2. PICK r \in Nat : r = restarts'
    OBVIOUS
  <2>3. PICK f \in Nat : f = faults'
    OBVIOUS
  <2>4. r + f = restarts + faults + 1
    BY <2>2, <2>3
  <2>5. /\ bound \in Nat /\ MaxEntries + r + f \in Nat
        /\ MaxEntries + r + f = bound + 1
    BY <2>1, <2>4
  <2>. QED  BY <2>2, <2>3, <2>5
<1>2. IsFiniteSet(live) /\ Cardinality(live) \in Nat /\ Cardinality(live) <= bound
  BY Finiteness DEF RInv, CapacityDrift
<1>3. PICK k : live' \subseteq live \cup {k}
  BY DEF LooseStep
<1>4. /\ IsFiniteSet(live \cup {k})
      /\ Cardinality(live \cup {k}) =
            IF k \in live THEN Cardinality(live) ELSE Cardinality(live) + 1
  BY <1>2, FS_AddElement, Zenon
<1>5. Cardinality(live') <= Cardinality(live \cup {k}) /\ Cardinality(live') \in Nat
  BY <1>3, <1>4, FS_Subset, FS_CardinalityType
<1>6. Cardinality(Uncovered') <= Cardinality(live) /\ Cardinality(Uncovered') \in Nat
  BY <1>2, FS_Subset, FS_CardinalityType DEF LooseStep
<1> HIDE DEF bound, bound2
<1>7. Cardinality(live') <= bound2
  BY <1>1, <1>2, <1>4, <1>5
<1>8. Cardinality(Uncovered') < bound2
  BY <1>1, <1>2, <1>6
<1>9. CapacityDrift'
  BY <1>7 DEF CapacityDrift, bound2
<1>10. (Cardinality(Uncovered) < MaxEntries + restarts + faults)'
  BY <1>8 DEF bound2
<1>. QED  BY <1>9, <1>10 DEF RInv

LEMMA CoverRInv ==
    ASSUME RInv, BInv', CoverStep, UNCHANGED <<restarts, faults>> PROVE RInv'
<1> DEFINE bound == MaxEntries + restarts + faults
<1>1. bound \in Nat /\ MaxEntries \in Nat /\ MaxEntries <= bound /\ 1 <= bound
  BY MaxEntriesAssumption DEF RInv
<1>2. /\ IsFiniteSet(live) /\ Cardinality(live) \in Nat /\ Cardinality(live) <= bound
      /\ IsFiniteSet(Uncovered) /\ Cardinality(Uncovered) \in Nat
      /\ Cardinality(Uncovered) < bound
  <2>1. BInv /\ CapacityDrift
    BY DEF RInv
  <2>2. Cardinality(Uncovered) < bound
    BY DEF RInv
  <2>3. Cardinality(live) <= bound
    BY <2>1 DEF CapacityDrift
  <2>. QED  BY <2>1, <2>2, <2>3, Finiteness
<1>3. IsFiniteSet(live') /\ Cardinality(live') \in Nat
  BY KeysAssumption, FS_Subset, FS_CardinalityType DEF BInv, TypeOK, live
<1> HIDE DEF bound
<1>4. Cardinality(Uncovered) < bound
  BY <1>2
<1>5. Cardinality(live') <= bound
  <2>1. CASE live' \subseteq live
    <3>1. Cardinality(live') <= Cardinality(live)
      BY <1>2, <2>1, FS_Subset
    <3>. QED  BY <1>1, <1>2, <1>3, <3>1
  <2>2. CASE Cardinality(live') <= MaxEntries \/ Cardinality(live') <= Cardinality(Uncovered) + 1
    BY <1>1, <1>2, <1>3, <1>4, <2>2
  <2>. QED  BY <2>1, <2>2 DEF CoverStep
<1>6. Cardinality(Uncovered') < bound
  <2>1. Cardinality(Uncovered') <= Cardinality(Uncovered) /\ Cardinality(Uncovered') \in Nat
    BY <1>2, FS_Subset, FS_CardinalityType DEF CoverStep
  <2>. QED  BY <1>1, <1>2, <1>4, <2>1
<1>7. restarts' = restarts /\ faults' = faults /\ restarts \in Nat /\ faults \in Nat
  BY DEF RInv
<1>8. CapacityDrift'
  BY <1>5, <1>7 DEF CapacityDrift, bound
<1>9. (Cardinality(Uncovered) < MaxEntries + restarts + faults)'
  BY <1>6, <1>7 DEF bound
<1>. QED  BY <1>7, <1>8, <1>9 DEF RInv

LEMMA InitRInv == RestartInit => RInv /\ EInv
<1> SUFFICES ASSUME RestartInit PROVE RInv /\ EInv
  OBVIOUS
<1>1. Init /\ restarts = 0 /\ faults = 0
  BY DEF RestartInit
<1>2. BInv /\ live = {} /\ Uncovered = {} /\ EInv
  BY <1>1, InitBInv, InitEInv
<1>. QED  BY <1>1, <1>2, FS_EmptySet, MaxEntriesAssumption DEF RInv, CapacityDrift

LEMMA NextRInv == RInv /\ EInv /\ [RestartNext]_restartVars => RInv' /\ EInv'
<1> SUFFICES ASSUME RInv, EInv, [RestartNext]_restartVars PROVE RInv' /\ EInv'
  OBVIOUS
<1>1. BInv /\ TypeOK /\ restarts \in Nat /\ faults \in Nat
  BY DEF RInv, BInv
<1>2. CASE [Next]_vars /\ UNCHANGED <<restarts, faults>>
  BY <1>1, <1>2, NextStep, NextEInv, CoverRInv
<1>3. CASE Restart
  <2>1. restarts' = restarts + 1 /\ faults' = faults
    BY <1>3 DEF Restart
  <2>2. restarts' \in Nat /\ faults' \in Nat /\ restarts' + faults' = restarts + faults + 1
    BY <1>1, <2>1
  <2>. QED  BY <1>1, <1>3, <2>2, RestartStep, LooseRInv
<1>4. CASE Fault
  <2>1. restarts' = restarts /\ faults' = faults + 1
    BY <1>4 DEF Fault
  <2>2. restarts' \in Nat /\ faults' \in Nat /\ restarts' + faults' = restarts + faults + 1
    BY <1>1, <2>1
  <2>. QED  BY <1>1, <1>4, <2>2, FaultStep, LooseRInv
<1>. QED  BY <1>2, <1>3, <1>4 DEF RestartNext, restartVars

LEMMA RestartInvariance == RestartSpec => [](RInv /\ EInv)
BY InitRInv, NextRInv, PTL DEF RestartSpec

-----------------------------------------------------------------------------
\* The types hold through restarts and failed calls.
THEOREM RestartTypeCorrect == RestartSpec => []TypeOK
<1>1. RInv => TypeOK
  BY DEF RInv, BInv
<1>. QED  BY <1>1, RestartInvariance, PTL

\* However often the process restarts over its database and whichever backend call
\* fails, each such event costs at most one entry beyond max_entries.
THEOREM DriftBounded == RestartSpec => []CapacityDrift
<1>1. RInv => CapacityDrift
  BY DEF RInv
<1>. QED  BY <1>1, RestartInvariance, PTL

\* A restart or a failed call may lose feedback events, but forwards none twice
\* and gives no id twice.
THEOREM RestartEventsOnce == RestartSpec => []RestartEventsAtMostOnce
<1>1. EInv => RestartEventsAtMostOnce
  BY OnePlace DEF EventsExactlyOnce, RestartEventsAtMostOnce
<1>. QED  BY <1>1, RestartInvariance, PTL
=============================================================================
