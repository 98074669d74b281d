----------------------- MODULE CompressionStoreProofs -----------------------
(***************************************************************************)
(* Proofs about CompressionStore, for every set of keys and threads and    *)
(* every capacity: its types, its capacity, its eviction order, the stale  *)
(* counter, the size of the heap and the feedback events.                  *)
(***************************************************************************)
EXTENDS CompressionStore, FiniteSetTheorems, TLAPS

BInv == TypeOK /\ IsFiniteSet(heap)

(***************************************************************************)
(* Capacity is not inductive by itself: the eviction loop also ends when   *)
(* the heap is empty, so the heap must be known to cover the store.        *)
(***************************************************************************)
IInv ==
    /\ BInv
    /\ HeapCoversStore
    /\ CapacityBound

\* The entries that eviction cannot reach.
Uncovered == {k \in live : ~ \E r \in heap : r.key = k /\ r.at = store[k].created}

\* What a step of the store may do: no entry gets out of reach, and the store
\* grows only up to its capacity or to one entry beside those out of reach.
CoverStep ==
    /\ Uncovered' \subseteq Uncovered
    /\ \/ live' \subseteq live
       \/ Cardinality(live') <= MaxEntries
       \/ Cardinality(live') <= Cardinality(Uncovered) + 1

\* Some n is free for a new tuple: a heap of size c cannot hold c + 1 of them.
LEMMA FreshTuple ==
    ASSUME NEW h, IsFiniteSet(h), NEW at, NEW k
    PROVE  \E i \in 0 .. Cardinality(h) : [at |-> at, key |-> k, n |-> i] \notin h
<1> DEFINE c == Cardinality(h)
           f == [i \in 0 .. c |-> [at |-> at, key |-> k, n |-> i]]
<1>1. c \in Nat
  BY FS_CardinalityType
<1>2. SUFFICES ASSUME \A i \in 0 .. c : f[i] \in h
               PROVE  FALSE
  BY DEF f
<1>3. IsFiniteSet(0 .. c) /\ Cardinality(0 .. c) = c + 1
  <2>1. /\ IsFiniteSet(0 .. c)
        /\ Cardinality(0 .. c) = IF 0 > c THEN 0 ELSE c - 0 + 1
    BY <1>1, FS_Interval
  <2>. QED  BY <2>1, <1>1
<1>4. f \in Injection(0 .. c, h)
  <2>1. f \in [0 .. c -> h]
    BY <1>2
  <2>2. \A i, j \in 0 .. c : f[i] = f[j] => i = j
    OBVIOUS
  <2>. QED  BY <2>1, <2>2 DEF Injection, IsInjective
<1>5. Cardinality(0 .. c) <= Cardinality(h)
  BY <1>3, <1>4, FS_Injection
<1>. QED  BY <1>1, <1>3, <1>5

\* heappush keeps every tuple and adds one for (at, k).
LEMMA PushLemma ==
    ASSUME NEW h \in SUBSET HeapItem, IsFiniteSet(h), NEW at \in Nat, NEW k \in Keys
    PROVE  /\ Push(h, at, k) \subseteq HeapItem
           /\ IsFiniteSet(Push(h, at, k))
           /\ h \subseteq Push(h, at, k)
           /\ Cardinality(Push(h, at, k)) = Cardinality(h) + 1
           /\ \E r \in Push(h, at, k) : r.key = k /\ r.at = at
<1> DEFINE Free(i) == [at |-> at, key |-> k, n |-> i] \notin h
           n == CHOOSE i \in 0 .. Cardinality(h) : Free(i)
           r == [at |-> at, key |-> k, n |-> n]
<1>1. n \in 0 .. Cardinality(h) /\ Free(n)
  BY FreshTuple
<1>2. n \in Nat
  BY <1>1, FS_CardinalityType
<1>3. r \in HeapItem /\ r.key = k /\ r.at = at
  BY <1>2 DEF HeapItem
<1>4. Push(h, at, k) = h \cup {r}
  BY DEF Push
<1>5. r \notin h
  BY <1>1
<1> HIDE DEF r
<1>6. IsFiniteSet(h \cup {r}) /\ Cardinality(h \cup {r}) = Cardinality(h) + 1
  BY <1>5, FS_AddElement
<1>. QED  BY <1>3, <1>4, <1>6

\* A set keeps entries as they are; a purge only removes some.
LEMMA AfterSetLemma ==
    ASSUME NEW s, NEW x \in AfterSet(s), s = [k \in DOMAIN s |-> s[k]]
    PROVE  /\ DOMAIN x \subseteq DOMAIN s
           /\ x = [k \in DOMAIN x |-> s[k]]
           /\ \A k \in DOMAIN s : ~IsExpired(s[k]) => k \in DOMAIN x
BY DEF AfterSet

LEMMA LiveFinite == ASSUME TypeOK PROVE IsFiniteSet(live)
BY KeysAssumption, FS_Subset DEF TypeOK, live

\* The heap that the loop starts with covers what _clean_expired left, as far as
\* the heap did before.
LEMMA ReadyCoversAll ==
    ASSUME BInv
    PROVE  /\ HeapReady \subseteq HeapItem
           /\ IsFiniteSet(HeapReady)
           /\ \A k \in Unexpired : \/ \E r \in HeapReady : r.key = k /\ r.at = store[k].created
                                   \/ k \in Uncovered
<1>1. Unexpired \subseteq live /\ live \subseteq Keys /\ IsFiniteSet(Unexpired)
  BY LiveFinite, FS_Subset DEF BInv, TypeOK, Unexpired, live
<1>2. \A k \in live : store[k].created \in Nat
  BY DEF BInv, TypeOK, live, Entry
<1>3. CASE NeedsRebuild
  <2>1. HeapReady = RebuiltHeap
    BY <1>3 DEF HeapReady
  <2>2. RebuiltHeap \subseteq HeapItem
    BY <1>1, <1>2 DEF RebuiltHeap, HeapItem
  <2>3. IsFiniteSet(RebuiltHeap)
    <3> DEFINE g == [k \in Unexpired |-> [at |-> store[k].created, key |-> k, n |-> 0]]
    <3>1. g \in Surjection(Unexpired, RebuiltHeap)
      BY DEF Surjection, RebuiltHeap
    <3>. QED  BY <1>1, <3>1, FS_Surjection
  <2>4. ASSUME NEW k \in Unexpired
        PROVE  \E r \in RebuiltHeap : r.key = k /\ r.at = store[k].created
    <3> DEFINE r == [at |-> store[k].created, key |-> k, n |-> 0]
    <3>1. r \in RebuiltHeap
      BY DEF RebuiltHeap
    <3>2. r.key = k /\ r.at = store[k].created
      OBVIOUS
    <3>. QED  BY <3>1, <3>2
  <2>. QED  BY <2>1, <2>2, <2>3, <2>4
<1>4. CASE ~NeedsRebuild
  BY <1>1, <1>4 DEF HeapReady, BInv, TypeOK, Uncovered
<1>. QED  BY <1>3, <1>4

LEMMA ReadyCovers ==
    ASSUME IInv
    PROVE  /\ HeapReady \subseteq HeapItem
           /\ IsFiniteSet(HeapReady)
           /\ \A k \in Unexpired : \E r \in HeapReady : r.key = k /\ r.at = store[k].created
<1>1. Uncovered = {}
  BY DEF IInv, HeapCoversStore, Uncovered
<1>. QED  BY <1>1, ReadyCoversAll DEF IInv

\* When the loop ends there is room for one more entry.
LEMMA LoopMakesRoom ==
    ASSUME IInv, NEW P, LoopPops(P)
    PROVE  /\ P \subseteq HeapReady
           /\ IsFiniteSet(Keeps(P))
           /\ Cardinality(Keeps(P)) < MaxEntries
           /\ \A k \in Keeps(P) : \E r \in HeapReady \ P :
                                      r.key = k /\ r.at = store[k].created
<1>1. P \subseteq HeapReady
  BY DEF LoopPops, Segments
<1>2. Keeps(P) \subseteq live
  BY DEF Keeps, Unexpired
<1>3. IsFiniteSet(Keeps(P))
  BY <1>2, LiveFinite, FS_Subset DEF IInv, BInv
<1>4. \A k \in Keeps(P) : \E r \in HeapReady \ P : r.key = k /\ r.at = store[k].created
  BY ReadyCovers DEF Keeps, Evicts
<1>5. CASE P = HeapReady
  <2>1. Keeps(P) = {}
    BY <1>4, <1>5
  <2>. QED  BY <1>1, <1>3, <1>4, <2>1, FS_EmptySet, MaxEntriesAssumption
<1>6. CASE Cardinality(Keeps(P)) < MaxEntries
  BY <1>1, <1>3, <1>4, <1>6
<1>. QED  BY <1>5, <1>6 DEF LoopPops, LoopEnds

-----------------------------------------------------------------------------
(* What each action does to the types and to the entries in reach.          *)

\* A step that only removes entries, and leaves the heap alone.
LEMMA ShrinkLemma ==
    ASSUME heap' = heap, DOMAIN store' \subseteq live,
           \A k \in DOMAIN store' : store'[k].created = store[k].created
    PROVE  CoverStep
BY DEF CoverStep, Uncovered, live

\* Steps that leave store and heap alone.
LEMMA FrameLemma == ASSUME UNCHANGED <<store, heap>> PROVE CoverStep
BY DEF CoverStep, Uncovered, live

\* The type of a new entry, and of what store() passes around.
LEMMA NewEntryType ==
    ASSUME NEW j \in Job, NEW u \in BOOLEAN PROVE NewEntry(j, u) \in Entry
BY DEF NewEntry, Entry, Job

LEMMA StoreBeginStep ==
    ASSUME BInv, NEW t \in Threads, NEW k \in Keys, NEW ttl \in Ttls, NEW sig \in Sigs,
           StoreBegin(t, k, ttl, sig)
    PROVE  BInv' /\ CoverStep
<1>1. [key |-> k, at |-> now, ttl |-> ttl, sig |-> sig] \in Job
  BY ParamAssumption DEF BInv, TypeOK, Job
<1>2. BInv'
  BY <1>1 DEF BInv, TypeOK, StoreBegin, eventVars
<1>. QED  BY <1>2, FrameLemma DEF StoreBegin

LEMMA SwapStep == ASSUME BInv, NEW t \in Threads, Swap(t) PROVE BInv' /\ CoverStep
<1>1. ASSUME NEW e \in pending
      PROVE  [id |-> e.id, kind |-> e.kind, key |-> e.key, sig |-> e.sig,
              known |-> e.key \in live /\ store[e.key].sig] \in Datum
  <2>1. e \in Event
    BY DEF BInv, TypeOK
  <2>2. (e.key \in live /\ store[e.key].sig) \in BOOLEAN
    OBVIOUS
  <2>. QED  BY <2>1, <2>2 DEF Event, Datum
<1>2. BInv'
  BY <1>1 DEF BInv, TypeOK, Swap, AfterFeedback
<1>. QED  BY <1>2, FrameLemma DEF Swap

LEMMA DeliverStep == ASSUME BInv, NEW t \in Threads, Deliver(t) PROVE BInv' /\ CoverStep
<1>1. BInv'
  BY DEF BInv, TypeOK, Deliver, AfterFeedback
<1>. QED  BY <1>1, FrameLemma DEF Deliver

LEMMA DropStep == ASSUME BInv, NEW k \in Keys, DropExpired(k) PROVE BInv' /\ CoverStep
<1>1. BInv'
  BY DEF BInv, TypeOK, DropExpired, Only, live, threadVars, eventVars
<1>. QED  BY <1>1, ShrinkLemma DEF DropExpired, Only, live

LEMMA CleanedType == ASSUME BInv PROVE StaleCleaned \in Nat
<1>1. IsFiniteSet(live \ Unexpired)
  BY LiveFinite, FS_Subset DEF BInv
<1>. QED  BY <1>1, FS_CardinalityType DEF StaleCleaned, BInv, TypeOK

LEMMA GetStatsStep == ASSUME BInv, GetStats PROVE BInv' /\ CoverStep
<1>1. BInv'
  BY CleanedType DEF BInv, TypeOK, GetStats, Only, Unexpired, live, threadVars, eventVars
<1>. QED  BY <1>1, ShrinkLemma DEF GetStats, Only, Unexpired, live

LEMMA ClearStep == ASSUME BInv, Clear PROVE BInv' /\ CoverStep
<1>1. TypeOK'
  BY DEF BInv, TypeOK, Clear, Only, threadVars, Event
<1>2. DOMAIN store' = {} /\ heap' = {}
  BY DEF Clear, Only
<1>3. IsFiniteSet(heap')
  BY <1>2, FS_EmptySet
<1>. QED  BY <1>1, <1>2, <1>3 DEF BInv, CoverStep, Uncovered, live

LEMMA TickStep == ASSUME BInv, Tick PROVE BInv' /\ CoverStep
<1>1. BInv'
  BY DEF BInv, TypeOK, Tick, threadVars, eventVars
<1>. QED  BY <1>1, FrameLemma DEF Tick

LEMMA RetrieveHitStep ==
    ASSUME BInv, NEW t \in Threads, NEW k \in Keys, RetrieveHit(t, k)
    PROVE  BInv' /\ CoverStep
<1> DEFINE s == [store EXCEPT ![k] = Accessed(@)]
<1>0. \A e \in Entry : Accessed(e) \in Entry /\ Accessed(e).created = e.created
  BY DEF Accessed, Entry
<1>1. k \in live /\ DOMAIN s = live /\ s = [i \in DOMAIN s |-> s[i]]
  BY DEF RetrieveHit, live, BInv, TypeOK
<1>2. \A i \in live : s[i] \in Entry /\ s[i].created = store[i].created
  BY <1>0, <1>1 DEF BInv, TypeOK, live
<1>3. store' \in AfterSet(s)
  BY DEF RetrieveHit
<1> HIDE DEF s
<1>4. DOMAIN store' \subseteq live /\ store' = [i \in DOMAIN store' |-> s[i]]
  BY <1>1, <1>3, AfterSetLemma
<1>5. [id |-> made + 1, kind |-> "full", key |-> k, sig |-> store[k].sig] \in Event
  BY <1>1 DEF BInv, TypeOK, live, Entry, Event, Kinds
<1>6. BInv'
  BY <1>2, <1>4, <1>5 DEF BInv, TypeOK, live, RetrieveHit
<1>. QED  BY <1>2, <1>4, <1>6, ShrinkLemma DEF RetrieveHit

\* store() sets the backend to s: an entry for the job's key, the others as before.
\* The heap covers s as it covered the others and gets a tuple for the new one.
LEMMA PutLemma ==
    ASSUME BInv, NEW j \in Job, NEW s, NEW h \in SUBSET HeapItem, IsFiniteSet(h),
           s = [k \in DOMAIN s |-> s[k]], DOMAIN s \subseteq live \cup {j.key},
           s[j.key] \in Entry, s[j.key].created = j.at,
           \A k \in DOMAIN s \ {j.key} : s[k] = store[k],
           \A k \in DOMAIN s \ {j.key} : \/ \E r \in h : r.key = k /\ r.at = store[k].created
                                         \/ k \in Uncovered,
           store' \in AfterSet(s),
           heap' = Push(h, j.at, j.key)
    PROVE  /\ DOMAIN store' \subseteq DOMAIN s
           /\ DOMAIN store' \subseteq Keys /\ store' \in [DOMAIN store' -> Entry]
           /\ heap' \subseteq HeapItem /\ IsFiniteSet(heap')
           /\ Uncovered' \subseteq Uncovered
<1>1. j.key \in Keys /\ j.at \in Nat
  BY DEF Job
<1>2. DOMAIN store' \subseteq DOMAIN s /\ store' = [k \in DOMAIN store' |-> s[k]]
  BY AfterSetLemma
<1>3. /\ heap' \subseteq HeapItem /\ IsFiniteSet(heap') /\ h \subseteq heap'
      /\ \E r \in heap' : r.key = j.key /\ r.at = j.at
  BY <1>1, PushLemma
<1>4. Uncovered' \subseteq Uncovered
  <2> SUFFICES ASSUME NEW k \in DOMAIN store', k \notin Uncovered
               PROVE  \E r \in heap' : r.key = k /\ r.at = store'[k].created
    BY DEF Uncovered, live
  <2>1. CASE k = j.key
    BY <1>2, <1>3, <2>1
  <2>2. CASE k # j.key
    BY <1>2, <1>3, <2>2
  <2>. QED  BY <2>1, <2>2
<1>5. DOMAIN store' \subseteq Keys /\ store' \in [DOMAIN store' -> Entry]
  BY <1>1, <1>2 DEF BInv, TypeOK, live
<1>. QED  BY <1>2, <1>3, <1>4, <1>5

LEMMA OverwriteStep ==
    ASSUME BInv, NEW t \in Threads, StoreCommit(t), NEW j \in job[t], Overwrite(j)
    PROVE  BInv' /\ CoverStep
<1>1. j \in Job /\ j.key \in live
  BY DEF BInv, TypeOK, Overwrite
<1>2. store[j.key].used \in BOOLEAN
  BY <1>1 DEF BInv, TypeOK, live, Entry
<1> DEFINE s == [store EXCEPT ![j.key] = NewEntry(j, store[j.key].used)]
<1>3. /\ DOMAIN s = live /\ s = [k \in DOMAIN s |-> s[k]]
      /\ s[j.key] = NewEntry(j, store[j.key].used)
      /\ \A k \in live \ {j.key} : s[k] = store[k]
  BY <1>1 DEF BInv, TypeOK, live
<1>4. /\ DOMAIN store' \subseteq live
      /\ DOMAIN store' \subseteq Keys /\ store' \in [DOMAIN store' -> Entry]
      /\ heap' \subseteq HeapItem /\ IsFiniteSet(heap')
      /\ Uncovered' \subseteq Uncovered
  <2>1. \A k \in live \ {j.key} : \/ \E r \in heap : r.key = k /\ r.at = store[k].created
                                  \/ k \in Uncovered
    BY DEF Uncovered
  <2>2. /\ store' \in AfterSet(s)
        /\ heap \in SUBSET HeapItem /\ IsFiniteSet(heap) /\ heap' = Push(heap, j.at, j.key)
    BY DEF BInv, TypeOK, Overwrite
  <2>3. s[j.key] \in Entry /\ s[j.key].created = j.at
    BY <1>1, <1>2, <1>3, NewEntryType DEF NewEntry
  <2> HIDE DEF s
  <2>. QED  BY <1>1, <1>3, <2>1, <2>2, <2>3, PutLemma
<1>5. BInv'
  BY <1>4 DEF BInv, TypeOK, StoreCommit, Overwrite
<1>. QED  BY <1>4, <1>5 DEF CoverStep, live

\* The loop of _evict_if_needed keeps fewer than max_entries, unless those it
\* keeps are out of its reach.
LEMMA LoopKeeps ==
    ASSUME BInv, NEW P, LoopPops(P)
    PROVE  /\ P \subseteq HeapReady /\ Keeps(P) \subseteq live
           /\ IsFiniteSet(Keeps(P)) /\ Cardinality(Keeps(P)) \in Nat
           /\ \/ Cardinality(Keeps(P)) < MaxEntries
              \/ Cardinality(Keeps(P)) <= Cardinality(Uncovered)
           /\ \A k \in Keeps(P) :
                 \/ \E r \in HeapReady \ P : r.key = k /\ r.at = store[k].created
                 \/ k \in Uncovered
<1>1. P \subseteq HeapReady
  BY DEF LoopPops, Segments
<1>2. Keeps(P) \subseteq live
  BY DEF Keeps, Unexpired
<1>3. IsFiniteSet(Keeps(P)) /\ Cardinality(Keeps(P)) \in Nat
  BY <1>2, LiveFinite, FS_Subset, FS_CardinalityType DEF BInv
<1>4. \A k \in Keeps(P) : \/ \E r \in HeapReady \ P : r.key = k /\ r.at = store[k].created
                          \/ k \in Uncovered
  BY ReadyCoversAll DEF Keeps, Evicts
<1>5. CASE P = HeapReady
  <2>1. Keeps(P) \in SUBSET Uncovered
    BY <1>4, <1>5
  <2>2. IsFiniteSet(Uncovered)
    BY LiveFinite, FS_Subset DEF BInv, Uncovered
  <2>3. Cardinality(Keeps(P)) <= Cardinality(Uncovered)
    BY <2>1, <2>2, FS_Subset
  <2>. QED  BY <1>1, <1>2, <1>3, <1>4, <2>3
<1>6. CASE Cardinality(Keeps(P)) < MaxEntries
  BY <1>1, <1>2, <1>3, <1>4, <1>6
<1>. QED  BY <1>5, <1>6 DEF LoopPops, LoopEnds

LEMMA InsertStep ==
    ASSUME BInv, NEW t \in Threads, StoreCommit(t), NEW j \in job[t], Insert(j)
    PROVE  BInv' /\ CoverStep
<1>1. j \in Job /\ j.key \notin live
  BY DEF BInv, TypeOK, Insert
<1>2. PICK P \in Segments(HeapReady) :
        /\ LoopPops(P)
        /\ store' \in AfterSet([k \in Keeps(P) \cup {j.key} |->
                        IF k = j.key THEN NewEntry(j, FALSE) ELSE store[k]])
        /\ stale' = StalePopped(P)
        /\ heap' = Push(HeapReady \ P, j.at, j.key)
        /\ pending' = pending \cup {SuccessEvent(P, k) : k \in Successes(P)}
        /\ made' = made + Cardinality(Successes(P))
  BY DEF Insert
<1>3. /\ HeapReady \subseteq HeapItem /\ IsFiniteSet(HeapReady)
      /\ P \subseteq HeapReady /\ Keeps(P) \subseteq live
      /\ IsFiniteSet(Keeps(P)) /\ Cardinality(Keeps(P)) \in Nat
      /\ \/ Cardinality(Keeps(P)) < MaxEntries
         \/ Cardinality(Keeps(P)) <= Cardinality(Uncovered)
      /\ \A k \in Keeps(P) : \/ \E r \in HeapReady \ P : r.key = k /\ r.at = store[k].created
                             \/ k \in Uncovered
  BY <1>2, ReadyCoversAll, LoopKeeps
<1>4. Evicts(P) \subseteq live /\ Successes(P) \subseteq Evicts(P)
  BY DEF Evicts, Successes, Unexpired
<1> DEFINE s == [k \in Keeps(P) \cup {j.key} |->
                    IF k = j.key THEN NewEntry(j, FALSE) ELSE store[k]]
<1>5. /\ DOMAIN store' \subseteq Keeps(P) \cup {j.key}
      /\ DOMAIN store' \subseteq Keys /\ store' \in [DOMAIN store' -> Entry]
      /\ heap' \subseteq HeapItem /\ IsFiniteSet(heap')
      /\ Uncovered' \subseteq Uncovered
  <2>1. HeapReady \ P \in SUBSET HeapItem /\ IsFiniteSet(HeapReady \ P)
    BY <1>3, FS_Subset
  <2>2. \A k \in Keeps(P) \ {j.key} :
            \/ \E r \in HeapReady \ P : r.key = k /\ r.at = store[k].created
            \/ k \in Uncovered
    BY <1>3
  <2>3. /\ DOMAIN s = Keeps(P) \cup {j.key} /\ s = [k \in DOMAIN s |-> s[k]]
        /\ s[j.key] = NewEntry(j, FALSE)
        /\ \A k \in Keeps(P) \ {j.key} : s[k] = store[k]
    OBVIOUS
  <2>4. s[j.key] \in Entry /\ s[j.key].created = j.at
    BY <1>1, <2>3, NewEntryType DEF NewEntry
  <2>5. store' \in AfterSet(s) /\ heap' = Push(HeapReady \ P, j.at, j.key)
    BY <1>2
  <2> HIDE DEF s
  <2>6. DOMAIN s \subseteq live \cup {j.key}
    BY <1>3, <2>3
  <2>. QED  BY <1>1, <2>1, <2>2, <2>3, <2>4, <2>5, <2>6, PutLemma
<1>6. IsFiniteSet(P) /\ IsFiniteSet(Evicts(P)) /\ IsFiniteSet(Successes(P))
  BY <1>3, <1>4, LiveFinite, FS_Subset DEF BInv
<1>7. stale' \in Nat
  <2>1. StaleReady \in Nat
    BY CleanedType DEF StaleReady
  <2>2. Cardinality(P) \in Nat /\ Cardinality(Evicts(P)) \in Nat
    BY <1>6, FS_CardinalityType
  <2>. QED  BY <1>2, <2>1, <2>2 DEF StalePopped
<1>8. made' \in Nat
  BY <1>2, <1>6, FS_CardinalityType DEF BInv, TypeOK
<1>9. pending' \subseteq Event
  <2> SUFFICES ASSUME NEW k \in Successes(P)
               PROVE  SuccessEvent(P, k) \in Event
    BY <1>2 DEF BInv, TypeOK
  <2> DEFINE earlier == {i \in Successes(P) :
                            \/ store[i].created < store[k].created
                            \/ store[i].created = store[k].created /\ i < k}
  <2>1. earlier \subseteq Successes(P)
    OBVIOUS
  <2>2. Cardinality(earlier) \in Nat
    BY <1>6, <2>1, FS_Subset, FS_CardinalityType
  <2>3. k \in Keys /\ made \in Nat
    BY <1>4 DEF BInv, TypeOK, live
  <2>4. SuccessEvent(P, k) = [id |-> made + Cardinality(earlier) + 1,
                              kind |-> "eviction_success", key |-> k, sig |-> TRUE]
    BY DEF SuccessEvent
  <2> HIDE DEF earlier
  <2>. QED  BY <2>2, <2>3, <2>4 DEF Event, Kinds
<1>10. BInv'
  BY <1>5, <1>7, <1>8, <1>9 DEF BInv, TypeOK, StoreCommit
<1>11. Cardinality(live') <= MaxEntries \/ Cardinality(live') <= Cardinality(Uncovered) + 1
  <2>1. /\ IsFiniteSet(Keeps(P) \cup {j.key})
        /\ Cardinality(Keeps(P) \cup {j.key}) = Cardinality(Keeps(P)) + 1
    BY <1>1, <1>3, FS_AddElement
  <2>2. /\ Cardinality(live') <= Cardinality(Keeps(P)) + 1
        /\ Cardinality(live') \in Nat
    BY <1>5, <2>1, FS_Subset, FS_CardinalityType DEF live
  <2>3. Cardinality(Uncovered) \in Nat
    BY LiveFinite, FS_Subset, FS_CardinalityType DEF BInv, Uncovered
  <2>. QED  BY <1>3, <2>2, <2>3, MaxEntriesAssumption
<1>. QED  BY <1>5, <1>10, <1>11 DEF CoverStep

LEMMA NextStep == BInv /\ [Next]_vars => BInv' /\ CoverStep
<1> SUFFICES ASSUME BInv, [Next]_vars PROVE BInv' /\ CoverStep
  OBVIOUS
<1>1. ASSUME NEW t \in Threads, Call(t) PROVE BInv' /\ CoverStep
  BY <1>1, StoreBeginStep, RetrieveHitStep DEF Call
<1>2. ASSUME NEW t \in Threads, Continue(t) PROVE BInv' /\ CoverStep
  <2>1. CASE StoreCommit(t)
    <3>1. PICK j \in job[t] : Overwrite(j) \/ Insert(j)
      BY <2>1 DEF StoreCommit
    <3>. QED  BY <2>1, <3>1, OverwriteStep, InsertStep
  <2>. QED  BY <1>2, <2>1, SwapStep, DeliverStep DEF Continue
<1>3. ASSUME NEW k \in Keys, Lookup(k) PROVE BInv' /\ CoverStep
  BY <1>3, DropStep DEF Lookup, RetrieveExpired, GetMetadata, Exists, GetEntryStatus
<1>4. CASE UNCHANGED vars
  BY <1>4, FrameLemma DEF vars, BInv, TypeOK
<1>. QED  BY <1>1, <1>2, <1>3, <1>4, GetStatsStep, ClearStep, TickStep DEF Next

LEMMA InitBInv == Init => BInv /\ live = {} /\ Uncovered = {}
<1> SUFFICES ASSUME Init PROVE BInv /\ live = {}
  BY DEF Uncovered
<1>1. DOMAIN store = {} /\ heap = {}
  BY DEF Init
<1>2. TypeOK
  BY <1>1, BackendAssumption DEF Init, TypeOK
<1>. QED  BY <1>1, <1>2, FS_EmptySet DEF BInv, live

LEMMA InitIInv == Init => IInv
<1> SUFFICES ASSUME Init PROVE IInv
  OBVIOUS
<1>1. BInv /\ live = {}
  BY InitBInv
<1>. QED  BY <1>1, FS_EmptySet, MaxEntriesAssumption DEF IInv, HeapCoversStore, CapacityBound

\* While the heap covers the store, a step keeps it so, and the capacity with it.
LEMMA NextIInv == IInv /\ [Next]_vars => IInv'
<1> SUFFICES ASSUME IInv, [Next]_vars PROVE IInv'
  OBVIOUS
<1>1. BInv' /\ CoverStep
  BY NextStep DEF IInv
<1>2. Uncovered = {}
  BY DEF IInv, HeapCoversStore, Uncovered
<1>3. HeapCoversStore'
  <2>1. Uncovered' = {}
    BY <1>1, <1>2 DEF CoverStep
  <2>. QED  BY <2>1 DEF Uncovered, HeapCoversStore
<1>4. IsFiniteSet(live) /\ IsFiniteSet(live')
  BY <1>1, KeysAssumption, FS_Subset DEF IInv, BInv, TypeOK, live
<1>5. Cardinality(live) \in Nat /\ Cardinality(live') \in Nat
  BY <1>4, FS_CardinalityType
<1>6. Cardinality(Uncovered) = 0
  BY <1>2, FS_EmptySet
<1>7. Cardinality(live) <= MaxEntries
  BY DEF IInv, CapacityBound
<1>8. CASE live' \subseteq live
  <2>1. Cardinality(live') <= Cardinality(live)
    BY <1>4, <1>8, FS_Subset
  <2>2. Cardinality(live') <= MaxEntries
    BY <1>5, <1>7, <2>1, MaxEntriesAssumption
  <2>. QED  BY <1>1, <1>3, <2>2 DEF IInv, CapacityBound
<1>9. CASE Cardinality(live') <= MaxEntries \/ Cardinality(live') <= Cardinality(Uncovered) + 1
  <2>1. Cardinality(live') <= MaxEntries
    BY <1>5, <1>6, <1>9, MaxEntriesAssumption
  <2>. QED  BY <1>1, <1>3, <2>1 DEF IInv, CapacityBound
<1>. QED  BY <1>1, <1>8, <1>9 DEF CoverStep

\* The store and everything around it keep their types.
THEOREM TypeCorrect == Spec => []TypeOK
<1>1. IInv => TypeOK
  BY DEF IInv, BInv
<1>. QED  BY <1>1, InitIInv, NextIInv, PTL DEF Spec

\* store() never leaves more than max_entries entries, whichever threads call it and
\* whatever expires, is purged or re-stored in between.
THEOREM CapacityHolds == Spec => []CapacityBound
<1>1. IInv => CapacityBound
  BY DEF IInv
<1>. QED  BY <1>1, InitIInv, NextIInv, PTL DEF Spec

\* Every entry can be evicted: the lazy-deletion heap never loses one.
THEOREM HeapCovers == Spec => []HeapCoversStore
<1>1. IInv => HeapCoversStore
  BY DEF IInv
<1>. QED  BY <1>1, InitIInv, NextIInv, PTL DEF Spec

-----------------------------------------------------------------------------
(* The eviction heap's bookkeeping.                                         *)

LEMMA SplitCardinality ==
    ASSUME NEW S, IsFiniteSet(S), NEW T \in SUBSET S
    PROVE  /\ IsFiniteSet(T) /\ IsFiniteSet(S \ T)
           /\ Cardinality(T) \in Nat /\ Cardinality(S \ T) \in Nat
           /\ Cardinality(S) = Cardinality(T) + Cardinality(S \ T)
<1>1. IsFiniteSet(T) /\ IsFiniteSet(S \ T)
  BY FS_Subset
<1>2. Cardinality(S) \in Nat /\ Cardinality(T) \in Nat /\ Cardinality(S \ T) \in Nat
  BY <1>1, FS_CardinalityType
<1>3. S \cap T = T
  OBVIOUS
<1>4. Cardinality(S \ T) = Cardinality(S) - Cardinality(T)
  BY <1>3, FS_Difference
<1>. QED  BY <1>1, <1>2, <1>4

\* As many tuples as keys they stand for, at least.
LEMMA TuplesForKeys ==
    ASSUME NEW K, NEW h, IsFiniteSet(h), \A k \in K : \E r \in h : r.key = k
    PROVE  IsFiniteSet(K) /\ Cardinality(K) <= Cardinality(h)
<1> DEFINE f == [k \in K |-> CHOOSE r \in h : r.key = k]
<1>1. \A k \in K : f[k] \in h /\ f[k].key = k
  OBVIOUS
<1>2. f \in [K -> h]
  BY <1>1
<1>3. \A i, j \in K : f[i] = f[j] => i = j
  BY <1>1
<1>4. f \in Injection(K, h)
  BY <1>2, <1>3 DEF Injection, IsInjective
<1>. QED  BY <1>4, FS_Injection

LEMMA AccountingNumbers ==
    ASSUME IInv, HeapAccounting
    PROVE  /\ IsFiniteSet(live) /\ Cardinality(live) \in Nat
           /\ IsFiniteSet(heap) /\ Cardinality(heap) \in Nat
           /\ IsFiniteSet(Unexpired) /\ Cardinality(Unexpired) \in Nat
           /\ Cardinality(Unexpired) <= MaxEntries
           /\ stale \in Nat /\ StaleCleaned \in Nat
           /\ Cardinality(live) + stale = Cardinality(Unexpired) + StaleCleaned
<1>1. IsFiniteSet(live) /\ IsFiniteSet(heap) /\ stale \in Nat
  BY LiveFinite DEF IInv, BInv, TypeOK
<1>2. Cardinality(live) \in Nat /\ Cardinality(heap) \in Nat
  BY <1>1, FS_CardinalityType
<1>3. Unexpired \in SUBSET live
  BY DEF Unexpired
<1>4. /\ IsFiniteSet(Unexpired) /\ Cardinality(Unexpired) \in Nat
      /\ Cardinality(live \ Unexpired) \in Nat
      /\ Cardinality(live) = Cardinality(Unexpired) + Cardinality(live \ Unexpired)
  BY <1>1, <1>3, SplitCardinality
<1>5. Cardinality(live) <= MaxEntries /\ MaxEntries \in Nat
  BY MaxEntriesAssumption DEF IInv, CapacityBound
<1>6. StaleCleaned = stale + Cardinality(live \ Unexpired)
  BY DEF StaleCleaned
<1>. QED  BY <1>1, <1>2, <1>4, <1>5, <1>6

\* _clean_expired and _rebuild_heap keep the counter right; a rebuilt heap has
\* one tuple for each entry.
LEMMA ReadyAccounting ==
    ASSUME IInv, HeapAccounting
    PROVE  /\ StaleReady \in Nat /\ Cardinality(HeapReady) \in Nat
           /\ Cardinality(Unexpired) + StaleReady <= Cardinality(HeapReady)
           /\ ~sqlite => Cardinality(Unexpired) + StaleReady = Cardinality(HeapReady)
<1>1. CASE NeedsRebuild
  <2>1. HeapReady = RebuiltHeap /\ StaleReady = 0
    BY <1>1 DEF HeapReady, StaleReady
  <2>2. Cardinality(RebuiltHeap) = Cardinality(Unexpired)
    <3> DEFINE g == [k \in Unexpired |-> [at |-> store[k].created, key |-> k, n |-> 0]]
    <3>1. g \in Surjection(Unexpired, RebuiltHeap)
      BY DEF Surjection, RebuiltHeap
    <3>2. g \in Injection(Unexpired, RebuiltHeap)
      <4>1. \A k \in Unexpired : g[k].key = k
        OBVIOUS
      <4>2. \A i, j \in Unexpired : g[i] = g[j] => i = j
        BY <4>1
      <4>3. g \in [Unexpired -> RebuiltHeap]
        BY DEF RebuiltHeap
      <4>. QED  BY <4>2, <4>3 DEF Injection, IsInjective
    <3>3. IsFiniteSet(Unexpired)
      BY AccountingNumbers
    <3> HIDE DEF g
    <3>. QED  BY <3>1, <3>2, <3>3, FS_Surjection
  <2>3. Cardinality(Unexpired) \in Nat
    BY AccountingNumbers
  <2>. QED  BY <2>1, <2>2, <2>3
<1>2. CASE ~NeedsRebuild
  <2>1. HeapReady = heap /\ StaleReady = StaleCleaned
    BY <1>2 DEF HeapReady, StaleReady
  <2>2. /\ Cardinality(live) + stale <= Cardinality(heap)
        /\ ~sqlite => Cardinality(live) + stale = Cardinality(heap)
    BY DEF HeapAccounting
  <2>. QED  BY <2>1, <2>2, AccountingNumbers
<1>. QED  BY <1>1, <1>2

\* The arithmetic of the loop: of hr tuples p are popped, e of them for an entry
\* and the rest stale; kp entries stay, for which hr - p tuples are left.
LEMMA LoopArithmetic ==
    ASSUME NEW hr \in Nat, NEW p \in Nat, NEW e \in Nat, NEW kp \in Nat, NEW st \in Nat,
           p <= hr, e <= p, kp <= hr - p, kp + e + st <= hr,
           NEW left, left = IF p - e <= st THEN st - (p - e) ELSE 0
    PROVE  /\ left \in Nat
           /\ kp + left <= hr - p
           /\ kp + e + st = hr => kp + left = hr - p
OBVIOUS

LEMMA LoopAccounting ==
    ASSUME IInv, HeapAccounting, NEW P, LoopPops(P)
    PROVE  /\ Cardinality(HeapReady \ P) \in Nat /\ Cardinality(Keeps(P)) \in Nat
           /\ IsFiniteSet(Keeps(P)) /\ IsFiniteSet(HeapReady \ P) /\ StalePopped(P) \in Nat
           /\ Cardinality(Keeps(P)) + StalePopped(P) <= Cardinality(HeapReady \ P)
           /\ ~sqlite => Cardinality(Keeps(P)) + StalePopped(P) = Cardinality(HeapReady \ P)
<1> DEFINE hr == Cardinality(HeapReady)
           p == Cardinality(P)
           e == Cardinality(Evicts(P))
           kp == Cardinality(Keeps(P))
           rest == Cardinality(HeapReady \ P)
<1>1. P \in SUBSET HeapReady /\ IsFiniteSet(HeapReady)
  BY LoopMakesRoom, ReadyCovers
<1>2. hr \in Nat /\ p \in Nat /\ rest \in Nat /\ hr = p + rest /\ IsFiniteSet(P)
      /\ IsFiniteSet(HeapReady \ P)
  BY <1>1, SplitCardinality, ReadyAccounting
<1>3. Evicts(P) \in SUBSET Unexpired /\ Keeps(P) = Unexpired \ Evicts(P)
  BY DEF Evicts, Keeps
<1>4. /\ e \in Nat /\ kp \in Nat /\ Cardinality(Unexpired) = e + kp
      /\ IsFiniteSet(Keeps(P))
  BY <1>3, AccountingNumbers, SplitCardinality
<1>5. e <= p
  <2>1. \A k \in Evicts(P) : \E r \in P : r.key = k
    BY DEF Evicts
  <2>. QED  BY <1>2, <2>1, TuplesForKeys
<1>6. kp <= rest
  <2>1. \A k \in Keeps(P) : \E r \in HeapReady \ P : r.key = k
    BY LoopMakesRoom
  <2>. QED  BY <1>2, <2>1, TuplesForKeys
<1>7. StalePopped(P) = IF p - e <= StaleReady THEN StaleReady - (p - e) ELSE 0
  BY DEF StalePopped
<1>8. /\ StaleReady \in Nat /\ Cardinality(Unexpired) + StaleReady <= hr
      /\ ~sqlite => Cardinality(Unexpired) + StaleReady = hr
  BY ReadyAccounting
<1> HIDE DEF hr, p, e, kp, rest
<1>9. p <= hr /\ kp <= hr - p /\ kp + e + StaleReady <= hr /\ rest = hr - p
  BY <1>2, <1>4, <1>6, <1>8
<1>10. ~sqlite => kp + e + StaleReady = hr
  BY <1>4, <1>8
<1>11. /\ StalePopped(P) \in Nat /\ kp + StalePopped(P) <= hr - p
       /\ kp + e + StaleReady = hr => kp + StalePopped(P) = hr - p
  BY <1>2, <1>4, <1>5, <1>7, <1>8, <1>9, LoopArithmetic
<1>. QED  BY <1>2, <1>4, <1>9, <1>10, <1>11 DEF kp, rest

\* An in-memory backend has after a set exactly what was set.
LEMMA InMemorySet == ASSUME NEW s, NEW x \in AfterSet(s), ~sqlite PROVE x = s
BY DEF AfterSet

LEMMA SameAccounting ==
    ASSUME HeapAccounting, UNCHANGED <<store, heap, stale, sqlite>> PROVE HeapAccounting'
BY DEF HeapAccounting, live

LEMMA DropAccounting ==
    ASSUME IInv, HeapAccounting, NEW k \in Keys, DropExpired(k) PROVE HeapAccounting'
<1>1. /\ live' = live \ {k} /\ k \in live /\ stale' = stale + 1 /\ heap' = heap
      /\ sqlite' = sqlite
  BY DEF DropExpired, Only, live
<1>2. Cardinality(live \ {k}) = Cardinality(live) - 1
  BY <1>1, AccountingNumbers, FS_RemoveElement
<1>3. Cardinality(live') + stale' = Cardinality(live) + stale
  BY <1>1, <1>2, AccountingNumbers
<1>. QED  BY <1>1, <1>3 DEF HeapAccounting

LEMMA GetStatsAccounting == ASSUME IInv, HeapAccounting, GetStats PROVE HeapAccounting'
<1>1. live' = Unexpired /\ stale' = StaleCleaned /\ heap' = heap /\ sqlite' = sqlite
  BY DEF GetStats, Only, live
<1>2. Cardinality(live') + stale' = Cardinality(live) + stale
  BY <1>1, AccountingNumbers
<1>. QED  BY <1>1, <1>2 DEF HeapAccounting

LEMMA ClearAccounting == ASSUME Clear PROVE HeapAccounting'
<1>1. live' = {} /\ stale' = 0 /\ heap' = {}
  BY DEF Clear, Only, live
<1>. QED  BY <1>1, FS_EmptySet DEF HeapAccounting

LEMMA RetrieveHitAccounting ==
    ASSUME IInv, HeapAccounting, NEW t \in Threads, NEW k \in Keys, RetrieveHit(t, k)
    PROVE  HeapAccounting'
<1> DEFINE s == [store EXCEPT ![k] = Accessed(@)]
<1>1. DOMAIN s = live /\ s = [i \in DOMAIN s |-> s[i]]
  BY DEF live, IInv, BInv, TypeOK
<1>2. store' \in AfterSet(s) /\ heap' = heap /\ stale' = stale /\ sqlite' = sqlite
  BY DEF RetrieveHit
<1> HIDE DEF s
<1>3. live' \in SUBSET live /\ (~sqlite => live' = live)
  BY <1>1, <1>2, AfterSetLemma, InMemorySet DEF live
<1>4. Cardinality(live') <= Cardinality(live) /\ Cardinality(live') \in Nat
  BY <1>3, AccountingNumbers, FS_Subset, FS_CardinalityType
<1>5. Cardinality(live') + stale' <= Cardinality(live) + stale
  BY <1>2, <1>4, AccountingNumbers
<1>6. Cardinality(live') + stale' <= Cardinality(heap')
  BY <1>2, <1>4, <1>5, AccountingNumbers DEF HeapAccounting
<1>. QED  BY <1>2, <1>3, <1>6 DEF HeapAccounting

LEMMA OverwriteAccounting ==
    ASSUME IInv, HeapAccounting, NEW t \in Threads, NEW j \in job[t], Overwrite(j),
           UNCHANGED sqlite
    PROVE  HeapAccounting'
<1> DEFINE s == [store EXCEPT ![j.key] = NewEntry(j, store[j.key].used)]
<1>1. DOMAIN s = live /\ s = [i \in DOMAIN s |-> s[i]]
  BY DEF live, IInv, BInv, TypeOK
<1>2. store' \in AfterSet(s) /\ heap' = Push(heap, j.at, j.key) /\ stale' = stale + 1
  BY DEF Overwrite
<1> HIDE DEF s
<1>3. live' \in SUBSET live /\ (~sqlite => live' = live)
  BY <1>1, <1>2, AfterSetLemma, InMemorySet DEF live
<1>4. Cardinality(live') <= Cardinality(live) /\ Cardinality(live') \in Nat
  BY <1>3, AccountingNumbers, FS_Subset, FS_CardinalityType
<1>5. Cardinality(heap') = Cardinality(heap) + 1
  <2>1. j.key \in Keys /\ j.at \in Nat /\ heap \in SUBSET HeapItem /\ IsFiniteSet(heap)
    BY DEF IInv, BInv, TypeOK, Job
  <2>. QED  BY <1>2, <2>1, PushLemma
<1>6. Cardinality(live') + stale' <= Cardinality(heap')
  BY <1>2, <1>4, <1>5, AccountingNumbers DEF HeapAccounting
<1>7. ~sqlite => Cardinality(live') + stale' = Cardinality(heap')
  BY <1>2, <1>3, <1>5, AccountingNumbers DEF HeapAccounting
<1>. QED  BY <1>6, <1>7 DEF HeapAccounting

LEMMA InsertAccounting ==
    ASSUME IInv, HeapAccounting, NEW t \in Threads, NEW j \in job[t], Insert(j),
           UNCHANGED sqlite
    PROVE  HeapAccounting'
<1>1. PICK P \in Segments(HeapReady) :
        /\ LoopPops(P)
        /\ store' \in AfterSet([k \in Keeps(P) \cup {j.key} |->
                        IF k = j.key THEN NewEntry(j, FALSE) ELSE store[k]])
        /\ stale' = StalePopped(P)
        /\ heap' = Push(HeapReady \ P, j.at, j.key)
  BY DEF Insert
<1> DEFINE s == [k \in Keeps(P) \cup {j.key} |->
                    IF k = j.key THEN NewEntry(j, FALSE) ELSE store[k]]
           S == Keeps(P) \cup {j.key}
<1>2. DOMAIN s = S /\ s = [i \in DOMAIN s |-> s[i]] /\ store' \in AfterSet(s)
  BY <1>1
<1> HIDE DEF s
<1>3. live' \in SUBSET S /\ (~sqlite => live' = S)
  BY <1>2, AfterSetLemma, InMemorySet DEF live
<1>4. j.key \notin Keeps(P)
  BY DEF Insert, Keeps, Unexpired
<1>5. /\ Cardinality(HeapReady \ P) \in Nat /\ Cardinality(Keeps(P)) \in Nat
      /\ IsFiniteSet(Keeps(P)) /\ IsFiniteSet(HeapReady \ P) /\ StalePopped(P) \in Nat
      /\ Cardinality(Keeps(P)) + StalePopped(P) <= Cardinality(HeapReady \ P)
      /\ ~sqlite => Cardinality(Keeps(P)) + StalePopped(P) = Cardinality(HeapReady \ P)
  BY <1>1, LoopAccounting
<1>6. IsFiniteSet(S) /\ Cardinality(S) = Cardinality(Keeps(P)) + 1
  BY <1>4, <1>5, FS_AddElement
<1> HIDE DEF S
<1>7. Cardinality(live') <= Cardinality(S) /\ Cardinality(live') \in Nat
  BY <1>3, <1>6, FS_Subset, FS_CardinalityType
<1>8. Cardinality(heap') = Cardinality(HeapReady \ P) + 1
  <2>1. j.key \in Keys /\ j.at \in Nat /\ HeapReady \ P \in SUBSET HeapItem
    BY ReadyCovers DEF IInv, BInv, TypeOK, Job
  <2>. QED  BY <1>1, <1>5, <2>1, PushLemma
<1>9. Cardinality(live') + stale' <= Cardinality(heap')
  BY <1>1, <1>5, <1>6, <1>7, <1>8
<1>10. ~sqlite => Cardinality(live') + stale' = Cardinality(heap')
  BY <1>1, <1>3, <1>5, <1>6, <1>8
<1>. QED  BY <1>9, <1>10 DEF HeapAccounting

LEMMA NextAccounting == IInv /\ HeapAccounting /\ [Next]_vars => HeapAccounting'
<1> SUFFICES ASSUME IInv, HeapAccounting, [Next]_vars PROVE HeapAccounting'
  OBVIOUS
<1>1. ASSUME NEW t \in Threads, Call(t) PROVE HeapAccounting'
  BY <1>1, SameAccounting, RetrieveHitAccounting DEF Call, StoreBegin
<1>2. ASSUME NEW t \in Threads, Continue(t) PROVE HeapAccounting'
  <2>1. CASE StoreCommit(t)
    BY <2>1, OverwriteAccounting, InsertAccounting DEF StoreCommit
  <2>. QED  BY <1>2, <2>1, SameAccounting DEF Continue, Swap, Deliver
<1>3. ASSUME NEW k \in Keys, Lookup(k) PROVE HeapAccounting'
  BY <1>3, DropAccounting DEF Lookup, RetrieveExpired, GetMetadata, Exists, GetEntryStatus
<1>4. CASE UNCHANGED vars
  BY <1>4, SameAccounting DEF vars
<1>5. CASE Tick
  BY <1>5, SameAccounting DEF Tick
<1>. QED  BY <1>1, <1>2, <1>3, <1>4, <1>5, GetStatsAccounting, ClearAccounting DEF Next

LEMMA InitAccounting == Init => HeapAccounting
BY FS_EmptySet DEF Init, HeapAccounting, live

\* _stale_heap_entries never claims more stale tuples than there are, and with the
\* in-memory backend it is their exact number, through every re-store, expiry,
\* rebuild and eviction.
THEOREM AccountingExact == Spec => []HeapAccounting
BY InitIInv, NextIInv, InitAccounting, NextAccounting, PTL DEF Spec

-----------------------------------------------------------------------------
(* The size of the heap.                                                    *)

\* A thread's store() call has one new entry.
OneJob == \A t \in Threads : \A i, j \in job[t] : i = j

LEMMA NextOneJob == TypeOK /\ OneJob /\ [Next]_vars => OneJob'
<1> SUFFICES ASSUME TypeOK, OneJob, [Next]_vars PROVE OneJob'
  OBVIOUS
<1>1. job \in [Threads -> SUBSET Job]
  BY DEF TypeOK
<1>2. ASSUME NEW t \in Threads, NEW k \in Keys, NEW ttl \in Ttls, NEW sig \in Sigs,
             StoreBegin(t, k, ttl, sig)
      PROVE  OneJob'
  BY <1>1, <1>2 DEF StoreBegin, OneJob
<1>3. ASSUME NEW t \in Threads, StoreCommit(t) PROVE OneJob'
  BY <1>1, <1>3 DEF StoreCommit, OneJob
<1>4. ASSUME job' = job PROVE OneJob'
  BY <1>4 DEF OneJob
<1>5. ASSUME NEW t \in Threads, Call(t) \/ Continue(t) PROVE OneJob'
  BY <1>2, <1>3, <1>4, <1>5 DEF Call, Continue, RetrieveHit, Swap, Deliver
<1>6. ASSUME NEW k \in Keys, Lookup(k) PROVE OneJob'
  BY <1>4, <1>6 DEF Lookup, RetrieveExpired, GetMetadata, Exists, GetEntryStatus, DropExpired,
                    threadVars
<1>7. CASE GetStats \/ Clear \/ Tick \/ UNCHANGED vars
  BY <1>4, <1>7 DEF GetStats, Clear, Tick, vars, threadVars
<1>. QED  BY <1>5, <1>6, <1>7 DEF Next

\* s stale tuples among u + s, of which p were popped: fewer than half were stale.
LEMMA BoundArithmetic ==
    ASSUME NEW m \in Nat \ {0}, NEW u \in Nat, NEW s \in Nat, NEW p \in Nat, u <= m, p <= u + s,
           u + s = 0 \/ s = 0 \/ 2 * s < u + s,
           u = m => p >= 1
    PROVE  (u + s) - p + 1 <= 2 * m - 1
OBVIOUS

LEMMA InsertBounded ==
    ASSUME ~sqlite, IInv, HeapAccounting, NEW t \in Threads, NEW j \in job[t], Insert(j)
    PROVE  Cardinality(heap') <= 2 * MaxEntries - 1
<1>1. PICK P \in Segments(HeapReady) :
        LoopPops(P) /\ heap' = Push(HeapReady \ P, j.at, j.key)
  BY DEF Insert
<1> DEFINE u == Cardinality(Unexpired)
           p == Cardinality(P)
<1>2. P \in SUBSET HeapReady /\ IsFiniteSet(HeapReady) /\ HeapReady \subseteq HeapItem
  BY <1>1, LoopMakesRoom, ReadyCovers
<1>3. /\ p \in Nat /\ IsFiniteSet(HeapReady \ P) /\ Cardinality(HeapReady \ P) \in Nat
      /\ Cardinality(HeapReady) = p + Cardinality(HeapReady \ P) /\ IsFiniteSet(P)
  BY <1>2, SplitCardinality
<1>4. Cardinality(heap') = Cardinality(HeapReady \ P) + 1
  <2>1. j.key \in Keys /\ j.at \in Nat /\ HeapReady \ P \in SUBSET HeapItem
    BY <1>2 DEF IInv, BInv, TypeOK, Job
  <2>. QED  BY <1>1, <1>3, <2>1, PushLemma
<1>5. u \in Nat /\ u <= MaxEntries /\ StaleReady \in Nat /\ Cardinality(HeapReady) = u + StaleReady
  BY AccountingNumbers, ReadyAccounting
<1>6. u + StaleReady = 0 \/ StaleReady = 0 \/ 2 * StaleReady < u + StaleReady
  <2>1. CASE NeedsRebuild
    BY <2>1 DEF StaleReady
  <2>2. CASE ~NeedsRebuild /\ heap = {}
    <3>1. Cardinality(HeapReady) = 0
      BY <2>2, FS_EmptySet DEF HeapReady
    <3>. QED  BY <1>5, <3>1
  <2>3. CASE ~NeedsRebuild /\ heap # {}
    <3>1. StaleReady = StaleCleaned /\ HeapReady = heap /\ ~ (2 * StaleCleaned >= Cardinality(heap))
      BY <2>3 DEF NeedsRebuild, StaleReady, HeapReady
    <3>. QED  BY <1>5, <3>1
  <2>. QED  BY <2>1, <2>2, <2>3
<1>7. u = MaxEntries => p >= 1
  <2> SUFFICES ASSUME u = MaxEntries, p = 0 PROVE FALSE
    BY <1>3
  <2>1. P = {}
    BY <1>3, FS_EmptySet
  <2>2. Keeps(P) = Unexpired
    BY <2>1 DEF Keeps, Evicts
  <2>3. Cardinality(Keeps(P)) < MaxEntries
    BY <1>1, LoopMakesRoom
  <2>. QED  BY <1>5, <2>2, <2>3
<1> HIDE DEF u, p
<1>8. p <= u + StaleReady
  BY <1>3, <1>5
<1>9. (u + StaleReady) - p + 1 <= 2 * MaxEntries - 1
  BY <1>3, <1>5, <1>6, <1>7, <1>8, MaxEntriesAssumption, BoundArithmetic
<1>10. Cardinality(heap') = (u + StaleReady) - p + 1
  BY <1>3, <1>4, <1>5
<1>. QED  BY <1>9, <1>10

\* With the in-memory backend, a store() of a new key leaves fewer than two tuples
\* for each entry there may be, however many stale ones had piled up before it.
THEOREM HeapStaysBounded == Spec => HeapBounded
<1> DEFINE A == \A t \in Threads : \A j \in job[t] :
                   ~sqlite /\ pc[t] = "commit" /\ pc'[t] = "idle" /\ j.key \notin live
                      => Cardinality(heap') <= 2 * MaxEntries - 1
           Inv == IInv /\ HeapAccounting /\ OneJob
<1>1. Init => Inv
  BY InitIInv, InitAccounting DEF Init, OneJob
<1>2. Inv /\ [Next]_vars => Inv'
  BY NextIInv, NextAccounting, NextOneJob DEF IInv, BInv
<1>3. Inv /\ [Next]_vars => A
  <2> SUFFICES ASSUME Inv, [Next]_vars, NEW t \in Threads, NEW j \in job[t],
                      ~sqlite, pc[t] = "commit", pc'[t] = "idle", j.key \notin live
               PROVE  Cardinality(heap') <= 2 * MaxEntries - 1
    OBVIOUS
  <2>1. pc \in [Threads -> {"idle", "swap", "deliver", "commit"}]
    BY DEF IInv, BInv, TypeOK
  <2>2. pc' # pc
    OBVIOUS
  <2>3. ASSUME NEW u \in Threads, Call(u) PROVE FALSE
    BY <2>1, <2>3 DEF Call, RetrieveHit, StoreBegin
  <2>4. ASSUME NEW u \in Threads, Swap(u) \/ Deliver(u) PROVE FALSE
    BY <2>1, <2>4 DEF Swap, Deliver, AfterFeedback
  <2>5. ASSUME NEW k \in Keys, Lookup(k) PROVE FALSE
    BY <2>2, <2>5 DEF Lookup, RetrieveExpired, GetMetadata, Exists, GetEntryStatus, DropExpired,
                      threadVars
  <2>6. ~ (GetStats \/ Clear \/ Tick \/ UNCHANGED vars)
    BY <2>2 DEF GetStats, Clear, Tick, vars, threadVars
  <2>7. PICK u \in Threads : StoreCommit(u)
    BY <2>3, <2>4, <2>5, <2>6 DEF Next, Continue
  <2>8. u = t
    BY <2>1, <2>7 DEF StoreCommit
  <2>9. Overwrite(j) \/ Insert(j)
    BY <2>7, <2>8 DEF StoreCommit, OneJob
  <2>10. Insert(j)
    BY <2>9 DEF Overwrite
  <2>. QED  BY <2>10, InsertBounded
<1>4. Inv /\ [Next]_vars => [A]_vars
  BY <1>3
<1>. QED  BY <1>1, <1>2, <1>4, PTL DEF Spec, HeapBounded

-----------------------------------------------------------------------------
(* Eviction order.                                                          *)

\* A tuple outside a popped segment comes after every tuple inside it.
LEMMA SegmentOrder ==
    ASSUME NEW h \in SUBSET HeapItem, NEW P \in Segments(h),
           NEW r \in P, NEW s \in h \ P
    PROVE  Before(r, s)
<1>1. PICK top \in h : P = {x \in h : ~Before(top, x)}
  BY DEF Segments
<1>2. Before(top, s) /\ ~Before(top, r)
  BY <1>1
<1>3. /\ top.at \in Nat /\ top.key \in Nat /\ top.n \in Nat
      /\ r.at \in Nat /\ r.key \in Nat /\ r.n \in Nat
      /\ s.at \in Nat /\ s.key \in Nat /\ s.n \in Nat
  BY <1>1, KeysAssumption DEF HeapItem
<1>. QED  BY <1>2, <1>3 DEF Before

\* The entries a run of the loop evicts are older than the ones it keeps.
LEMMA LoopOldestFirst ==
    ASSUME IInv, NEW P, LoopPops(P), NEW k \in Evicts(P), NEW j \in Keeps(P)
    PROVE  \/ store[k].created < store[j].created
           \/ store[k].created = store[j].created /\ k < j
<1>1. PICK r \in P : r.key = k /\ r.at = store[k].created
  BY DEF Evicts
<1>2. PICK s \in HeapReady \ P : s.key = j /\ s.at = store[j].created
  BY LoopMakesRoom
<1>3. Before(r, s)
  BY <1>1, <1>2, ReadyCovers, SegmentOrder DEF LoopPops
<1>4. k # j
  BY DEF Keeps
<1>. QED  BY <1>1, <1>2, <1>3, <1>4 DEF Before

\* A set of the backend loses no unexpired entry but, maybe, the one it sets.
LEMMA SetKeeps ==
    ASSUME NEW s, s = [i \in DOMAIN s |-> s[i]], store' \in AfterSet(s),
           NEW k \in DOMAIN s, s[k].created = store[k].created, s[k].ttl = store[k].ttl,
           ~Expired(k)
    PROVE  k \in DOMAIN store'
BY AfterSetLemma DEF Expired, IsExpired

\* The only step that evicts is the insertion of a new key.
LEMMA EvictionIsInsert ==
    ASSUME IInv, [Next]_vars, NEW k \in Keys, EvictedNow(k)
    PROVE  \E t \in Threads : \E j \in job[t] : StoreCommit(t) /\ Insert(j)
<1>1. k \in live /\ k \notin DOMAIN store' /\ ~Expired(k) /\ DOMAIN store' # {} /\ ~StoredNow(k)
  BY DEF EvictedNow
<1>2. store' # store
  BY <1>1 DEF live
<1>3. ASSUME NEW t \in Threads, NEW i \in Keys, RetrieveHit(t, i) PROVE FALSE
  <2> DEFINE s == [store EXCEPT ![i] = Accessed(@)]
  <2>1. /\ DOMAIN s = live /\ s = [x \in DOMAIN s |-> s[x]]
        /\ \A x \in live : s[x].created = store[x].created /\ s[x].ttl = store[x].ttl
    BY DEF IInv, BInv, TypeOK, live, Accessed, Entry
  <2>2. store' \in AfterSet(s)
    BY <1>3 DEF RetrieveHit
  <2> HIDE DEF s
  <2>. QED  BY <1>1, <2>1, <2>2, SetKeeps
<1>4. ASSUME NEW t \in Threads, StoreCommit(t), NEW j \in job[t], Overwrite(j) PROVE FALSE
  <2> DEFINE s == [store EXCEPT ![j.key] = NewEntry(j, store[j.key].used)]
  <2>1. k # j.key
    BY <1>1, <1>4 DEF StoredNow, StoreCommit, IInv, BInv, TypeOK
  <2>2. /\ DOMAIN s = live /\ s = [x \in DOMAIN s |-> s[x]]
        /\ \A x \in live \ {j.key} : s[x] = store[x]
    BY DEF IInv, BInv, TypeOK, live
  <2>3. store' \in AfterSet(s)
    BY <1>4 DEF Overwrite
  <2> HIDE DEF s
  <2>. QED  BY <1>1, <2>1, <2>2, <2>3, SetKeeps
<1>5. ASSUME NEW i \in Keys, DropExpired(i) PROVE FALSE
  BY <1>1, <1>5 DEF DropExpired, Only, live
<1>6. ASSUME GetStats PROVE FALSE
  BY <1>1, <1>6 DEF GetStats, Only, Unexpired
<1>7. ASSUME Clear PROVE FALSE
  BY <1>1, <1>7 DEF Clear, Only
<1>8. CASE Next
  <2>1. CASE \E t \in Threads : StoreCommit(t)
    BY <1>4, <2>1 DEF StoreCommit
  <2>2. ASSUME NEW t \in Threads, Call(t) PROVE FALSE
    BY <1>2, <1>3, <2>2 DEF Call, StoreBegin
  <2>3. ASSUME NEW t \in Threads, Swap(t) \/ Deliver(t) PROVE FALSE
    BY <1>2, <2>3 DEF Swap, Deliver
  <2>4. ASSUME NEW i \in Keys, Lookup(i) PROVE FALSE
    BY <1>5, <2>4 DEF Lookup, RetrieveExpired, GetMetadata, Exists, GetEntryStatus
  <2>5. ~Tick
    BY <1>2 DEF Tick
  <2>. QED  BY <1>6, <1>7, <1>8, <2>1, <2>2, <2>3, <2>4, <2>5 DEF Next, Continue
<1>9. CASE UNCHANGED vars
  BY <1>2, <1>9 DEF vars
<1>. QED  BY <1>8, <1>9

\* An insertion keeps exactly what its loop kept, and evicts what its loop evicted.
LEMMA InsertKeeps ==
    ASSUME IInv, NEW t \in Threads, NEW j \in job[t], Insert(j)
    PROVE  \E P : /\ LoopPops(P)
                  /\ live \cap DOMAIN store' = Keeps(P)
                  /\ \A k \in live \ DOMAIN store' : ~Expired(k) => k \in Evicts(P)
<1>1. PICK P \in Segments(HeapReady) :
        /\ LoopPops(P)
        /\ store' \in AfterSet([k \in Keeps(P) \cup {j.key} |->
                        IF k = j.key THEN NewEntry(j, FALSE) ELSE store[k]])
  BY DEF Insert
<1> DEFINE s == [k \in Keeps(P) \cup {j.key} |->
                    IF k = j.key THEN NewEntry(j, FALSE) ELSE store[k]]
<1>2. j.key \notin live
  BY DEF Insert
<1>3. \A k \in Keeps(P) : k \in live /\ ~Expired(k)
  BY DEF Keeps, Unexpired
<1>4. /\ DOMAIN s = Keeps(P) \cup {j.key} /\ s = [k \in DOMAIN s |-> s[k]]
      /\ \A k \in Keeps(P) : s[k] = store[k]
  BY <1>2, <1>3
<1>5. store' \in AfterSet(s)
  BY <1>1
<1> HIDE DEF s
<1>6. \A k \in Keeps(P) : k \in DOMAIN store'
  BY <1>3, <1>4, <1>5, SetKeeps
<1>7. DOMAIN store' \subseteq Keeps(P) \cup {j.key}
  BY <1>4, <1>5, AfterSetLemma
<1>8. live \cap DOMAIN store' = Keeps(P)
  BY <1>2, <1>3, <1>6, <1>7
<1>9. \A k \in live \ DOMAIN store' : ~Expired(k) => k \in Evicts(P)
  BY <1>6 DEF Keeps, Unexpired
<1>. QED  BY <1>1, <1>8, <1>9

\* _evict_if_needed removes the oldest entries, whatever the order in which threads
\* read created_at and take the lock.
THEOREM EvictsOldest == Spec => OldestFirst
<1> DEFINE A == \A k \in Keys : EvictedNow(k) =>
                   \A j \in live \cap DOMAIN store' :
                      \/ store[k].created < store[j].created
                      \/ store[k].created = store[j].created /\ k < j
<1>1. IInv /\ [Next]_vars => A
  <2> SUFFICES ASSUME IInv, [Next]_vars, NEW k \in Keys, EvictedNow(k),
                      NEW j \in live \cap DOMAIN store'
               PROVE  \/ store[k].created < store[j].created
                      \/ store[k].created = store[j].created /\ k < j
    OBVIOUS
  <2>1. PICK t \in Threads : \E i \in job[t] : Insert(i)
    BY EvictionIsInsert
  <2>2. PICK P : /\ LoopPops(P)
                 /\ live \cap DOMAIN store' = Keeps(P)
                 /\ \A i \in live \ DOMAIN store' : ~Expired(i) => i \in Evicts(P)
    BY <2>1, InsertKeeps
  <2>3. k \in Evicts(P) /\ j \in Keeps(P)
    BY <2>2 DEF EvictedNow
  <2>. QED  BY <2>2, <2>3, LoopOldestFirst
<1>2. IInv /\ [Next]_vars => [A]_vars
  BY <1>1
<1>. QED  BY <1>2, InitIInv, NextIInv, PTL DEF Spec, OldestFirst

-----------------------------------------------------------------------------
(* Eviction makes room for one entry and no more.                           *)

LEMMA BeforeOrder ==
    ASSUME NEW r \in HeapItem, NEW s \in HeapItem
    PROVE  /\ ~Before(r, r)
           /\ Before(r, s) => ~Before(s, r)
           /\ r = s \/ Before(r, s) \/ Before(s, r)
           /\ \A x \in HeapItem : Before(r, s) /\ Before(s, x) => Before(r, x)
<1>1. /\ r = [at |-> r.at, key |-> r.key, n |-> r.n]
      /\ s = [at |-> s.at, key |-> s.key, n |-> s.n]
      /\ r.at \in Nat /\ r.key \in Nat /\ r.n \in Nat
      /\ s.at \in Nat /\ s.key \in Nat /\ s.n \in Nat
  BY KeysAssumption DEF HeapItem
<1>2. ~Before(r, r) /\ (Before(r, s) => ~Before(s, r))
  BY <1>1 DEF Before
<1>3. r = s \/ Before(r, s) \/ Before(s, r)
  <2> SUFFICES ASSUME ~Before(r, s), ~Before(s, r) PROVE r = s
    OBVIOUS
  <2>1. r.at = s.at /\ r.key = s.key /\ r.n = s.n
    BY <1>1 DEF Before
  <2>. QED  BY <1>1, <2>1
<1>4. ASSUME NEW x \in HeapItem, Before(r, s), Before(s, x) PROVE Before(r, x)
  <2>1. x.at \in Nat /\ x.key \in Nat /\ x.n \in Nat
    BY KeysAssumption DEF HeapItem
  <2>. QED  BY <1>1, <1>4, <2>1 DEF Before
<1>. QED  BY <1>2, <1>3, <1>4

\* What was popped before r is a segment too: it ends with the tuple before r.
LEMMA EarlierSegment ==
    ASSUME NEW h \in SUBSET HeapItem, IsFiniteSet(h), NEW r \in h
    PROVE  {s \in h : Before(s, r)} \in Segments(h)
<1> DEFINE Q == {s \in h : Before(s, r)}
           Seg(q) == {s \in h : ~Before(q, s)}
           Rest == {h \ Seg(q) : q \in Q}
<1>1. CASE Q = {}
  BY <1>1 DEF Segments
<1>2. CASE Q # {}
  <2>1. IsWellFoundedOn(StrictSubsetOrdering(h), FiniteSubsetsOf(h))
    BY FS_StrictSubsetOrderingWellFounded
  <2>2. FiniteSubsetsOf(h) = SUBSET h
    BY FS_FiniteSubsetsOfFinite
  <2>3. Rest \subseteq FiniteSubsetsOf(h) /\ Rest # {}
    <3>1. PICK q \in Q : TRUE
      BY <1>2
    <3>2. h \ Seg(q) \in Rest
      BY <3>1
    <3>3. \A x \in Rest : x \in SUBSET h
      OBVIOUS
    <3> HIDE DEF Rest
    <3>. QED  BY <2>2, <3>2, <3>3
  <2> HIDE DEF Rest
  <2>4. PICK x \in Rest : \A y \in Rest : <<y, x>> \notin StrictSubsetOrdering(h)
    BY <2>1, <2>3, WFMin
  <2>5. PICK q \in Q : x = h \ Seg(q)
    BY DEF Rest
  <2>6. Seg(q) \subseteq Q
    <3> SUFFICES ASSUME NEW s \in h, ~Before(q, s) PROVE Before(s, r)
      OBVIOUS
    <3>1. q \in HeapItem /\ s \in HeapItem /\ r \in HeapItem /\ Before(q, r)
      BY <2>5
    <3>2. s = q \/ Before(s, q)
      BY <3>1, BeforeOrder
    <3>. QED  BY <3>1, <3>2, BeforeOrder
  <2>7. Q \subseteq Seg(q)
    <3> SUFFICES ASSUME NEW s \in Q, Before(q, s) PROVE FALSE
      OBVIOUS
    <3>1. q \in HeapItem /\ s \in HeapItem
      BY <2>5
    <3>2. ASSUME NEW i \in Seg(q) PROVE i \in Seg(s)
      <4>1. i \in HeapItem /\ i \in h /\ ~Before(q, i)
        BY <3>2
      <4>. QED  BY <3>1, <4>1, BeforeOrder
    <3>3. s \in Seg(s) /\ s \notin Seg(q)
      BY <3>1, BeforeOrder
    <3> DEFINE y == h \ Seg(s)
    <3>4. y \in SUBSET h /\ x \in SUBSET h /\ y \subseteq x /\ y # x
      BY <2>5, <3>2, <3>3
    <3>5. y \in Rest
      BY DEF Rest
    <3> HIDE DEF y
    <3>6. <<y, x>> \in StrictSubsetOrdering(h)
      BY <3>4 DEF StrictSubsetOrdering
    <3>. QED  BY <2>4, <3>5, <3>6
  <2>8. Q = Seg(q) /\ q \in h
    BY <2>5, <2>6, <2>7
  <2>. QED  BY <2>8 DEF Segments
<1>. QED  BY <1>1, <1>2

\* The loop that evicts anything leaves exactly one place: its last pop was needed.
LEMMA LoopStopsInTime ==
    ASSUME IInv, NEW P, LoopPops(P), NEW k \in Evicts(P)
    PROVE  Cardinality(Keeps(P)) = MaxEntries - 1
<1>1. /\ HeapReady \in SUBSET HeapItem /\ IsFiniteSet(HeapReady) /\ P \in Segments(HeapReady)
      /\ IsFiniteSet(Keeps(P)) /\ Cardinality(Keeps(P)) < MaxEntries
      /\ Cardinality(Keeps(P)) \in Nat
  BY ReadyCovers, LoopMakesRoom, FS_CardinalityType DEF LoopPops
<1>2. P # {}
  BY DEF Evicts
<1>3. PICK r \in HeapReady : P = {s \in HeapReady : ~Before(r, s)}
  BY <1>1, <1>2 DEF Segments
<1> DEFINE Q == {s \in HeapReady : Before(s, r)}
<1>4. r \in HeapItem /\ Q \in Segments(HeapReady) /\ r \notin Q /\ r \in P
  BY <1>1, <1>3, EarlierSegment, BeforeOrder
<1>5. P \subseteq Q \cup {r}
  <2> SUFFICES ASSUME NEW s \in HeapReady, ~Before(r, s), s # r PROVE Before(s, r)
    BY <1>3
  <2>1. s \in HeapItem
    BY <1>1
  <2>. QED  BY <1>4, <2>1, BeforeOrder
<1> HIDE DEF Q
<1>6. ~LoopEnds(Q)
  BY <1>4 DEF LoopPops
<1>7. Cardinality(Keeps(Q)) >= MaxEntries /\ Cardinality(Keeps(Q)) \in Nat
  <2>1. Keeps(Q) \subseteq live
    BY DEF Keeps, Unexpired
  <2>2. Cardinality(Keeps(Q)) \in Nat
    BY <2>1, LiveFinite, FS_Subset, FS_CardinalityType DEF IInv, BInv
  <2>. QED  BY <1>6, <2>2, MaxEntriesAssumption DEF LoopEnds
<1>8. Keeps(Q) \in SUBSET (Keeps(P) \cup {r.key})
  BY <1>5 DEF Keeps, Evicts
<1>9. /\ IsFiniteSet(Keeps(P) \cup {r.key})
      /\ Cardinality(Keeps(P) \cup {r.key}) \in {Cardinality(Keeps(P)), Cardinality(Keeps(P)) + 1}
  <2>1. /\ IsFiniteSet(Keeps(P) \cup {r.key})
        /\ Cardinality(Keeps(P) \cup {r.key}) =
              IF r.key \in Keeps(P) THEN Cardinality(Keeps(P))
                                    ELSE Cardinality(Keeps(P)) + 1
    BY <1>1, FS_AddElement, Zenon
  <2>. QED  BY <2>1
<1>10. Cardinality(Keeps(Q)) <= Cardinality(Keeps(P) \cup {r.key})
  BY <1>8, <1>9, FS_Subset
<1>. QED  BY <1>1, <1>7, <1>9, <1>10, MaxEntriesAssumption

\* An unexpired entry is evicted only by the store() of an absent key, and the
\* loop then stops as soon as there is room for that key.
THEOREM EvictsForRoomOnly == Spec => EvictsOnlyForRoom
<1> DEFINE A == (\E k \in Keys : EvictedNow(k)) =>
                   /\ \E k \in Keys \ live : StoredNow(k)
                   /\ Cardinality(live \cap DOMAIN store') = MaxEntries - 1
<1>1. IInv /\ [Next]_vars => A
  <2> SUFFICES ASSUME IInv, [Next]_vars, NEW k \in Keys, EvictedNow(k)
               PROVE  /\ \E i \in Keys \ live : StoredNow(i)
                      /\ Cardinality(live \cap DOMAIN store') = MaxEntries - 1
    OBVIOUS
  <2>1. PICK t \in Threads : \E i \in job[t] : StoreCommit(t) /\ Insert(i)
    BY EvictionIsInsert
  <2>2. PICK i \in job[t] : StoreCommit(t) /\ Insert(i)
    BY <2>1
  <2>3. i.key \in Keys \ live
    BY <2>2 DEF Insert, IInv, BInv, TypeOK, Job
  <2>4. StoredNow(i.key)
    BY <2>2 DEF StoreCommit, StoredNow, IInv, BInv, TypeOK
  <2>5. PICK P : /\ LoopPops(P)
                 /\ live \cap DOMAIN store' = Keeps(P)
                 /\ \A x \in live \ DOMAIN store' : ~Expired(x) => x \in Evicts(P)
    BY <2>2, InsertKeeps
  <2>6. k \in Evicts(P)
    BY <2>5 DEF EvictedNow
  <2>. QED  BY <2>3, <2>4, <2>5, <2>6, LoopStopsInTime
<1>2. IInv /\ [Next]_vars => [A]_vars
  BY <1>1
<1>. QED  BY <1>2, InitIInv, NextIInv, PTL DEF Spec, EvictsOnlyForRoom

-----------------------------------------------------------------------------
(* Feedback events.                                                         *)

UniqueIds(S) == \A d, e \in S : d.id = e.id => d = e

BatchIds == [t \in Threads |-> Ids(batch[t])]

\* The ids 1 .. n are shared out among the queue, the batches, the events
\* forwarded and the events cleared, each id to one place.
Parts(n, Q, B, F, C) ==
    /\ Q \cup F \cup C \subseteq 1 .. n
    /\ Q \cap F = {} /\ Q \cap C = {} /\ F \cap C = {}
    /\ \A t \in Threads : B[t] \subseteq 1 .. n /\ B[t] \cap (Q \cup F \cup C) = {}
    /\ \A t, u \in Threads : t # u => B[t] \cap B[u] = {}
    /\ \A i \in 1 .. n : i \in Q \cup F \cup C \/ \E t \in Threads : i \in B[t]

\* A thread that is not forwarding holds no events, so a swap overwrites none.
EInv ==
    /\ \A t \in Threads : pc[t] # "deliver" => batch[t] = {}
    /\ UniqueIds(pending)
    /\ \A t \in Threads : UniqueIds(batch[t])
    /\ Parts(made, Ids(pending), BatchIds, Ids(fed), cleared)

LEMMA PartsAdd ==
    ASSUME NEW n \in Nat, NEW m \in Nat, n <= m, NEW Q, NEW B, NEW F, NEW C, Parts(n, Q, B, F, C)
    PROVE  Parts(m, Q \cup (n + 1 .. m), B, F, C)
<1> DEFINE R == n + 1 .. m
<1>1. 1 .. n \subseteq 1 .. m /\ R \subseteq 1 .. m /\ 1 .. m \subseteq (1 .. n) \cup R
      /\ R \cap (1 .. n) = {}
  OBVIOUS
<1> HIDE DEF R
<1>. QED  BY <1>1 DEF Parts, R

LEMMA PartsSwap ==
    ASSUME NEW n, NEW Q, NEW B, NEW F, NEW C, Parts(n, Q, B, F, C), DOMAIN B = Threads,
           NEW t \in Threads, B[t] = {}
    PROVE  Parts(n, {}, [B EXCEPT ![t] = Q], F, C)
BY DEF Parts

LEMMA PartsDeliver ==
    ASSUME NEW n, NEW Q, NEW B, NEW F, NEW C, Parts(n, Q, B, F, C), DOMAIN B = Threads,
           NEW t \in Threads, NEW i \in B[t]
    PROVE  Parts(n, Q, [B EXCEPT ![t] = @ \ {i}], F \cup {i}, C)
BY DEF Parts

LEMMA PartsClear ==
    ASSUME NEW n, NEW Q, NEW B, NEW F, NEW C, Parts(n, Q, B, F, C)
    PROVE  Parts(n, {}, B, F, C \cup Q)
BY DEF Parts

\* Steps that touch no event.
LEMMA SameEvents ==
    ASSUME EInv, UNCHANGED <<pending, batch, fed, made, cleared>>,
           \A t \in Threads : pc'[t] # "deliver" => batch[t] = {}
    PROVE  EInv'
BY DEF EInv, BatchIds

\* Steps that queue the events N.
LEMMA NewEvents ==
    ASSUME TypeOK, EInv, NEW N, made' \in Nat, made <= made', pending' = pending \cup N,
           Ids(N) = made + 1 .. made', UniqueIds(N),
           UNCHANGED <<batch, fed, cleared>>,
           \A t \in Threads : pc'[t] # "deliver" => batch[t] = {}
    PROVE  EInv'
<1>1. Ids(pending') = Ids(pending) \cup (made + 1 .. made')
  BY DEF Ids
<1>2. Parts(made', Ids(pending'), BatchIds, Ids(fed), cleared)
  <2>1. made \in Nat /\ Parts(made, Ids(pending), BatchIds, Ids(fed), cleared)
    BY DEF EInv, TypeOK
  <2>2. Parts(made', Ids(pending) \cup (made + 1 .. made'), BatchIds, Ids(fed), cleared)
    BY <2>1, PartsAdd, Zenon
  <2>. QED  BY <1>1, <2>2, Zenon
<1>3. UniqueIds(pending')
  <2>1. \A e \in pending : e.id \in 1 .. made
    BY DEF EInv, Parts, Ids
  <2>2. \A e \in N : e.id \in made + 1 .. made'
    BY DEF Ids
  <2>3. (1 .. made) \cap (made + 1 .. made') = {}
    BY DEF TypeOK
  <2>. QED  BY <2>1, <2>2, <2>3 DEF EInv, UniqueIds
<1>. QED  BY <1>2, <1>3 DEF EInv, BatchIds

\* A retrieval queues one event.
LEMMA OneEvent ==
    ASSUME TypeOK, EInv, NEW t \in Threads, NEW e, e.id = made + 1,
           pending' = pending \cup {e}, made' = made + 1, UNCHANGED <<batch, fed, cleared>>,
           pc[t] = "idle", pc' = [pc EXCEPT ![t] = "swap"]
    PROVE  EInv'
<1>1. Ids({e}) = made + 1 .. made' /\ UniqueIds({e}) /\ made' \in Nat /\ made <= made'
  <2>1. Ids({e}) = {made + 1} /\ UniqueIds({e})
    BY DEF Ids, UniqueIds
  <2>2. made + 1 .. made + 1 = {made + 1} /\ made + 1 \in Nat /\ made <= made + 1
    BY DEF TypeOK
  <2>. QED  BY <2>1, <2>2
<1>2. \A u \in Threads : pc'[u] # "deliver" => batch[u] = {}
  BY DEF EInv, TypeOK
<1>. QED  BY <1>1, <1>2, NewEvents

LEMMA RetrieveHitEvents ==
    ASSUME TypeOK, EInv, NEW t \in Threads, NEW k \in Keys, RetrieveHit(t, k)
    PROVE  EInv'
<1> DEFINE e == [id |-> made + 1, kind |-> "full", key |-> k, sig |-> store[k].sig]
<1>1. e.id = made + 1
  OBVIOUS
<1>2. /\ pending' = pending \cup {e} /\ made' = made + 1 /\ UNCHANGED <<batch, fed, cleared>>
      /\ pc[t] = "idle" /\ pc' = [pc EXCEPT ![t] = "swap"]
  BY DEF RetrieveHit
<1> HIDE DEF e
<1>. QED  BY <1>1, <1>2, OneEvent

\* A thread takes the queue as its batch, whatever it found out about each event.
LEMMA QueueTaken ==
    ASSUME TypeOK, EInv, NEW t \in Threads, pc[t] = "swap",
           NEW new, Ids(new) = Ids(pending), UniqueIds(new), pending = {} => new = {},
           batch' = [batch EXCEPT ![t] = new], pending' = {},
           pc' = [pc EXCEPT ![t] = IF pending = {} THEN AfterFeedback(t) ELSE "deliver"],
           UNCHANGED <<fed, made, cleared>>
    PROVE  EInv'
<1>1. /\ DOMAIN batch = Threads /\ batch = [u \in Threads |-> batch[u]] /\ DOMAIN pc = Threads
      /\ pc = [u \in Threads |-> pc[u]]
  BY DEF TypeOK
<1>2. batch'[t] = new /\ \A u \in Threads \ {t} : batch'[u] = batch[u]
  BY <1>1
<1>3. \A u \in Threads : pc'[u] # "deliver" => batch'[u] = {}
  <2>1. ASSUME NEW u \in Threads, pc'[u] # "deliver" PROVE batch'[u] = {}
    <3>1. CASE u = t
      BY <1>1, <1>2, <2>1, <3>1
    <3>2. CASE u # t
      BY <1>1, <1>2, <2>1, <3>2 DEF EInv
    <3>. QED  BY <3>1, <3>2
  <2>. QED  BY <2>1
<1>4. UniqueIds(pending') /\ \A u \in Threads : UniqueIds(batch'[u])
  BY <1>2 DEF EInv, UniqueIds
<1>5. BatchIds[t] = {} /\ DOMAIN BatchIds = Threads
  BY DEF EInv, BatchIds, Ids
<1>6. BatchIds' = [BatchIds EXCEPT ![t] = Ids(pending)]
  <2>1. Ids(batch'[t]) = Ids(pending) /\ \A u \in Threads \ {t} : Ids(batch'[u]) = Ids(batch[u])
    BY <1>2
  <2>2. BatchIds' = [u \in Threads |-> Ids(batch'[u])] /\ BatchIds = [u \in Threads |-> Ids(batch[u])]
    BY DEF BatchIds, Ids
  <2>. QED  BY <1>5, <2>1, <2>2
<1>7. Ids(pending') = {}
  BY DEF Ids
<1>8. Parts(made, {}, BatchIds', Ids(fed), cleared)
  BY <1>5, <1>6, PartsSwap DEF EInv
<1>. QED  BY <1>3, <1>4, <1>7, <1>8 DEF EInv

LEMMA SwapEvents == ASSUME TypeOK, EInv, NEW t \in Threads, Swap(t) PROVE EInv'
<1> DEFINE Look(e) == [id |-> e.id, kind |-> e.kind, key |-> e.key, sig |-> e.sig,
                       known |-> e.key \in live /\ store[e.key].sig]
           new == {Look(e) : e \in pending}
<1>1. /\ pc[t] = "swap" /\ batch' = [batch EXCEPT ![t] = new] /\ pending' = {}
      /\ pc' = [pc EXCEPT ![t] = IF pending = {} THEN AfterFeedback(t) ELSE "deliver"]
      /\ UNCHANGED <<fed, made, cleared>>
  BY DEF Swap
<1>2. \A e \in pending : Look(e).id = e.id
  OBVIOUS
<1>3. Ids(new) = Ids(pending)
  <2> HIDE DEF Look
  <2>1. Ids(new) = {Look(e).id : e \in pending}
    BY DEF Ids
  <2>. QED  BY <1>2, <2>1 DEF Ids
<1>4. UniqueIds(new)
  BY <1>2 DEF EInv, UniqueIds
<1>5. pending = {} => new = {}
  OBVIOUS
<1> HIDE DEF new
<1>. QED  BY <1>1, <1>3, <1>4, <1>5, QueueTaken

LEMMA DeliverEvents == ASSUME TypeOK, EInv, NEW t \in Threads, Deliver(t) PROVE EInv'
<1>1. PICK d \in batch[t] :
        /\ fed' = fed \cup {d} /\ batch' = [batch EXCEPT ![t] = @ \ {d}]
        /\ pc' = [pc EXCEPT ![t] = IF batch[t] = {d} THEN AfterFeedback(t) ELSE @]
  BY DEF Deliver
<1>2. pc[t] = "deliver" /\ UNCHANGED <<pending, made, cleared>>
  BY DEF Deliver
<1>3. /\ DOMAIN batch = Threads /\ batch = [u \in Threads |-> batch[u]] /\ DOMAIN pc = Threads
      /\ pc = [u \in Threads |-> pc[u]]
  BY DEF TypeOK
<1>4. batch'[t] = batch[t] \ {d} /\ \A u \in Threads \ {t} : batch'[u] = batch[u]
  BY <1>1, <1>3
<1>5. \A u \in Threads : pc'[u] # "deliver" => batch'[u] = {}
  <2>1. ASSUME NEW u \in Threads, pc'[u] # "deliver" PROVE batch'[u] = {}
    <3>1. CASE u = t
      BY <1>1, <1>2, <1>3, <1>4, <2>1, <3>1
    <3>2. CASE u # t
      BY <1>1, <1>3, <1>4, <2>1, <3>2 DEF EInv
    <3>. QED  BY <3>1, <3>2
  <2>. QED  BY <2>1
<1>6. UniqueIds(pending') /\ \A u \in Threads : UniqueIds(batch'[u])
  BY <1>2, <1>4 DEF EInv, UniqueIds
<1>7. Ids(batch[t] \ {d}) = Ids(batch[t]) \ {d.id}
  BY DEF EInv, UniqueIds, Ids
<1>8. d.id \in BatchIds[t] /\ DOMAIN BatchIds = Threads
  BY DEF BatchIds, Ids
<1>9. BatchIds' = [BatchIds EXCEPT ![t] = @ \ {d.id}]
  BY <1>4, <1>7, <1>8 DEF BatchIds
<1>10. Ids(fed') = Ids(fed) \cup {d.id}
  BY <1>1 DEF Ids
<1>11. Parts(made, Ids(pending), BatchIds', Ids(fed'), cleared)
  <2>1. Parts(made, Ids(pending), BatchIds, Ids(fed), cleared)
    BY DEF EInv
  <2>2. Parts(made, Ids(pending), [BatchIds EXCEPT ![t] = @ \ {d.id}], Ids(fed) \cup {d.id}, cleared)
    BY <1>8, <2>1, PartsDeliver, Zenon
  <2>. QED  BY <1>9, <1>10, <2>2, Zenon
<1>. QED  BY <1>2, <1>5, <1>6, <1>11 DEF EInv

LEMMA ClearEvents ==
    ASSUME EInv, pending' = {}, cleared' = cleared \cup Ids(pending),
           UNCHANGED <<pc, batch, fed, made>>
    PROVE  EInv'
<1>1. Ids(pending') = {}
  BY DEF Ids
<1>2. Parts(made, {}, BatchIds, Ids(fed), cleared \cup Ids(pending))
  BY PartsClear DEF EInv
<1>. QED  BY <1>1, <1>2 DEF EInv, BatchIds, UniqueIds

\* In a finite set whose elements have nested sets of predecessors, the number of
\* predecessors is the element's place, and no place is left empty.
LEMMA Ranking ==
    ASSUME NEW S, IsFiniteSet(S), NEW E \in [S -> SUBSET S],
           \A k \in S : k \notin E[k],
           \A j, k \in S : j # k => \/ j \in E[k] /\ E[j] \subseteq E[k]
                                    \/ k \in E[j] /\ E[k] \subseteq E[j]
    PROVE  LET rank == [k \in S |-> Cardinality(E[k]) + 1]
           IN  /\ rank \in Injection(S, 1 .. Cardinality(S))
               /\ rank \in Surjection(S, 1 .. Cardinality(S))
<1> DEFINE rank == [k \in S |-> Cardinality(E[k]) + 1]
           c == Cardinality(S)
<1>1. c \in Nat
  BY FS_CardinalityType
<1>2. ASSUME NEW j \in S, NEW T \in SUBSET S, E[j] \subseteq T, j \in T
      PROVE  /\ Cardinality(E[j]) \in Nat /\ Cardinality(T) \in Nat
             /\ Cardinality(E[j]) < Cardinality(T) /\ Cardinality(T) <= c
  <2>1. E[j] \in SUBSET T /\ E[j] # T /\ IsFiniteSet(T)
    BY <1>2, FS_Subset
  <2>2. IsFiniteSet(E[j]) /\ Cardinality(E[j]) <= Cardinality(T)
    BY <2>1, FS_Subset
  <2>3. Cardinality(T) # Cardinality(E[j])
    BY <2>1, FS_Subset
  <2>4. Cardinality(T) <= c
    BY FS_Subset
  <2>5. Cardinality(T) \in Nat /\ Cardinality(E[j]) \in Nat
    BY <2>1, <2>2, FS_CardinalityType
  <2>. QED  BY <2>2, <2>3, <2>4, <2>5
<1>3. ASSUME NEW k \in S PROVE rank[k] \in 1 .. c
  <2>1. E[k] \subseteq S
    OBVIOUS
  <2>2. Cardinality(E[k]) \in Nat /\ Cardinality(E[k]) < c
    BY <1>2, <2>1
  <2>. QED  BY <1>1, <2>2
<1>4. ASSUME NEW j \in S, NEW k \in S, rank[j] = rank[k] PROVE j = k
  <2>1. SUFFICES ASSUME j # k PROVE FALSE
    OBVIOUS
  <2>2. CASE j \in E[k] /\ E[j] \subseteq E[k]
    <3>1. Cardinality(E[j]) \in Nat /\ Cardinality(E[k]) \in Nat
          /\ Cardinality(E[j]) < Cardinality(E[k])
      BY <1>2, <2>2
    <3>. QED  BY <1>4, <3>1
  <2>3. CASE k \in E[j] /\ E[k] \subseteq E[j]
    <3>1. Cardinality(E[j]) \in Nat /\ Cardinality(E[k]) \in Nat
          /\ Cardinality(E[k]) < Cardinality(E[j])
      BY <1>2, <2>3
    <3>. QED  BY <1>4, <3>1
  <2>. QED  BY <2>1, <2>2, <2>3
<1>5. rank \in Injection(S, 1 .. c)
  <2>1. rank \in [S -> 1 .. c]
    BY <1>3
  <2> HIDE DEF rank, c
  <2>. QED  BY <1>4, <2>1 DEF Injection, IsInjective
<1>6. IsFiniteSet(1 .. c) /\ Cardinality(1 .. c) = c
  <2>1. /\ IsFiniteSet(1 .. c)
        /\ Cardinality(1 .. c) = IF 1 > c THEN 0 ELSE c - 1 + 1
    BY <1>1, FS_Interval
  <2>. QED  BY <1>1, <2>1
<1> HIDE DEF rank
<1>7. rank \in Surjection(S, 1 .. c)
  BY <1>5, <1>6, FS_Injection
<1>. QED  BY <1>5, <1>7 DEF rank

\* The events of one run of the loop get the next ids, one each.
LEMMA SuccessIds ==
    ASSUME TypeOK, NEW P
    PROVE  LET N == {SuccessEvent(P, k) : k \in Successes(P)}
           IN  /\ Ids(N) = made + 1 .. made + Cardinality(Successes(P))
               /\ UniqueIds(N) /\ Cardinality(Successes(P)) \in Nat
<1> DEFINE S == Successes(P)
           Earlier(k) == {j \in S : \/ store[j].created < store[k].created
                                    \/ store[j].created = store[k].created /\ j < k}
           E == [k \in S |-> Earlier(k)]
           rank == [k \in S |-> Cardinality(E[k]) + 1]
           N == {SuccessEvent(P, k) : k \in S}
           c == Cardinality(S)
<1>1. S \subseteq live /\ IsFiniteSet(S)
  <2>1. S \subseteq live
    BY DEF Successes, Evicts, Unexpired
  <2>. QED  BY <2>1, LiveFinite, FS_Subset DEF IInv
<1>2. \A k \in S : k \in Nat /\ store[k].created \in Nat
  BY <1>1, KeysAssumption DEF TypeOK, live, Entry
<1>3. c \in Nat /\ made \in Nat
  BY <1>1, FS_CardinalityType DEF TypeOK
<1>4. \A k \in S : /\ SuccessEvent(P, k).id = made + Cardinality(E[k]) + 1
                   /\ E[k] = Earlier(k)
  BY DEF SuccessEvent
<1> HIDE DEF S
<1>5. E \in [S -> SUBSET S] /\ \A k \in S : k \notin E[k]
  BY <1>2
<1>6. ASSUME NEW j \in S, NEW k \in S, j # k
      PROVE  \/ j \in E[k] /\ E[j] \subseteq E[k]
             \/ k \in E[j] /\ E[k] \subseteq E[j]
  <2>1. \/ store[j].created < store[k].created
        \/ store[j].created = store[k].created /\ j < k
        \/ store[k].created < store[j].created
        \/ store[k].created = store[j].created /\ k < j
    BY <1>2, <1>6
  <2>2. ASSUME NEW a \in S, NEW b \in S,
               \/ store[a].created < store[b].created
               \/ store[a].created = store[b].created /\ a < b
        PROVE  a \in E[b] /\ E[a] \subseteq E[b]
    BY <1>2, <2>2
  <2>. QED  BY <2>1, <2>2
<1> HIDE DEF E
<1>7. rank \in Injection(S, 1 .. c) /\ rank \in Surjection(S, 1 .. c)
  BY <1>1, <1>5, <1>6, Ranking
<1>8. \A k \in S : rank[k] \in 1 .. c /\ SuccessEvent(P, k).id = made + rank[k]
  <2>1. \A k \in S : rank[k] \in 1 .. c
    BY <1>7 DEF Injection
  <2>2. \A k \in S : Cardinality(E[k]) \in Nat
    BY <1>1, <1>5, FS_Subset, FS_CardinalityType
  <2>3. \A k \in S : made + Cardinality(E[k]) + 1 = made + rank[k]
    BY <1>3, <2>2
  <2>. QED  BY <1>4, <2>1, <2>3
<1>9. \A i \in 1 .. c : \E k \in S : rank[k] = i
  BY <1>7 DEF Surjection
<1>10. \A j, k \in S : rank[j] = rank[k] => j = k
  BY <1>7 DEF Injection, IsInjective
<1> HIDE DEF rank, c
<1>11. Ids(N) = made + 1 .. made + c
  <2>1. \A x \in Ids(N) : x \in made + 1 .. made + c
    <3> SUFFICES ASSUME NEW k \in S PROVE SuccessEvent(P, k).id \in made + 1 .. made + c
      BY DEF Ids
    <3>. QED  BY <1>3, <1>8
  <2>2. ASSUME NEW x \in made + 1 .. made + c PROVE x \in Ids(N)
    <3>1. x - made \in 1 .. c
      BY <1>3
    <3>2. PICK k \in S : rank[k] = x - made
      BY <1>9, <3>1
    <3>3. SuccessEvent(P, k).id = x
      BY <1>3, <1>8, <3>2
    <3>. QED  BY <3>3 DEF Ids
  <2>. QED  BY <2>1, <2>2
<1>12. UniqueIds(N)
  <2> SUFFICES ASSUME NEW j \in S, NEW k \in S, SuccessEvent(P, j).id = SuccessEvent(P, k).id
               PROVE  j = k
    BY DEF UniqueIds
  <2>1. rank[j] = rank[k]
    BY <1>3, <1>8
  <2>. QED  BY <1>10, <2>1
<1>. QED  BY <1>3, <1>11, <1>12 DEF S, c

LEMMA CommitEvents == ASSUME TypeOK, EInv, NEW t \in Threads, StoreCommit(t) PROVE EInv'
<1>1. /\ pc[t] = "commit" /\ pc' = [pc EXCEPT ![t] = "idle"] /\ UNCHANGED <<batch, fed, cleared>>
  BY DEF StoreCommit
<1>2. \A u \in Threads : pc'[u] # "deliver" => batch[u] = {}
  BY <1>1 DEF EInv, TypeOK
<1>3. PICK j \in job[t] : Overwrite(j) \/ Insert(j)
  BY DEF StoreCommit
<1>4. CASE Overwrite(j)
  BY <1>1, <1>2, <1>4, SameEvents DEF Overwrite
<1>5. CASE Insert(j)
  <2>1. PICK P \in Segments(HeapReady) :
          /\ pending' = pending \cup {SuccessEvent(P, k) : k \in Successes(P)}
          /\ made' = made + Cardinality(Successes(P))
    BY <1>5 DEF Insert
  <2> DEFINE N == {SuccessEvent(P, k) : k \in Successes(P)}
  <2>2. /\ Ids(N) = made + 1 .. made + Cardinality(Successes(P))
        /\ UniqueIds(N) /\ Cardinality(Successes(P)) \in Nat
    BY SuccessIds
  <2>3. pending' = pending \cup N /\ TypeOK /\ made \in Nat
    BY <2>1 DEF TypeOK
  <2> HIDE DEF N
  <2>4. Ids(N) = made + 1 .. made' /\ made' \in Nat /\ made <= made'
    BY <2>1, <2>2, <2>3
  <2>. QED  BY <1>1, <1>2, <2>2, <2>3, <2>4, NewEvents
<1>. QED  BY <1>3, <1>4, <1>5

LEMMA NextEInv == TypeOK /\ EInv /\ [Next]_vars => EInv'
<1> SUFFICES ASSUME TypeOK, EInv, [Next]_vars PROVE EInv'
  OBVIOUS
<1>1. ASSUME NEW t \in Threads, NEW k \in Keys, NEW ttl \in Ttls, NEW sig \in Sigs,
             StoreBegin(t, k, ttl, sig)
      PROVE  EInv'
  <2>1. \A u \in Threads : pc'[u] # "deliver" => batch[u] = {}
    BY <1>1 DEF StoreBegin, EInv, TypeOK
  <2>. QED  BY <1>1, <2>1, SameEvents DEF StoreBegin, eventVars
<1>2. ASSUME UNCHANGED <<pc, pending, batch, fed, made, cleared>> PROVE EInv'
  BY <1>2, SameEvents DEF EInv
<1>3. ASSUME NEW t \in Threads, Call(t) PROVE EInv'
  BY <1>1, <1>3, RetrieveHitEvents DEF Call
<1>4. ASSUME NEW t \in Threads, Continue(t) PROVE EInv'
  BY <1>4, SwapEvents, DeliverEvents, CommitEvents DEF Continue
<1>5. ASSUME NEW k \in Keys, Lookup(k) PROVE EInv'
  BY <1>2, <1>5 DEF Lookup, RetrieveExpired, GetMetadata, Exists, GetEntryStatus, DropExpired,
                    threadVars, eventVars
<1>6. CASE GetStats \/ Tick \/ UNCHANGED vars
  BY <1>2, <1>6 DEF GetStats, Tick, vars, threadVars, eventVars
<1>7. CASE Clear
  BY <1>7, ClearEvents DEF Clear, Ids, threadVars
<1>. QED  BY <1>3, <1>4, <1>5, <1>6, <1>7 DEF Next

LEMMA InitEInv == Init => EInv
<1> SUFFICES ASSUME Init PROVE EInv
  OBVIOUS
<1>1. /\ Ids(pending) = {} /\ Ids(fed) = {} /\ cleared = {} /\ made = 0
      /\ \A t \in Threads : BatchIds[t] = {} /\ batch[t] = {}
  BY DEF Init, Ids, BatchIds
<1>2. 1 .. made = {}
  BY <1>1
<1>3. Parts(made, Ids(pending), BatchIds, Ids(fed), cleared)
  BY <1>1, <1>2 DEF Parts
<1>4. UniqueIds(pending) /\ \A t \in Threads : UniqueIds(batch[t])
  BY DEF Init, UniqueIds
<1>. QED  BY <1>1, <1>3, <1>4 DEF EInv

\* Ids in exactly one part are in exactly one place.
LEMMA OnePlace == EInv => EventsExactlyOnce
<1> SUFFICES ASSUME EInv PROVE EventsExactlyOnce
  OBVIOUS
<1>1. ASSUME NEW i \in 1 .. made PROVE \E p : Places(i) = {p}
  <2>1. /\ \A t \in Threads : BatchIds[t] = Ids(batch[t])
        /\ Parts(made, Ids(pending), BatchIds, Ids(fed), cleared)
    BY DEF EInv, BatchIds
  <2>2. CASE i \in Ids(pending)
    <3>1. i \notin Ids(fed) /\ i \notin cleared /\ \A t \in Threads : i \notin Ids(batch[t])
      BY <2>1, <2>2 DEF Parts
    <3>2. Places(i) = {<<"pending">>}
      BY <2>2, <3>1 DEF Places
    <3>. QED  BY <3>2
  <2>3. CASE i \in Ids(fed)
    <3>1. i \notin Ids(pending) /\ i \notin cleared /\ \A t \in Threads : i \notin Ids(batch[t])
      BY <2>1, <2>3 DEF Parts
    <3>2. Places(i) = {<<"fed">>}
      BY <2>3, <3>1 DEF Places
    <3>. QED  BY <3>2
  <2>4. CASE i \in cleared
    <3>1. i \notin Ids(pending) /\ i \notin Ids(fed) /\ \A t \in Threads : i \notin Ids(batch[t])
      BY <2>1, <2>4 DEF Parts
    <3>2. Places(i) = {<<"cleared">>}
      BY <2>4, <3>1 DEF Places
    <3>. QED  BY <3>2
  <2>5. CASE \E t \in Threads : i \in Ids(batch[t])
    <3>1. PICK t \in Threads : i \in Ids(batch[t])
      BY <2>5
    <3>2. /\ i \notin Ids(pending) /\ i \notin Ids(fed) /\ i \notin cleared
          /\ \A u \in Threads : i \in Ids(batch[u]) => u = t
      BY <2>1, <3>1 DEF Parts
    <3>3. {u \in Threads : i \in Ids(batch[u])} = {t}
      BY <3>1, <3>2
    <3>4. Places(i) = {<<"batch", t>>}
      BY <3>2, <3>3 DEF Places
    <3>. QED  BY <3>4
  <2>. QED  BY <2>1, <2>2, <2>3, <2>4, <2>5 DEF Parts
<1>2. \A i \in 1 .. made : Cardinality(Places(i)) = 1
  BY <1>1, FS_Singleton
<1>3. Ids(pending) \cup Ids(fed) \cup cleared \subseteq 1 .. made
  BY DEF EInv, Parts
<1>. QED  BY <1>2, <1>3 DEF EventsExactlyOnce

\* However many threads swap the queue and forward their batches at once, no
\* feedback event is lost, forwarded twice or numbered twice.
THEOREM EventsOnce == Spec => []EventsExactlyOnce
BY TypeCorrect, InitEInv, NextEInv, OnePlace, PTL DEF Spec

=============================================================================
