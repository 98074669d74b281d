-------------------------- MODULE CompressionStore --------------------------
(***************************************************************************)
(* The CCR store of headroom/cache/compression_store.py: originals of      *)
(* compressed content, kept by hash until they expire or are evicted, and  *)
(* the feedback events that retrievals and evictions leave behind.         *)
(*                                                                         *)
(* Threads call one store under one lock.  An action is one section that   *)
(* holds the lock, or one step between two such sections.  A key stands    *)
(* for a hash; keys are numbers because the eviction heap orders tuples    *)
(* (created_at, hash_key).  The backend is InMemoryBackend or, by default, *)
(* SQLiteBackend, of one process and without I/O errors.  Feedback is      *)
(* enabled, as in every construction of the global store.  The display log *)
(* _retrieval_events, which nothing reads back into the store, and payload *)
(* text are left out.                                                      *)
(***************************************************************************)
EXTENDS Naturals, FiniteSets

CONSTANTS
    Keys,           \* hashes
    Threads,        \* callers' threads
    MaxEntries,     \* max_entries
    Ttls,           \* TTLs callers pass (default_ttl among them)
    Backends,       \* values of sqlite explored
    Sigs,           \* whether a caller passes tool_signature_hash and strategy
    MaxTime,        \* bound: last instant of the clock
    MaxStores,      \* bound: calls of store(), for each value of sqlite
    MaxEvents       \* bound: feedback events a retrieval may still add to

ASSUME KeysAssumption == Keys \subseteq Nat /\ IsFiniteSet(Keys)
ASSUME MaxEntriesAssumption == MaxEntries \in Nat \ {0}
ASSUME ParamAssumption == Ttls \subseteq Nat /\ Sigs \subseteq BOOLEAN
ASSUME BackendAssumption == Backends \subseteq BOOLEAN
ASSUME BoundAssumption ==
    MaxTime \in Nat /\ MaxStores \in [BOOLEAN -> Nat] /\ MaxEvents \in Nat

VARIABLES
    now,        \* time.time()
    store,      \* _backend: key -> entry, for the keys present
    heap,       \* _eviction_heap; n tells equal (created_at, hash_key) tuples apart
    stale,      \* _stale_heap_entries
    pending,    \* _pending_feedback_events; ids number the events in queue order
    pc,         \* where each thread is
    job,        \* store(): the new entry, in a set; empty in other calls
    batch,      \* event_data of process_pending_feedback, not yet forwarded
    fed,        \* events forwarded to feedback, and to TOIN where known
    made,       \* events created so far
    cleared,    \* ids clear() threw away
    stores,     \* calls of store() so far
    sqlite      \* the backend is SQLiteBackend

threadVars == <<pc, job, batch>>
eventVars == <<pending, fed, made, cleared>>
vars == <<now, store, heap, stale, pending, pc, job, batch, fed, made, cleared, stores,
          sqlite>>

\* used is a history field: retrieved at some time since the key became present.
Entry == [created : Nat, ttl : Nat, sig : BOOLEAN, retrieved : BOOLEAN, used : BOOLEAN]
Job == [key : Keys, at : Nat, ttl : Nat, sig : BOOLEAN]
HeapItem == [at : Nat, key : Keys, n : Nat]
Kinds == {"full", "eviction_success"}
\* sig: the retrieved or evicted entry had a signature;
\* known: process_pending_feedback still found the entry, and its signature.
Event == [id : Nat, kind : Kinds, key : Keys, sig : BOOLEAN]
Datum == [id : Nat, kind : Kinds, key : Keys, sig : BOOLEAN, known : BOOLEAN]

TypeOK ==
    /\ now \in Nat /\ stale \in Nat /\ made \in Nat /\ stores \in Nat
    /\ DOMAIN store \subseteq Keys /\ store \in [DOMAIN store -> Entry]
    /\ heap \subseteq HeapItem
    /\ pending \subseteq Event
    /\ pc \in [Threads -> {"idle", "swap", "deliver", "commit"}]
    /\ job \in [Threads -> SUBSET Job]
    /\ batch \in [Threads -> SUBSET Datum]
    /\ fed \subseteq Datum
    /\ cleared \subseteq Nat
    /\ sqlite \in BOOLEAN

Init ==
    /\ now = 0 /\ stale = 0 /\ made = 0 /\ stores = 0 /\ sqlite \in Backends
    /\ store = [k \in {} |-> 0]
    /\ heap = {} /\ pending = {} /\ fed = {} /\ cleared = {}
    /\ pc = [t \in Threads |-> "idle"]
    /\ job = [t \in Threads |-> {}]
    /\ batch = [t \in Threads |-> {}]

-----------------------------------------------------------------------------
live == DOMAIN store

\* CompressionEntry.is_expired
IsExpired(e) == now > e.created + e.ttl
Expired(k) == IsExpired(store[k])

\* The backend without the entries outside K.
Only(K) == [k \in K |-> store[k]]

\* The backend after a set that makes it s: SQLiteBackend.set purges the expired
\* rows if it last did so a minute ago, and does not tell the heap.
AfterSet(s) ==
    {s} \cup (IF sqlite
              THEN {[k \in {i \in DOMAIN s : ~IsExpired(s[i])} |-> s[k]]}
              ELSE {})

\* Mutation: tuples ordered by hash first.
BeforeByKey(r, s) ==
    \/ r.key < s.key
    \/ r.key = s.key /\ r.at < s.at
    \/ r.key = s.key /\ r.at = s.at /\ r.n < s.n

\* heapq's order of the tuples, n breaking ties.
Before(r, s) ==
    \/ r.at < s.at
    \/ r.at = s.at /\ r.key < s.key
    \/ r.at = s.at /\ r.key = s.key /\ r.n < s.n

\* What a run of heappops may have taken: everything up to some tuple.
Segments(h) == {{}} \cup {{s \in h : ~Before(r, s)} : r \in h}

\* heappush of (at, k), a tuple that may already be there.
Push(h, at, k) ==
    LET n == CHOOSE i \in 0 .. Cardinality(h) : [at |-> at, key |-> k, n |-> i] \notin h
    IN  h \cup {[at |-> at, key |-> k, n |-> n]}

-----------------------------------------------------------------------------
(* _evict_if_needed, a function of the state at its start.                  *)

\* _clean_expired: the keys it leaves and the stale counter it leaves.
Unexpired == {k \in live : ~Expired(k)}
StaleCleaned == stale + Cardinality(live \ Unexpired)

\* Mutation: the heap is never rebuilt.
NeedsRebuildNever == FALSE

\* _rebuild_heap, when half of the heap is believed stale.
NeedsRebuild == heap # {} /\ 2 * StaleCleaned >= Cardinality(heap)
RebuiltHeap == {[at |-> store[k].created, key |-> k, n |-> 0] : k \in Unexpired}
HeapReady == IF NeedsRebuild THEN RebuiltHeap ELSE heap
StaleReady == IF NeedsRebuild THEN 0 ELSE StaleCleaned

\* The loop after popping P: the entries P evicts, the ones it keeps.
Evicts(P) == {k \in Unexpired : \E r \in P : r.key = k /\ r.at = store[k].created}
Keeps(P) == Unexpired \ Evicts(P)

\* Mutation: the loop tests count() > max_entries.
LoopEndsLate(P) == Cardinality(Keeps(P)) <= MaxEntries \/ P = HeapReady

LoopEnds(P) == Cardinality(Keeps(P)) < MaxEntries \/ P = HeapReady

\* P is what the loop pops: the first point at which its condition fails.
LoopPops(P) ==
    /\ P \in Segments(HeapReady)
    /\ LoopEnds(P)
    /\ \A Q \in Segments(HeapReady) : LoopEnds(Q) => P \subseteq Q

\* Mutation: every pop decrements the counter, without a test.
StalePoppedEvery(P) == StaleReady - Cardinality(P)

\* Pops that matched no entry decrement the counter, not below zero.
StalePopped(P) ==
    LET missed == Cardinality(P) - Cardinality(Evicts(P))
    IN  IF missed <= StaleReady THEN StaleReady - missed ELSE 0

\* _record_eviction_success: never retrieved and with a signature.
Successes(P) == {k \in Evicts(P) : ~store[k].retrieved /\ store[k].sig}

\* Its place in the queue is its place in the order of pops.
SuccessEvent(P, k) ==
    LET earlier == {j \in Successes(P) :
                        \/ store[j].created < store[k].created
                        \/ store[j].created = store[k].created /\ j < k}
    IN  [id |-> made + Cardinality(earlier) + 1, kind |-> "eviction_success",
         key |-> k, sig |-> TRUE]

-----------------------------------------------------------------------------
(* store()                                                                  *)

\* Up to process_pending_feedback: created_at is read before any lock.
StoreBegin(t, k, ttl, sig) ==
    /\ pc[t] = "idle" /\ stores < MaxStores[sqlite]
    /\ stores' = stores + 1
    /\ job' = [job EXCEPT ![t] = {[key |-> k, at |-> now, ttl |-> ttl, sig |-> sig]}]
    /\ pc' = [pc EXCEPT ![t] = "swap"]
    /\ UNCHANGED <<now, store, heap, stale, batch, eventVars, sqlite>>

NewEntry(j, used) ==
    [created |-> j.at, ttl |-> j.ttl, sig |-> j.sig, retrieved |-> FALSE, used |-> used]

\* Mutation: heappush only for a new key.
OverwriteNoPush(j) ==
    /\ j.key \in live
    /\ store' \in AfterSet([store EXCEPT ![j.key] = NewEntry(j, store[j.key].used)])
    /\ stale' = stale + 1
    /\ UNCHANGED <<heap, pending, made>>

\* Mutation: _evict_if_needed runs before the test for an existing key.
OverwriteEvictFirst(j) ==
    /\ j.key \in live
    /\ \E P \in Segments(HeapReady) :
        /\ LoopPops(P)
        /\ store' \in AfterSet([k \in Keeps(P) \cup {j.key} |->
                        IF k = j.key THEN NewEntry(j, FALSE) ELSE store[k]])
        /\ stale' = StalePopped(P)
        /\ heap' = Push(HeapReady \ P, j.at, j.key)
    /\ UNCHANGED <<pending, made>>

\* The key is present, expired or not: overwritten in place, nothing evicted.
Overwrite(j) ==
    /\ j.key \in live
    /\ store' \in AfterSet([store EXCEPT ![j.key] = NewEntry(j, store[j.key].used)])
    /\ stale' = stale + 1
    /\ heap' = Push(heap, j.at, j.key)
    /\ UNCHANGED <<pending, made>>

\* A new key: make room, then insert.
Insert(j) ==
    /\ j.key \notin live
    /\ \E P \in Segments(HeapReady) :
        /\ LoopPops(P)
        /\ store' \in AfterSet([k \in Keeps(P) \cup {j.key} |->
                        IF k = j.key THEN NewEntry(j, FALSE) ELSE store[k]])
        /\ stale' = StalePopped(P)
        /\ heap' = Push(HeapReady \ P, j.at, j.key)
        /\ pending' = pending \cup {SuccessEvent(P, k) : k \in Successes(P)}
        /\ made' = made + Cardinality(Successes(P))

StoreCommit(t) ==
    /\ pc[t] = "commit"
    /\ \E j \in job[t] : Overwrite(j) \/ Insert(j)
    /\ pc' = [pc EXCEPT ![t] = "idle"]
    /\ job' = [job EXCEPT ![t] = {}]
    /\ UNCHANGED <<now, batch, fed, cleared, stores, sqlite>>

-----------------------------------------------------------------------------
(* process_pending_feedback, called by store() and by a retrieve() that hit *)

AfterFeedback(t) == IF job[t] = {} THEN "idle" ELSE "commit"

\* Mutation: the queue is copied and not reset.
SwapNoReset(t) ==
    /\ pc[t] = "swap"
    /\ batch' = [batch EXCEPT ![t] =
            {[id |-> e.id, kind |-> e.kind, key |-> e.key, sig |-> e.sig,
              known |-> e.key \in live /\ store[e.key].sig] : e \in pending}]
    /\ pc' = [pc EXCEPT ![t] = IF pending = {} THEN AfterFeedback(t) ELSE "deliver"]
    /\ UNCHANGED <<now, store, heap, stale, pending, job, fed, made, cleared, stores, sqlite>>

\* Under the lock: swap the queue out, look each event's entry up.
Swap(t) ==
    /\ pc[t] = "swap"
    /\ batch' = [batch EXCEPT ![t] =
            {[id |-> e.id, kind |-> e.kind, key |-> e.key, sig |-> e.sig,
              known |-> e.key \in live /\ store[e.key].sig] : e \in pending}]
    /\ pending' = {}
    /\ pc' = [pc EXCEPT ![t] = IF pending = {} THEN AfterFeedback(t) ELSE "deliver"]
    /\ UNCHANGED <<now, store, heap, stale, job, fed, made, cleared, stores, sqlite>>

\* Outside the lock: the next event goes to feedback, and to telemetry and TOIN
\* if the signature is known.
Deliver(t) ==
    /\ pc[t] = "deliver"
    /\ \E d \in batch[t] :
        /\ \A x \in batch[t] : d.id <= x.id
        /\ fed' = fed \cup {d}
        /\ batch' = [batch EXCEPT ![t] = @ \ {d}]
        /\ pc' = [pc EXCEPT ![t] = IF batch[t] = {d} THEN AfterFeedback(t) ELSE @]
    /\ UNCHANGED <<now, store, heap, stale, pending, job, made, cleared, stores, sqlite>>

-----------------------------------------------------------------------------
(* retrieve() and the other operations that hold the lock once              *)

\* CompressionEntry.record_access
Accessed(e) == [e EXCEPT !.retrieved = TRUE, !.used = TRUE]

\* Mutation: retrieve() returns without processing the queue.
RetrieveHitNoFeedback(t, k) ==
    /\ pc[t] = "idle" /\ made < MaxEvents
    /\ k \in live /\ ~Expired(k)
    /\ store' \in AfterSet([store EXCEPT ![k] = Accessed(@)])
    /\ pending' = pending \cup
            {[id |-> made + 1, kind |-> "full", key |-> k, sig |-> store[k].sig]}
    /\ made' = made + 1
    /\ UNCHANGED <<now, heap, stale, stores, sqlite, threadVars, fed, cleared>>

\* A hit: count the access, queue the event, then process the queue.
RetrieveHit(t, k) ==
    /\ pc[t] = "idle" /\ made < MaxEvents
    /\ k \in live /\ ~Expired(k)
    /\ store' \in AfterSet([store EXCEPT ![k] = Accessed(@)])
    /\ pending' = pending \cup
            {[id |-> made + 1, kind |-> "full", key |-> k, sig |-> store[k].sig]}
    /\ made' = made + 1
    /\ pc' = [pc EXCEPT ![t] = "swap"]
    /\ UNCHANGED <<now, heap, stale, job, batch, fed, cleared, stores, sqlite>>

\* Mutation: the stale counter is not incremented.
DropExpiredUncounted(k) ==
    /\ k \in live /\ Expired(k)
    /\ store' = Only(live \ {k})
    /\ UNCHANGED <<now, heap, stale, stores, sqlite, threadVars, eventVars>>

\* The lookups delete the entry they find expired; the heap keeps its tuple.
DropExpired(k) ==
    /\ k \in live /\ Expired(k)
    /\ store' = Only(live \ {k})
    /\ stale' = stale + 1
    /\ UNCHANGED <<now, heap, stores, sqlite, threadVars, eventVars>>

RetrieveExpired(k) == DropExpired(k)

GetMetadata(k) == DropExpired(k)

\* exists and get_entry_status, with clean_expired
Exists(k) == DropExpired(k)

GetEntryStatus(k) == DropExpired(k)

\* get_stats sweeps every expired entry first.
GetStats ==
    /\ Unexpired # live
    /\ store' = Only(Unexpired)
    /\ stale' = StaleCleaned
    /\ UNCHANGED <<now, heap, stores, sqlite, threadVars, eventVars>>

Clear ==
    /\ store' = Only({})
    /\ heap' = {} /\ stale' = 0
    /\ pending' = {}
    /\ cleared' = cleared \cup {e.id : e \in pending}
    /\ UNCHANGED <<now, stores, sqlite, threadVars, fed, made>>

Tick ==
    /\ now < MaxTime
    /\ now' = now + 1
    /\ UNCHANGED <<store, heap, stale, stores, sqlite, threadVars, eventVars>>

-----------------------------------------------------------------------------
\* A call under way: what its thread does next without a new request.
Continue(t) == Swap(t) \/ Deliver(t) \/ StoreCommit(t)

Call(t) ==
    \E k \in Keys :
        \/ RetrieveHit(t, k)
        \/ \E ttl \in Ttls, sig \in Sigs : StoreBegin(t, k, ttl, sig)

Lookup(k) == RetrieveExpired(k) \/ GetMetadata(k) \/ Exists(k) \/ GetEntryStatus(k)

Next ==
    \/ \E t \in Threads : Call(t) \/ Continue(t)
    \/ \E k \in Keys : Lookup(k)
    \/ GetStats \/ Clear \/ Tick

Spec == Init /\ [][Next]_vars

\* Threads keep running: a call that has begun goes on to its end.
FairSpec == Spec /\ \A t \in Threads : WF_vars(Continue(t))

-----------------------------------------------------------------------------
\* store(), _evict_if_needed: whatever threads store at once, the store never
\* holds more than max_entries ("Maximum number of entries to store").
CapacityBound == Cardinality(live) <= MaxEntries

\* Every entry present has its tuple in the heap, so eviction can reach it: no
\* order of stores, re-stores, expiries, rebuilds and evictions leaves an entry
\* that only expiry can remove.
HeapCoversStore ==
    \A k \in live : \E r \in heap : r.key = k /\ r.at = store[k].created

\* _stale_heap_entries counts exactly the tuples that stand for no entry, so the
\* ratio that triggers _rebuild_heap is the true one and the clamp at zero is never
\* needed; rows SQLiteBackend purges by itself are the only ones it misses.
HeapAccounting ==
    /\ Cardinality(live) + stale <= Cardinality(heap)
    /\ ~sqlite => Cardinality(live) + stale = Cardinality(heap)

\* _evict_if_needed: "prevents unbounded heap growth when entries are deleted or
\* replaced": however many re-stores and expiries have left stale tuples behind,
\* a store of a new key leaves fewer than two tuples for each entry there may be.
\* It needs an exact counter: with SQLiteBackend purging rows it does not hold.
HeapBounded ==
    [][\A t \in Threads : \A j \in job[t] :
          ~sqlite /\ pc[t] = "commit" /\ pc'[t] = "idle" /\ j.key \notin live
             => Cardinality(heap') <= 2 * MaxEntries - 1]_vars

\* The key a step has just stored.
StoredNow(k) == \E t \in Threads : job'[t] = {} /\ \E j \in job[t] : j.key = k

\* An entry that a step removed though it had not expired, and neither clear()
\* nor the caller's own store of the key removed it.
EvictedNow(k) ==
    /\ k \in live \ DOMAIN store' /\ ~Expired(k)
    /\ DOMAIN store' # {} /\ ~StoredNow(k)

\* _evict_if_needed: "remove oldest entries using heap": an evicted entry is older
\* than every entry that stays, even where created_at was read in another order
\* than the entries were stored.  Old is by created_at: a retrieval does not make
\* an entry younger, so one that was just retrieved goes before a later one that
\* nobody ever asked for.  The class docstring (compression_store.py:203) calls
\* this "LRU-style eviction"; it is not LRU, and the property says what it is.
OldestFirst ==
    [][\A k \in Keys : EvictedNow(k) =>
         \A j \in live \cap DOMAIN store' :
             \/ store[k].created < store[j].created
             \/ store[k].created = store[j].created /\ k < j]_vars

\* store(): evicting is only ever the price of a new key: the step that evicts an
\* unexpired entry stores a key that was absent and frees exactly one place.
EvictsOnlyForRoom ==
    [][(\E k \in Keys : EvictedNow(k)) =>
         /\ \E k \in Keys \ live : StoredNow(k)
         /\ Cardinality(live \cap DOMAIN store') = MaxEntries - 1]_vars

Ids(S) == {e.id : e \in S}

\* Where an event is: queued, in the hands of a thread, forwarded, or cleared.
Places(i) ==
    (IF i \in Ids(pending) THEN {<<"pending">>} ELSE {})
    \cup {<<"batch", t>> : t \in {u \in Threads : i \in Ids(batch[u])}}
    \cup (IF i \in Ids(fed) THEN {<<"fed">>} ELSE {})
    \cup (IF i \in cleared THEN {<<"cleared">>} ELSE {})

\* process_pending_feedback: however many threads swap the queue, no feedback event
\* is lost or forwarded twice.
EventsExactlyOnce ==
    /\ \A i \in 1 .. made : Cardinality(Places(i)) = 1
    /\ Ids(pending) \cup Ids(fed) \cup cleared \subseteq 1 .. made

\* retrieve(): "Process feedback immediately to ensure TOIN learns in real-time":
\* the event of a retrieval reaches the feedback system unless clear() drops it.
RetrievalFeedbackDelivered ==
    \A i \in 1 .. MaxEvents :
        (\E e \in pending : e.id = i /\ e.kind = "full") ~> (i \in Ids(fed) \cup cleared)

-----------------------------------------------------------------------------
(* Statements of the code's comments that the code does not keep.           *)

\* An eviction_success event "must not be counted as a retrieval"; telemetry and
\* TOIN count every event whose entry they are given.
OnlyRetrievalsCounted == \A d \in fed : d.known => d.kind = "full"

\* "Record successful compression when an entry is evicted without retrieval":
\* none of its stores since the key became present was retrieved.
SuccessMeansNeverRetrieved ==
    [][\A e \in pending' \ pending : e.kind = "eviction_success" => ~store[e.key].used]_vars
=============================================================================
