----------------------- MODULE CompressionStoreRestart -----------------------
(***************************************************************************)
(* The CCR store over SQLiteBackend when things go wrong around it.        *)
(*                                                                         *)
(* The proxy restarts: the database keeps the entries, while               *)
(* CompressionStore.__init__ starts with an empty heap, a zero stale       *)
(* counter and no queued feedback, whatever the database holds.            *)
(*                                                                         *)
(* One call of the backend fails: a locked or failing database makes a     *)
(* read a miss and a write a no-op (SQLiteBackend._handle_db_error), and   *)
(* the store's method goes on.  A corrupt file is replaced by an empty one *)
(* by the first call that meets it.                                        *)
(***************************************************************************)
EXTENDS CompressionStore

CONSTANTS
    MaxRestarts,    \* bound: restarts in a behaviour
    MaxFaults       \* bound: calls of the backend that fail

ASSUME RestartAssumption == MaxRestarts \in Nat /\ MaxFaults \in Nat

VARIABLES
    restarts,       \* restarts so far
    faults          \* failed calls so far

restartVars == <<vars, restarts, faults>>

RestartInit == Init /\ restarts = 0 /\ faults = 0

\* The process ends, wherever its threads are, and comes back: SQLiteBackend._open
\* sweeps the expired rows, everything in memory starts anew.
Restart ==
    /\ sqlite /\ restarts < MaxRestarts
    /\ restarts' = restarts + 1
    /\ store' = Only(Unexpired)
    /\ heap' = {} /\ stale' = 0
    /\ pending' = {}
    /\ cleared' = cleared \cup Ids(pending) \cup UNION {Ids(batch[t]) : t \in Threads}
    /\ pc' = [t \in Threads |-> "idle"]
    /\ job' = [t \in Threads |-> {}]
    /\ batch' = [t \in Threads |-> {}]
    /\ UNCHANGED <<now, fed, made, stores, sqlite, faults>>

-----------------------------------------------------------------------------
(* _evict_if_needed with one failed call.                                   *)

\* _clean_expired: items() fails and nothing is swept, or the delete of d fails
\* and is counted all the same.
Sweep == [left |-> Unexpired, stale |-> StaleCleaned]
FaultySweeps ==
    {[left |-> live, stale |-> stale]}
    \cup {[left |-> Unexpired \cup {d}, stale |-> StaleCleaned] : d \in live \ Unexpired}

\* The heap and the counter with which the loop begins after the sweep w.
Rebuilds(w) == heap # {} /\ 2 * w.stale >= Cardinality(heap)
LoopStart(w) ==
    IF Rebuilds(w)
    THEN [heap |-> {[at |-> store[k].created, key |-> k, n |-> 0] : k \in w.left}, stale |-> 0]
    ELSE [heap |-> heap, stale |-> w.stale]

\* The tuples of P that find their entry, among the keys K, when popped in order.
Evicting(K, P) ==
    LET finds(r) == r.key \in K /\ r.at = store[r.key].created
    IN  {r \in P : finds(r) /\ \A q \in P : finds(q) /\ q.key = r.key => ~Before(q, r)}
EvictedKeys(K, P) == {r.key : r \in Evicting(K, P)}

\* P is what the loop pops if the tuples x do not evict.
PopsBut(K, h, x, P) ==
    LET ends(Q) == Cardinality(K \ EvictedKeys(K, Q \ x)) < MaxEntries \/ Q = h
    IN  /\ P \in Segments(h) /\ ends(P)
        /\ \A Q \in Segments(h) : ends(Q) => P \subseteq Q

\* The end of the pass and of store(): K and h0 as the loop found them, P popped,
\* x among them without effect on the entries, reported all the same or not.
Finish(j, K, h0, P, x, reported, stored) ==
    LET kept == K \ EvictedKeys(K, P \ x)
        found == Evicting(K, P \ x) \cup reported
        missed == Cardinality(P \ found)
        news == {r \in found : ~store[r.key].retrieved /\ store[r.key].sig}
    IN  /\ store' \in IF stored
                      THEN AfterSet([k \in kept \cup {j.key} |->
                                        IF k = j.key THEN NewEntry(j, FALSE) ELSE store[k]])
                      ELSE {Only(kept)}
        /\ stale' = IF missed <= h0.stale THEN h0.stale - missed ELSE 0
        /\ heap' = Push(h0.heap \ P, j.at, j.key)
        /\ pending' = pending \cup
               {[id |-> made + 1 + Cardinality({q \in news : Before(q, r)}),
                 kind |-> "eviction_success", key |-> r.key, sig |-> TRUE] : r \in news}
        /\ made' = made + Cardinality(news)

\* The pass in which nothing fails.
Pass(j, w, stored) ==
    \E P \in Segments(LoopStart(w).heap) :
        /\ PopsBut(w.left, LoopStart(w).heap, {}, P)
        /\ Finish(j, w.left, LoopStart(w), P, {}, {}, stored)

\* The second section of store() with one failed call.
FaultyStore(j) ==
    LET h0 == LoopStart(Sweep)
    IN  \* get() of the key fails, and a present key is taken for a new one
        \/ j.key \in live /\ Pass(j, Sweep, TRUE)
        \* set() fails after an overwrite was counted, or after room was made
        \/ /\ j.key \in live
           /\ stale' = stale + 1 /\ heap' = Push(heap, j.at, j.key)
           /\ UNCHANGED <<store, pending, made>>
        \/ j.key \notin live /\ Pass(j, Sweep, FALSE)
        \* the sweep fails, or items() when the heap is rebuilt from it
        \/ j.key \notin live /\ \E w \in FaultySweeps : Pass(j, w, TRUE)
        \/ /\ j.key \notin live /\ Rebuilds(Sweep)
           /\ Finish(j, Unexpired, [heap |-> {}, stale |-> 0], {}, {}, {}, TRUE)
        \* in the loop, count() fails and reads as zero
        \/ /\ j.key \notin live
           /\ \E P, Q \in Segments(h0.heap) :
                 /\ PopsBut(Unexpired, h0.heap, {}, P) /\ Q \subseteq P
                 /\ Finish(j, Unexpired, h0, Q, {}, {}, TRUE)
        \* get() of a popped tuple fails, or the delete() after it
        \/ /\ j.key \notin live
           /\ \E P \in Segments(h0.heap) : \E r \in Evicting(Unexpired, P) :
                 /\ PopsBut(Unexpired, h0.heap, {r}, P)
                 /\ \E reported \in {{}, {r}} :
                       Finish(j, Unexpired, h0, P, {r}, reported, TRUE)

FaultyCommit(t) ==
    /\ pc[t] = "commit"
    /\ \E j \in job[t] : FaultyStore(j)
    /\ pc' = [pc EXCEPT ![t] = "idle"]
    /\ job' = [job EXCEPT ![t] = {}]
    /\ UNCHANGED <<now, batch, fed, cleared, stores, sqlite>>

-----------------------------------------------------------------------------
(* The other methods with one failed call.                                  *)

\* retrieve(): set() fails, so the access is not recorded but reported.
FaultyRetrieve(t, k) ==
    /\ pc[t] = "idle" /\ made < MaxEvents
    /\ k \in live /\ ~Expired(k)
    /\ pending' = pending \cup
            {[id |-> made + 1, kind |-> "full", key |-> k, sig |-> store[k].sig]}
    /\ made' = made + 1
    /\ pc' = [pc EXCEPT ![t] = "swap"]
    /\ UNCHANGED <<now, store, heap, stale, job, batch, fed, cleared, stores, sqlite>>

\* process_pending_feedback: the queue has been reset when the get() for one event
\* fails; the event goes on without its entry's signature.
FaultySwap(t) ==
    /\ pc[t] = "swap"
    /\ \E lost \in pending :
          batch' = [batch EXCEPT ![t] =
              {[id |-> e.id, kind |-> e.kind, key |-> e.key, sig |-> e.sig,
                known |-> e # lost /\ e.key \in live /\ store[e.key].sig] : e \in pending}]
    /\ pending' = {}
    /\ pc' = [pc EXCEPT ![t] = "deliver"]
    /\ UNCHANGED <<now, store, heap, stale, job, fed, made, cleared, stores, sqlite>>

\* A lookup: the delete() of the expired entry fails and is counted all the same.
FaultyLookup(k) ==
    /\ k \in live /\ Expired(k)
    /\ stale' = stale + 1
    /\ UNCHANGED <<now, store, heap, stores, sqlite, threadVars, eventVars>>

\* get_stats
FaultyStats ==
    /\ \E w \in FaultySweeps : store' = Only(w.left) /\ stale' = w.stale
    /\ UNCHANGED <<now, heap, stores, sqlite, threadVars, eventVars>>

\* clear(): the rows stay, what is in memory goes.
FaultyClear ==
    /\ heap' = {} /\ stale' = 0
    /\ pending' = {}
    /\ cleared' = cleared \cup Ids(pending)
    /\ UNCHANGED <<now, store, stores, sqlite, threadVars, fed, made>>

\* _handle_db_error: a corrupt file is replaced by an empty one.
Corruption ==
    /\ store' = Only({})
    /\ UNCHANGED <<now, heap, stale, stores, sqlite, threadVars, eventVars>>

Fault ==
    /\ sqlite /\ faults < MaxFaults
    /\ faults' = faults + 1
    /\ \/ \E t \in Threads :
             FaultyCommit(t) \/ FaultySwap(t) \/ \E k \in Keys : FaultyRetrieve(t, k)
       \/ \E k \in Keys : FaultyLookup(k)
       \/ FaultyStats \/ FaultyClear \/ Corruption
    /\ UNCHANGED restarts

-----------------------------------------------------------------------------
RestartNext ==
    \/ Next /\ UNCHANGED <<restarts, faults>>
    \/ Restart
    \/ Fault

RestartSpec == RestartInit /\ [][RestartNext]_restartVars

\* _evict_if_needed cannot reach an entry that is older than the process, or whose
\* tuple a failed call used up, so the store may exceed max_entries; but by at
\* most one entry for each restart and each failed call.
CapacityDrift == Cardinality(live) <= MaxEntries + restarts + faults

\* A restart or a failed call can only lose events: none is forwarded twice.
RestartEventsAtMostOnce == \A i \in 1 .. made : Cardinality(Places(i)) = 1
=============================================================================
