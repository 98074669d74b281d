---------------------- MODULE CompressionExecutorProofs ----------------------
(***************************************************************************)
(* Proofs about the compression executor for every number of calls, of     *)
(* workers and every breaker threshold.  The gauges are integers kept by   *)
(* two racing halves; the flags of the calls say what they should be.  The *)
(* proof ties the flags to where coroutine and thread are (Flags), and the *)
(* gauges to the flags.                                                    *)
(***************************************************************************)
EXTENDS CompressionExecutor, FiniteSetTheorems, TLAPS

Running == {"started", "inside", "ended", "done"}

\* Where coroutine and thread of a call are, as its flags tell it.
Flags ==
    /\ started = {c \in Calls : run[c] \in Running}
    /\ finished = {c \in Calls : run[c] = "done"}
    /\ timedOut = {c \in Calls : pc[c] = "timed_out"}
    /\ early \subseteq finished \cap timedOut
    /\ \A c \in Calls : pc[c] \in {"new", "skipped", "checked"} => run[c] = "none"
    /\ busy # NoCall => pc[busy] = "checked"

Streaks == breakerFailures <= streak

IInv == TypeOK /\ Flags /\ QueuedCountsCancelled /\ DebtExact /\ GaugesExact /\ LeakedExact /\ Streaks

-----------------------------------------------------------------------------
(* Counting: one element joins or leaves a set of calls. *)

LEMMA FiniteCalls == ASSUME NEW S \in SUBSET Calls
                     PROVE  IsFiniteSet(S) /\ Cardinality(S) \in Nat
BY CallsAssumption, FS_Subset, FS_CardinalityType

LEMMA Joins ==
    ASSUME NEW S \in SUBSET Calls, NEW c \in Calls, c \notin S
    PROVE  Cardinality(S \cup {c}) = Cardinality(S) + 1
BY FiniteCalls, FS_AddElement

LEMMA Leaves ==
    ASSUME NEW S \in SUBSET Calls, NEW c \in Calls
    PROVE  /\ Cardinality(S \ {c}) = Cardinality(S) - (IF c \in S THEN 1 ELSE 0)
           /\ Cardinality(S \ {c}) \in Nat
<1>1. Cardinality(S \ {c}) = IF c \in S THEN Cardinality(S) - 1 ELSE Cardinality(S)
  BY FiniteCalls, FS_RemoveElement
<1>2. Cardinality(S) \in Nat /\ Cardinality(S \ {c}) \in Nat
  BY FiniteCalls
<1> QED
  BY <1>1, <1>2

-----------------------------------------------------------------------------
(* The inductive invariant. *)

LEMMA InitInv == Init => IInv
<1> SUFFICES ASSUME Init PROVE IInv
  OBVIOUS
<1>1. TypeOK
  BY ThresholdAssumption DEF Init, TypeOK, Coroutine, Future
<1>2. Flags
  BY CallsAssumption DEF Init, Flags, Running
<1>3. QueuedCountsCancelled /\ DebtExact /\ Streaks
  BY DEF Init, QueuedCountsCancelled, DebtExact, Streaks
<1>4. GaugesExact /\ LeakedExact
  <2>1. queuedFlag = {} /\ started \ finished = {} /\ debtRecorded = {}
        /\ (timedOut \cap finished) \ early = {}
    BY DEF Init
  <2> QED
    BY <2>1, FS_EmptySet DEF Init, GaugesExact, LeakedExact
<1> QED
  BY <1>1, <1>2, <1>3, <1>4 DEF IInv

\* What depends on variables that a step leaves alone is kept.
LEMMA CheckInv == ASSUME IInv, NEW c \in Calls, Check(c) PROVE IInv'
<1>1. TypeOK'
  <2>1. pc' \in [Calls -> Coroutine] /\ busy' \in Calls \cup {NoCall}
    BY DEF IInv, Check, TypeOK, Coroutine
  <2>2. quarantineSkips' \in Nat
    BY DEF IInv, Check, TypeOK
  <2> QED
    BY <2>1, <2>2 DEF IInv, Check, TypeOK, flags, breaker
<1>2. Flags'
  BY CallsAssumption DEF IInv, Check, Flags, TypeOK, flags
<1>3. QueuedCountsCancelled' /\ DebtExact' /\ Streaks'
  BY DEF IInv, Check, QueuedCountsCancelled, DebtExact, Streaks, flags, breaker
<1>4. GaugesExact' /\ LeakedExact'
  BY DEF IInv, Check, GaugesExact, LeakedExact, flags
<1> QED
  BY <1>1, <1>2, <1>3, <1>4 DEF IInv

LEMMA SubmitInv == ASSUME IInv, NEW c \in Calls, Submit(c) PROVE IInv'
<1>0. busy = c /\ busy # NoCall /\ pc[c] = "checked" /\ run[c] = "none"
  BY CallsAssumption DEF IInv, Submit, Flags
<1>a. c \notin queuedFlag /\ c \notin timedOut /\ queuedFlag \in SUBSET Calls
  BY <1>0 DEF IInv, QueuedCountsCancelled, TypeOK, Flags
<1>1. TypeOK'
  BY DEF IInv, Submit, TypeOK, Coroutine, Future, breaker
<1>2. Flags'
  <2>1. /\ pc' = [pc EXCEPT ![c] = "waiting"] /\ run' = [run EXCEPT ![c] = "pending"]
        /\ busy' = NoCall
        /\ UNCHANGED <<started, finished, timedOut, early>>
    BY DEF Submit
  <2>2. pc \in [Calls -> Coroutine] /\ run \in [Calls -> Future]
    BY DEF IInv, TypeOK
  <2>3. started' = {d \in Calls : run'[d] \in Running}
    BY <1>0, <2>1, <2>2 DEF IInv, Flags, Running
  <2>4. finished' = {d \in Calls : run'[d] = "done"}
    BY <1>0, <2>1, <2>2 DEF IInv, Flags
  <2>5. timedOut' = {d \in Calls : pc'[d] = "timed_out"}
    BY <1>0, <2>1, <2>2 DEF IInv, Flags
  <2>6. \A d \in Calls : pc'[d] \in {"new", "skipped", "checked"} => run'[d] = "none"
    BY <2>1, <2>2 DEF IInv, Flags
  <2> QED
    BY <2>1, <2>3, <2>4, <2>5, <2>6 DEF IInv, Flags
<1>3. QueuedCountsCancelled'
  BY <1>0, <1>a DEF IInv, Submit, QueuedCountsCancelled, TypeOK
<1>4. DebtExact' /\ Streaks'
  BY DEF IInv, Submit, DebtExact, Streaks, breaker
<1>5. queued' = Cardinality(queuedFlag')
  BY <1>a, Joins DEF IInv, Submit, GaugesExact
<1>6. GaugesExact' /\ LeakedExact'
  BY <1>5 DEF IInv, Submit, GaugesExact, LeakedExact
<1> QED
  BY <1>1, <1>2, <1>3, <1>4, <1>6 DEF IInv

\* A step of the thread that only moves within the pipeline, and PickUp.
LEMMA PickUpInv == ASSUME IInv, NEW c \in Calls, PickUp(c) PROVE IInv'
<1>1. TypeOK'
  <2>1. run' \in [Calls -> Future]
    BY DEF IInv, PickUp, TypeOK, Future
  <2>2. workq' \in Seq(Calls)
    BY DEF IInv, PickUp, TypeOK
  <2> QED
    BY <2>1, <2>2 DEF IInv, PickUp, TypeOK, flags, gauges, breaker
<1>2. Flags' /\ QueuedCountsCancelled'
  <2>1. CASE run[c] = "pending"
    <3>1. run' = [run EXCEPT ![c] = "picked"] /\ run \in [Calls -> Future] /\ UNCHANGED <<pc, busy, early, beside, flags>>
      BY <2>1 DEF IInv, PickUp, TypeOK
    <3>2. \A d \in Calls : (run'[d] \in Running <=> run[d] \in Running)
                          /\ (run'[d] = "done" <=> run[d] = "done")
                          /\ (run'[d] = "none" <=> run[d] = "none")
      BY <2>1, <3>1 DEF Running
    <3>3. Flags'
      BY <3>1, <3>2 DEF IInv, Flags, flags
    <3>4. QueuedCountsCancelled'
      BY <2>1, <3>1 DEF IInv, QueuedCountsCancelled, flags
    <3> QED
      BY <3>3, <3>4
  <2>2. CASE run[c] # "pending"
    BY <2>2 DEF IInv, PickUp, Flags, QueuedCountsCancelled, flags
  <2> QED
    BY <2>1, <2>2
<1>3. DebtExact' /\ Streaks' /\ GaugesExact' /\ LeakedExact'
  BY DEF IInv, PickUp, DebtExact, Streaks, GaugesExact, LeakedExact, flags, gauges, breaker
<1> QED
  BY <1>1, <1>2, <1>3 DEF IInv

LEMMA StartInv == ASSUME IInv, NEW c \in Calls, WrappedStart(c) PROVE IInv'
<1>0. /\ run[c] = "picked" /\ run' = [run EXCEPT ![c] = "started"] /\ run \in [Calls -> Future]
      /\ started' = started \cup {c} /\ queuedFlag' = queuedFlag \ {c}
      /\ UNCHANGED <<pc, busy, finished, timedOut, early>>
  BY DEF IInv, TypeOK, WrappedStart, Unqueue
<1>a. c \notin started /\ c \notin finished /\ c \notin debtRecorded
  BY <1>0 DEF IInv, Flags, Running, DebtExact
<1>b. /\ started \in SUBSET Calls /\ finished \in SUBSET Calls /\ queuedFlag \in SUBSET Calls
      /\ debtRecorded \in SUBSET Calls /\ timedOutInFlight \in Nat
  BY DEF IInv, TypeOK
<1>1. Flags'
  <2>1. started' = {d \in Calls : run'[d] \in Running}
    BY <1>0 DEF IInv, Flags, Running
  <2>2. finished' = {d \in Calls : run'[d] = "done"}
    BY <1>0 DEF IInv, Flags
  <2>3. \A d \in Calls : pc'[d] \in {"new", "skipped", "checked"} => run'[d] = "none"
    BY <1>0 DEF IInv, Flags
  <2> QED
    BY <1>0, <2>1, <2>2, <2>3 DEF IInv, Flags
<1>2. QueuedCountsCancelled'
  BY <1>0 DEF IInv, QueuedCountsCancelled
<1>3. /\ debtRecorded' = (IF c \in timedOut THEN debtRecorded \cup {c} ELSE debtRecorded)
      /\ timedOutInFlight' = (IF c \in timedOut THEN timedOutInFlight + 1 ELSE timedOutInFlight)
  BY <1>a DEF WrappedStart, RecordDebt
<1>4. DebtExact'
  BY <1>0, <1>3, <1>a DEF IInv, DebtExact
<1>5. GaugesExact'
  <2>1. queued' = Cardinality(queuedFlag')
    BY <1>0, <1>b, Leaves DEF IInv, WrappedStart, Unqueue, GaugesExact
  <2>2. inFlight' = Cardinality(started' \ finished')
    <3>1. started' \ finished' = (started \ finished) \cup {c} /\ c \notin started \ finished
      BY <1>0, <1>a
    <3>2. inFlight' = inFlight + 1 /\ inFlight = Cardinality(started \ finished)
      BY DEF IInv, WrappedStart, GaugesExact
    <3> QED
      BY <1>b, <3>1, <3>2, Joins
  <2>3. timedOutInFlight' = Cardinality(debtRecorded')
    BY <1>3, <1>a, <1>b, Joins DEF IInv, GaugesExact
  <2> QED
    BY <2>1, <2>2, <2>3 DEF GaugesExact
<1>6. LeakedExact' /\ Streaks'
  BY DEF IInv, WrappedStart, LeakedExact, Streaks, breaker
<1>7. TypeOK'
  <2>1. run' \in [Calls -> Future] /\ started' \subseteq Calls /\ queuedFlag' \subseteq Calls
        /\ debtRecorded' \subseteq Calls
    BY <1>0, <1>3, <1>b DEF Future
  <2>2. queued' \in Nat
    BY <1>5, <2>1, FiniteCalls DEF GaugesExact
  <2>3. inFlight' \in Nat /\ timedOutInFlight' \in Nat
    BY <1>3, <1>b DEF IInv, TypeOK, WrappedStart
  <2> QED
    BY <2>1, <2>2, <2>3 DEF IInv, TypeOK, WrappedStart, breaker
<1> QED
  BY <1>1, <1>2, <1>4, <1>5, <1>6, <1>7 DEF IInv

\* Inside the pipeline only the breaker's count moves.
LEMMA InsideInv ==
    ASSUME IInv, NEW c \in Calls,
           run[c] \in {"started", "inside"}, NEW to \in {"inside", "ended"},
           run' = [run EXCEPT ![c] = to],
           UNCHANGED <<pc, busy, workq, flags, gauges, early, beside>>,
           breakerFailures' \in 0..Threshold - 1, breakerState' \in {"open", "closed"},
           streak' \in Nat, Streaks'
    PROVE  IInv'
<1>0. run \in [Calls -> Future]
  BY DEF IInv, TypeOK
<1>1. \A d \in Calls : /\ run'[d] \in Running <=> run[d] \in Running
                       /\ run'[d] = "done" <=> run[d] = "done"
                       /\ run'[d] = "none" <=> run[d] = "none"
                       /\ run'[d] \in {"pending", "picked"} <=> run[d] \in {"pending", "picked"}
                       /\ run'[d] = "cancelled" <=> run[d] = "cancelled"
  BY <1>0 DEF Running
<1>2. Flags'
  BY <1>1 DEF IInv, Flags, flags
<1>3. QueuedCountsCancelled'
  BY <1>1 DEF IInv, QueuedCountsCancelled, flags
<1>4. DebtExact' /\ GaugesExact' /\ LeakedExact'
  BY DEF IInv, DebtExact, GaugesExact, LeakedExact, flags, gauges
<1>5. TypeOK'
  <2>1. run' \in [Calls -> Future]
    BY <1>0 DEF Future
  <2> QED
    BY <2>1 DEF IInv, TypeOK, flags, gauges
<1> QED
  BY <1>2, <1>3, <1>4, <1>5 DEF IInv

LEMMA EnterInv == ASSUME IInv, NEW c \in Calls, EnterPipeline(c) PROVE IInv'
<1>1. breakerFailures' \in 0..Threshold - 1 /\ breakerState' \in {"open", "closed"}
      /\ streak' \in Nat /\ Streaks'
  BY DEF IInv, TypeOK, EnterPipeline, Streaks, breaker
<1>2. \E to \in {"inside", "ended"} : run' = [run EXCEPT ![c] = to]
  BY DEF EnterPipeline
<1> QED
  BY <1>1, <1>2, InsideInv DEF EnterPipeline

LEMMA ReturnsInv == ASSUME IInv, NEW c \in Calls, PipelineReturns(c) PROVE IInv'
<1>1. breakerFailures' \in 0..Threshold - 1 /\ breakerState' \in {"open", "closed"}
      /\ streak' \in Nat /\ Streaks'
  BY ThresholdAssumption DEF IInv, TypeOK, PipelineReturns, Streaks
<1> QED
  BY <1>1, InsideInv DEF PipelineReturns

LEMMA RaisesInv == ASSUME IInv, NEW c \in Calls, PipelineRaises(c) PROVE IInv'
<1>1. breakerFailures \in 0..Threshold - 1 /\ streak \in Nat /\ breakerFailures <= streak
      /\ streak' = streak + 1
  BY DEF IInv, TypeOK, PipelineRaises, Streaks
<1>2. breakerFailures' \in 0..Threshold - 1 /\ breakerFailures' <= streak' /\ streak' \in Nat
  BY <1>1, ThresholdAssumption DEF PipelineRaises, BreakerTrips
<1>3. breakerState' \in {"open", "closed"}
  BY DEF IInv, TypeOK, PipelineRaises
<1> QED
  BY <1>2, <1>3, InsideInv DEF PipelineRaises, Streaks

LEMMA CooldownInv == ASSUME IInv, CooldownEnds PROVE IInv'
<1>1. TypeOK'
  BY DEF IInv, CooldownEnds, TypeOK, flags, gauges
<1>2. Flags' /\ QueuedCountsCancelled' /\ DebtExact' /\ GaugesExact' /\ LeakedExact' /\ Streaks'
  BY DEF IInv, CooldownEnds, Flags, QueuedCountsCancelled, DebtExact, GaugesExact, LeakedExact, Streaks,
         flags, gauges
<1> QED
  BY <1>1, <1>2 DEF IInv

LEMMA FinishInv == ASSUME IInv, NEW c \in Calls, WrappedFinish(c) PROVE IInv'
<1>0. /\ run[c] = "ended" /\ run' = [run EXCEPT ![c] = "done"] /\ run \in [Calls -> Future]
      /\ finished' = finished \cup {c} /\ debtRecorded' = debtRecorded \ {c}
      /\ UNCHANGED <<pc, busy, queuedFlag, started, timedOut, early>>
  BY DEF IInv, TypeOK, WrappedFinish, RepayDebt
<1>a. c \in started /\ c \notin finished /\ c \notin early
  BY <1>0 DEF IInv, Flags, Running
<1>b. /\ started \in SUBSET Calls /\ finished \in SUBSET Calls /\ debtRecorded \in SUBSET Calls
      /\ timedOut \in SUBSET Calls /\ leakedThreads \in Nat
  BY DEF IInv, TypeOK
<1>1. Flags'
  <2>1. started' = {d \in Calls : run'[d] \in Running}
    BY <1>0 DEF IInv, Flags, Running
  <2>2. finished' = {d \in Calls : run'[d] = "done"}
    BY <1>0 DEF IInv, Flags
  <2>3. \A d \in Calls : pc'[d] \in {"new", "skipped", "checked"} => run'[d] = "none"
    BY <1>0 DEF IInv, Flags
  <2> QED
    BY <1>0, <2>1, <2>2, <2>3 DEF IInv, Flags
<1>2. QueuedCountsCancelled'
  BY <1>0 DEF IInv, QueuedCountsCancelled
<1>3. DebtExact'
  BY <1>0 DEF IInv, DebtExact
<1>4. GaugesExact'
  <2>1. queued' = Cardinality(queuedFlag')
    BY <1>0 DEF IInv, WrappedFinish, GaugesExact
  <2>2. inFlight' = Cardinality(started' \ finished')
    <3>1. started' \ finished' = (started \ finished) \ {c} /\ c \in started \ finished
      BY <1>0, <1>a
    <3>2. inFlight' = inFlight - 1 /\ inFlight = Cardinality(started \ finished)
      BY DEF IInv, WrappedFinish, GaugesExact
    <3> QED
      BY <1>b, <3>1, <3>2, Leaves
  <2>3. timedOutInFlight' = Cardinality(debtRecorded')
    BY <1>0, <1>b, Leaves DEF IInv, WrappedFinish, RepayDebt, GaugesExact
  <2> QED
    BY <2>1, <2>2, <2>3 DEF GaugesExact
<1>5. LeakedExact'
  <2> DEFINE leaked == (timedOut \cap finished) \ early
  <2>1. leakedThreads = Cardinality(leaked) /\ leaked \in SUBSET Calls
    BY <1>b DEF IInv, LeakedExact
  <2>2. leakedThreads' = leakedThreads + (IF c \in timedOut THEN 1 ELSE 0)
    BY DEF WrappedFinish, CountLeak
  <2>3. CASE c \in timedOut
    <3>1. (timedOut' \cap finished') \ early' = leaked \cup {c} /\ c \notin leaked
      BY <1>0, <1>a, <2>3
    <3>2. leakedThreads' = leakedThreads + 1
      BY <2>2, <2>3
    <3> HIDE DEF leaked
    <3>3. Cardinality(leaked \cup {c}) = Cardinality(leaked) + 1
      BY <2>1, <3>1, Joins
    <3> QED
      BY <2>1, <3>1, <3>2, <3>3 DEF LeakedExact
  <2>4. CASE c \notin timedOut
    <3>1. (timedOut' \cap finished') \ early' = leaked
      BY <1>0, <2>4
    <3>2. leakedThreads' = leakedThreads
      BY <1>b, <2>2, <2>4
    <3> HIDE DEF leaked
    <3> QED
      BY <2>1, <3>1, <3>2 DEF LeakedExact
  <2> QED
    BY <2>3, <2>4
<1>6. Streaks'
  BY DEF IInv, WrappedFinish, Streaks, breaker
<1>7. TypeOK'
  <2>1. run' \in [Calls -> Future] /\ finished' \subseteq Calls /\ debtRecorded' \subseteq Calls
        /\ started' \subseteq Calls
    BY <1>0, <1>b DEF Future
  <2>2. inFlight' \in Nat /\ timedOutInFlight' \in Nat
    <3>1. started' \ finished' \in SUBSET Calls /\ debtRecorded' \in SUBSET Calls
      BY <2>1
    <3> QED
      BY <1>4, <3>1, FiniteCalls DEF GaugesExact
  <2>3. leakedThreads' \in Nat
    BY <1>b DEF WrappedFinish, CountLeak
  <2> QED
    BY <2>1, <2>2, <2>3 DEF IInv, TypeOK, WrappedFinish, breaker
<1> QED
  BY <1>1, <1>2, <1>3, <1>4, <1>5, <1>6, <1>7 DEF IInv

\* The coroutine stops waiting: by the result, the deadline or a cancellation.
LEMMA StopsWaitingInv ==
    ASSUME IInv, NEW c \in Calls, pc[c] = "waiting",
           NEW to \in {"returned", "expired", "aborted"}, pc' = [pc EXCEPT ![c] = to],
           CancelFuture(c) \/ UNCHANGED <<busy, workq, run, flags, gauges, breaker, early, beside>>
    PROVE  IInv'
<1>0. /\ pc \in [Calls -> Coroutine] /\ run \in [Calls -> Future]
      /\ UNCHANGED <<busy, workq, flags, gauges, breaker, early, beside>>
      /\ run' = run \/ (run[c] = "pending" /\ run' = [run EXCEPT ![c] = "cancelled"])
  BY DEF IInv, TypeOK, CancelFuture
<1>1. \A d \in Calls :
        /\ run'[d] \in Running <=> run[d] \in Running
        /\ run'[d] = "done" <=> run[d] = "done"
        /\ run'[d] \in {"pending", "picked", "cancelled"}
              <=> run[d] \in {"pending", "picked", "cancelled"}
  BY <1>0 DEF Running
<1>2. \A d \in Calls : run[d] = "none" => run'[d] = "none"
  BY <1>0
<1>3. \A d \in Calls : (pc'[d] = "timed_out" <=> pc[d] = "timed_out")
                       /\ (pc'[d] \in {"new", "skipped", "checked"}
                             => pc[d] \in {"new", "skipped", "checked"})
  BY <1>0
<1>4. busy # NoCall => pc'[busy] = "checked"
  <2>1. busy # NoCall => busy \in Calls /\ pc[busy] = "checked"
    BY DEF IInv, TypeOK, Flags
  <2> QED
    BY <1>0, <2>1
<1>5. Flags'
  BY <1>0, <1>1, <1>2, <1>3, <1>4 DEF IInv, Flags, flags
<1>6. QueuedCountsCancelled'
  <2>1. queuedFlag = {d \in Calls : run[d] \in {"pending", "picked", "cancelled"}
                                   /\ d \notin timedOut}
    BY DEF IInv, QueuedCountsCancelled
  <2>2. queuedFlag' = queuedFlag /\ timedOut' = timedOut
    BY <1>0 DEF flags
  <2>3. queuedFlag' = {d \in Calls : run'[d] \in {"pending", "picked", "cancelled"}
                                    /\ d \notin timedOut'}
    BY <1>1, <2>1, <2>2
  <2> QED
    BY <2>3 DEF QueuedCountsCancelled
<1>7. DebtExact' /\ GaugesExact' /\ LeakedExact' /\ Streaks'
  BY <1>0 DEF IInv, DebtExact, GaugesExact, LeakedExact, Streaks, flags, gauges, breaker
<1>8. TypeOK'
  <2>1. run' \in [Calls -> Future] /\ pc' \in [Calls -> Coroutine]
    BY <1>0 DEF Future, Coroutine
  <2> QED
    BY <1>0, <2>1 DEF IInv, TypeOK, flags, gauges, breaker
<1> QED
  BY <1>5, <1>6, <1>7, <1>8 DEF IInv

LEMMA TimeoutInv == ASSUME IInv, NEW c \in Calls, TimeoutHandler(c) PROVE IInv'
<1>0. /\ pc[c] = "expired" /\ pc' = [pc EXCEPT ![c] = "timed_out"] /\ pc \in [Calls -> Coroutine]
      /\ timedOut' = timedOut \cup {c} /\ queuedFlag' = queuedFlag \ {c}
      /\ early' = (IF c \in finished THEN early \cup {c} ELSE early)
      /\ busy = NoCall /\ UNCHANGED <<busy, run, started, finished>>
  BY DEF IInv, TypeOK, TimeoutHandler, Unqueue
<1>a. c \notin timedOut /\ c \notin debtRecorded
  BY <1>0 DEF IInv, Flags, DebtExact
<1>b. /\ started \in SUBSET Calls /\ finished \in SUBSET Calls /\ queuedFlag \in SUBSET Calls
      /\ debtRecorded \in SUBSET Calls /\ timedOut \in SUBSET Calls /\ timedOutInFlight \in Nat
      /\ early \in SUBSET Calls
  BY DEF IInv, TypeOK
<1>1. Flags'
  <2>1. timedOut' = {d \in Calls : pc'[d] = "timed_out"}
    BY <1>0 DEF IInv, Flags
  <2>2. \A d \in Calls : pc'[d] \in {"new", "skipped", "checked"} => run'[d] = "none"
    BY <1>0 DEF IInv, Flags
  <2>3. early' \subseteq finished' \cap timedOut'
    BY <1>0 DEF IInv, Flags
  <2> QED
    BY <1>0, <2>1, <2>2, <2>3 DEF IInv, Flags
<1>2. QueuedCountsCancelled'
  BY <1>0 DEF IInv, QueuedCountsCancelled
<1>3. /\ debtRecorded' = (IF c \in started /\ c \notin finished
                         THEN debtRecorded \cup {c} ELSE debtRecorded)
      /\ timedOutInFlight' = (IF c \in started /\ c \notin finished
                             THEN timedOutInFlight + 1 ELSE timedOutInFlight)
  BY <1>a DEF TimeoutHandler, RecordDebt
<1>4. DebtExact'
  BY <1>0, <1>3 DEF IInv, DebtExact
<1>5. GaugesExact'
  <2>1. queued' = Cardinality(queuedFlag')
    BY <1>0, <1>b, Leaves DEF IInv, TimeoutHandler, Unqueue, GaugesExact
  <2>2. inFlight' = Cardinality(started' \ finished')
    BY <1>0 DEF IInv, TimeoutHandler, GaugesExact
  <2>3. timedOutInFlight' = Cardinality(debtRecorded')
    BY <1>3, <1>a, <1>b, Joins DEF IInv, GaugesExact
  <2> QED
    BY <2>1, <2>2, <2>3 DEF GaugesExact
<1>6. LeakedExact'
  <2>1. (timedOut' \cap finished') \ early' = (timedOut \cap finished) \ early
    BY <1>0, <1>a DEF IInv, Flags
  <2> QED
    BY <2>1 DEF IInv, LeakedExact, TimeoutHandler
<1>7. Streaks'
  BY DEF IInv, TimeoutHandler, Streaks, breaker
<1>8. TypeOK'
  <2>1. pc' \in [Calls -> Coroutine] /\ timedOut' \subseteq Calls /\ queuedFlag' \subseteq Calls
        /\ debtRecorded' \subseteq Calls /\ early' \subseteq Calls
    BY <1>0, <1>3, <1>b DEF Coroutine
  <2>2. queued' \in Nat
    BY <1>5, <2>1, FiniteCalls DEF GaugesExact
  <2>3. timedOutInFlight' \in Nat
    BY <1>3, <1>b
  <2> QED
    BY <2>1, <2>2, <2>3 DEF IInv, TypeOK, TimeoutHandler, breaker
<1> QED
  BY <1>1, <1>2, <1>4, <1>5, <1>6, <1>7, <1>8 DEF IInv

LEMMA StutterInv == ASSUME IInv, UNCHANGED vars PROVE IInv'
<1>1. TypeOK'
  BY DEF IInv, TypeOK, vars, flags, gauges, breaker
<1>2. Flags' /\ QueuedCountsCancelled' /\ DebtExact' /\ GaugesExact' /\ LeakedExact' /\ Streaks'
  BY DEF IInv, Flags, QueuedCountsCancelled, DebtExact, GaugesExact, LeakedExact, Streaks,
         vars, flags, gauges, breaker
<1> QED
  BY <1>1, <1>2 DEF IInv

LEMMA StepInv == IInv /\ [Next]_vars => IInv'
<1> SUFFICES ASSUME IInv, [Next]_vars PROVE IInv'
  OBVIOUS
<1>1. ASSUME NEW c \in Calls, Return(c) \/ Deadline(c) \/ RequestCancelled(c) PROVE IInv'
  BY <1>1, StopsWaitingInv DEF Return, Deadline, RequestCancelled
<1>2. ASSUME NEW c \in Calls,
             Check(c) \/ Submit(c) \/ TimeoutHandler(c) \/ Thread(c) \/ PipelineEnds(c)
      PROVE  IInv'
  BY <1>2, CheckInv, SubmitInv, TimeoutInv, PickUpInv, StartInv, EnterInv, FinishInv,
     ReturnsInv, RaisesInv DEF Thread, PipelineEnds
<1> QED
  BY <1>1, <1>2, CooldownInv, StutterInv DEF Next, LoopStep

LEMMA Invariant == Spec => []IInv
BY InitInv, StepInv, PTL DEF Spec

-----------------------------------------------------------------------------
(* What follows. *)

\* Every variable keeps its type; no gauge goes below zero, and the breaker's
\* count stays below its threshold.
THEOREM TypeCorrect == Spec => []TypeOK
BY Invariant, PTL DEF IInv

\* However start, deadline and end of the calls race, the in-flight and debt
\* gauges and the count of leaked threads are exact, and the queued gauge is the
\* number of waiting calls plus the number of those cancelled in the queue.
THEOREM GaugesNeverDrift == Spec => []GaugesAccountedFor
BY Invariant, PTL DEF IInv, GaugesAccountedFor

\* The quarantine's debt is exactly the timed-out calls whose thread still runs.
THEOREM DebtNeverDrifts == Spec => []DebtExact
BY Invariant, PTL DEF IInv

-----------------------------------------------------------------------------
(* The quarantine. *)

\* While there is debt, whoever was submitted and whoever is about to be are one
\* call.
Quarantine ==
    /\ debtRecorded = {} => beside = {}
    /\ debtRecorded # {} => \A x, y \in beside \cup ({busy} \ {NoCall}) : x = y

LEMMA StragglersAreDebt == IInv => Stragglers = debtRecorded
BY DEF IInv, TypeOK, Flags, DebtExact, Stragglers, Running, Future

LEMMA NoDebtNoCount == ASSUME IInv, timedOutInFlight = 0 PROVE debtRecorded = {}
<1>1. timedOutInFlight = Cardinality(debtRecorded) /\ IsFiniteSet(debtRecorded)
  BY FiniteCalls DEF IInv, GaugesExact, TypeOK
<1> QED
  BY <1>1, FS_EmptySet

LEMMA QuarantineStep == IInv /\ Quarantine /\ [Next]_vars => Quarantine'
<1> SUFFICES ASSUME IInv, Quarantine, [Next]_vars PROVE Quarantine'
  OBVIOUS
<1>1. ASSUME NEW c \in Calls, Check(c) PROVE Quarantine'
  BY <1>1, NoDebtNoCount DEF Check, Quarantine, flags
<1>2. ASSUME NEW c \in Calls, Submit(c) PROVE Quarantine'
  <2>1. beside' = (IF debtRecorded = {} THEN beside ELSE beside \cup {c})
        /\ busy = c /\ busy' = NoCall /\ debtRecorded' = debtRecorded /\ c # NoCall
    BY <1>2, StragglersAreDebt, CallsAssumption DEF Submit
  <2> QED
    BY <2>1 DEF Quarantine
<1>3. ASSUME NEW c \in Calls, WrappedFinish(c) PROVE Quarantine'
  <2>1. beside' = (IF debtRecorded \subseteq {c} THEN {} ELSE beside)
        /\ debtRecorded' = debtRecorded \ {c} /\ busy' = busy
    BY <1>3, StragglersAreDebt DEF WrappedFinish, RepayDebt
  <2> QED
    BY <2>1 DEF Quarantine
<1>4. ASSUME NEW c \in Calls, WrappedStart(c) \/ TimeoutHandler(c) PROVE Quarantine'
  <2>1. debtRecorded \subseteq debtRecorded' /\ beside' = beside /\ busy' = busy
    BY <1>4 DEF WrappedStart, TimeoutHandler, RecordDebt
  <2> QED
    BY <2>1 DEF Quarantine
<1>5. ASSUME UNCHANGED <<debtRecorded, beside, busy>> PROVE Quarantine'
  BY <1>5 DEF Quarantine
<1>6. ASSUME NEW c \in Calls, Deadline(c) \/ RequestCancelled(c) \/ Return(c) \/ PickUp(c)
                              \/ EnterPipeline(c) \/ PipelineEnds(c)
      PROVE  UNCHANGED <<debtRecorded, beside, busy>>
  BY <1>6 DEF Deadline, RequestCancelled, Return, CancelFuture, PickUp, EnterPipeline,
              PipelineEnds, PipelineReturns, PipelineRaises, flags
<1>7. CooldownEnds \/ UNCHANGED vars => UNCHANGED <<debtRecorded, beside, busy>>
  BY DEF CooldownEnds, vars, flags
<1> QED
  BY <1>1, <1>2, <1>3, <1>4, <1>5, <1>6, <1>7 DEF Next, LoopStep, Thread

\* While a thread runs for a timed-out call at most one more call gets into the
\* pool, the one that had passed the check before the debt was recorded.
THEOREM QuarantineHolds == Spec => []OneSlipsIn
<1>1. Init => Quarantine
  BY DEF Init, Quarantine
<1>2. Quarantine => OneSlipsIn
  BY DEF Quarantine, OneSlipsIn
<1> QED
  BY <1>1, <1>2, Invariant, QuarantineStep, PTL DEF Spec

-----------------------------------------------------------------------------
(* The breaker. *)

\* The breaker opens only after Threshold failures without a clean run between.
THEOREM BreakerNeedsAStreak == Spec => OpensAfterConsecutiveFailures
<1>1. IInv /\ [Next]_vars =>
        [breakerState = "closed" /\ breakerState' = "open" => streak' >= Threshold]_vars
  <2> SUFFICES ASSUME IInv, [Next]_vars, breakerState = "closed", breakerState' = "open"
               PROVE  streak' >= Threshold
    OBVIOUS
  <2>1. PICK c \in Calls : PipelineRaises(c)
    <3>1. ASSUME NEW c \in Calls,
                 Check(c) \/ LoopStep(c) \/ Return(c) \/ RequestCancelled(c) \/ Thread(c)
                   \/ PipelineReturns(c)
          PROVE  breakerState' = breakerState
      BY <3>1
      DEF Check, LoopStep, Submit, Deadline, TimeoutHandler, Return, RequestCancelled,
          CancelFuture, Thread, PickUp, WrappedStart, EnterPipeline, WrappedFinish,
          PipelineReturns, breaker
    <3> QED
      BY <3>1 DEF Next, PipelineEnds, CooldownEnds, vars, breaker
  <2>2. BreakerTrips /\ streak' = streak + 1
    BY <2>1 DEF PipelineRaises
  <2> QED
    BY <2>2, ThresholdAssumption DEF IInv, TypeOK, Streaks, BreakerTrips
<1> QED
  BY <1>1, Invariant, PTL DEF Spec, OpensAfterConsecutiveFailures
=============================================================================
