------------------------- MODULE CompressionExecutor -------------------------
(***************************************************************************)
(* The bounded pool on which a request compresses its messages             *)
(* (HeadroomProxy._run_compression_in_executor) and the circuit breaker of *)
(* the pipeline that runs there (TransformPipeline).                       *)
(*                                                                         *)
(* A call has two halves that race.  The coroutine checks the quarantine,  *)
(* submits the work and waits with a deadline; the pool thread runs it.  A *)
(* thread cannot be stopped, so a call whose deadline passes while it runs *)
(* becomes "timeout debt", and as long as there is debt new calls are      *)
(* refused.  Both halves keep the gauges, in sections of one lock; each    *)
(* section is an action here.  The coroutines share one thread: nothing    *)
(* else of the event loop runs between a call's check and its submission.  *)
(***************************************************************************)
EXTENDS Integers, Sequences, FiniteSets

CONSTANTS
    Calls,       \* the calls of _run_compression_in_executor
    NoCall,      \* "no call", not a member of Calls
    MaxWorkers,  \* config.compression_max_workers
    Threshold    \* HEADROOM_PIPELINE_BREAKER_THRESHOLD

ASSUME CallsAssumption == IsFiniteSet(Calls) /\ NoCall \notin Calls
ASSUME WorkersAssumption == MaxWorkers \in Nat \ {0}
ASSUME ThresholdAssumption == Threshold \in Nat \ {0}

VARIABLES
    pc,          \* pc[c]: how far the coroutine of call c is
    busy,        \* the call whose coroutine is between check and submission
    workq,       \* the pool's queue of work items, oldest first
    run,         \* run[c]: the future of call c, and where its thread is
    queuedFlag, started, finished, timedOut, debtRecorded,
                 \* the calls whose state dict holds this flag
    queued, inFlight, timedOutInFlight, leakedThreads, quarantineSkips,
                 \* the gauges and counters kept under the metrics lock
    breakerFailures, breakerState,
                 \* the breaker's count, and "open" while the cooldown lasts
    early,       \* history: calls that had finished when marked timed out
    beside,      \* history: calls submitted since there are stragglers
    streak       \* history: pipeline failures since the last clean run

flags    == <<queuedFlag, started, finished, timedOut, debtRecorded>>
gauges   == <<queued, inFlight, timedOutInFlight, leakedThreads, quarantineSkips>>
breaker  == <<breakerFailures, breakerState, streak>>
vars     == <<pc, busy, workq, run, flags, gauges, breaker, early, beside>>

Coroutine == {"new", "skipped", "checked", "waiting", "expired", "returned",
              "timed_out", "aborted"}

Future    == {"none", "pending", "cancelled",                 \* not running
              "picked", "started", "inside", "ended", \* in a thread
              "done"}

\* The calls that hold a thread of the pool.
Active == {c \in Calls : run[c] \in {"picked", "started", "inside", "ended"}}

\* The calls that were answered with a timeout and whose thread still runs.
Stragglers == {c \in timedOut : run[c] \in {"started", "inside", "ended"}}

Init ==
    /\ pc = [c \in Calls |-> "new"]
    /\ busy = NoCall
    /\ workq = <<>>
    /\ run = [c \in Calls |-> "none"]
    /\ queuedFlag = {} /\ started = {} /\ finished = {} /\ timedOut = {} /\ debtRecorded = {}
    /\ queued = 0 /\ inFlight = 0 /\ timedOutInFlight = 0
    /\ leakedThreads = 0 /\ quarantineSkips = 0
    /\ breakerFailures = 0 /\ breakerState = "closed"
    /\ early = {} /\ streak = 0 /\ beside = {}

-----------------------------------------------------------------------------
(* The coroutine's way in. *)

\* Plausible bug: the skip is counted, and the call goes on all the same.
CheckCountsOnly(c) ==
    /\ pc[c] = "new" /\ busy = NoCall
    /\ quarantineSkips' = quarantineSkips + (IF timedOutInFlight > 0 THEN 1 ELSE 0)
    /\ pc' = [pc EXCEPT ![c] = "checked"]
    /\ busy' = c
    /\ UNCHANGED <<workq, run, flags, queued, inFlight, timedOutInFlight, leakedThreads,
                   breaker, early, beside>>

\* The first lock section: refuse while a timed-out worker is still running.
Check(c) ==
    /\ pc[c] = "new" /\ busy = NoCall
    /\ \/ /\ timedOutInFlight > 0
          /\ quarantineSkips' = quarantineSkips + 1
          /\ pc' = [pc EXCEPT ![c] = "skipped"]
          /\ UNCHANGED busy
       \/ /\ timedOutInFlight = 0
          /\ pc' = [pc EXCEPT ![c] = "checked"]
          /\ busy' = c
          /\ UNCHANGED quarantineSkips
    /\ UNCHANGED <<workq, run, flags, queued, inFlight, timedOutInFlight, leakedThreads,
                   breaker, early, beside>>

\* The second lock section, and the submission to the pool.
Submit(c) ==
    /\ busy = c
    /\ busy' = NoCall
    /\ pc' = [pc EXCEPT ![c] = "waiting"]
    /\ queued' = queued + 1
    /\ queuedFlag' = queuedFlag \cup {c}
    /\ workq' = Append(workq, c)
    /\ run' = [run EXCEPT ![c] = "pending"]
    /\ beside' = IF Stragglers = {} THEN beside ELSE beside \cup {c}
    /\ UNCHANGED <<started, finished, timedOut, debtRecorded, inFlight, timedOutInFlight,
                   leakedThreads, quarantineSkips, breaker, early>>

-----------------------------------------------------------------------------
(* The pool thread. *)

\* A free thread takes the oldest work item and runs it unless it was cancelled.
PickUp(c) ==
    /\ workq # <<>> /\ Head(workq) = c
    /\ Cardinality(Active) < MaxWorkers
    /\ workq' = Tail(workq)
    /\ run' = IF run[c] = "pending" THEN [run EXCEPT ![c] = "picked"] ELSE run
    /\ UNCHANGED <<pc, busy, flags, gauges, breaker, early, beside>>

\* Plausible bug: the flag "started" is read before the section has set it.
RecordDebtLate(c, startedNow, timedOutNow) ==
    IF c \in timedOutNow /\ c \in started /\ c \notin finished /\ c \notin debtRecorded
    THEN /\ debtRecorded' = debtRecorded \cup {c}
         /\ timedOutInFlight' = timedOutInFlight + 1
    ELSE UNCHANGED <<debtRecorded, timedOutInFlight>>

\* _record_timeout_debt_locked, given the flags that the section has just set.
RecordDebt(c, startedNow, timedOutNow) ==
    IF c \in timedOutNow /\ c \in startedNow /\ c \notin finished /\ c \notin debtRecorded
    THEN /\ debtRecorded' = debtRecorded \cup {c}
         /\ timedOutInFlight' = timedOutInFlight + 1
    ELSE UNCHANGED <<debtRecorded, timedOutInFlight>>

\* Plausible bug: only the gauge is updated.
UnqueueGaugeOnly(c) ==
    /\ queued' = queued - (IF c \in queuedFlag THEN 1 ELSE 0)
    /\ UNCHANGED queuedFlag

\* Leaving the queue: whichever half comes first takes the call off the gauge.
Unqueue(c) ==
    /\ queued' = queued - (IF c \in queuedFlag THEN 1 ELSE 0)
    /\ queuedFlag' = queuedFlag \ {c}

\* The section in which _wrapped begins.
WrappedStart(c) ==
    /\ run[c] = "picked"
    /\ run' = [run EXCEPT ![c] = "started"]
    /\ started' = started \cup {c}
    /\ Unqueue(c)
    /\ inFlight' = inFlight + 1
    /\ RecordDebt(c, started \cup {c}, timedOut)
    /\ UNCHANGED <<pc, busy, workq, finished, timedOut, leakedThreads, quarantineSkips,
                   breaker, early, beside>>

\* fn() is the pipeline: an open breaker passes the messages through.
EnterPipeline(c) ==
    /\ run[c] = "started"
    /\ run' = [run EXCEPT ![c] = IF breakerState = "open" THEN "ended" ELSE "inside"]
    /\ UNCHANGED <<pc, busy, workq, flags, gauges, breaker, early, beside>>

\* Plausible bug: a clean run does not reset the count.
PipelineReturnsNoReset(c) ==
    /\ run[c] = "inside"
    /\ run' = [run EXCEPT ![c] = "ended"]
    /\ streak' = 0
    /\ UNCHANGED <<pc, busy, workq, flags, gauges, breakerFailures, breakerState, early, beside>>

\* Every transform succeeded: the count of failures is reset.
PipelineReturns(c) ==
    /\ run[c] = "inside"
    /\ run' = [run EXCEPT ![c] = "ended"]
    /\ breakerFailures' = 0
    /\ streak' = 0
    /\ UNCHANGED <<pc, busy, workq, flags, gauges, breakerState, early, beside>>

\* Plausible bug: the failure that just happened is not counted.
BreakerTripsLate == breakerFailures >= Threshold

BreakerTrips == breakerFailures + 1 >= Threshold

\* A transform raised: count it, and open the breaker at the threshold.
PipelineRaises(c) ==
    /\ run[c] = "inside"
    /\ run' = [run EXCEPT ![c] = "ended"]
    /\ streak' = streak + 1
    /\ IF BreakerTrips
       THEN breakerFailures' = 0 /\ breakerState' = "open"
       ELSE breakerFailures' = breakerFailures + 1 /\ UNCHANGED breakerState
    /\ UNCHANGED <<pc, busy, workq, flags, gauges, early, beside>>

\* The cooldown of an open breaker runs out.
CooldownEnds ==
    /\ breakerState = "open"
    /\ breakerState' = "closed"
    /\ UNCHANGED <<pc, busy, workq, run, flags, gauges, breakerFailures, streak, early,
                   beside>>

\* Plausible bug: the thread that ends leaves its debt behind.
RepayDebtNever(c) == UNCHANGED <<debtRecorded, timedOutInFlight>>

RepayDebt(c) ==
    /\ debtRecorded' = debtRecorded \ {c}
    /\ timedOutInFlight' = timedOutInFlight - (IF c \in debtRecorded THEN 1 ELSE 0)

CountLeak(c) ==
    leakedThreads' = leakedThreads + (IF c \in timedOut THEN 1 ELSE 0)

\* The section in which _wrapped ends; then the future has its result.
WrappedFinish(c) ==
    /\ run[c] = "ended"
    /\ run' = [run EXCEPT ![c] = "done"]
    /\ finished' = finished \cup {c}
    /\ inFlight' = inFlight - 1
    /\ CountLeak(c)
    /\ RepayDebt(c)
    /\ beside' = IF Stragglers \subseteq {c} THEN {} ELSE beside
    /\ UNCHANGED <<pc, busy, workq, queuedFlag, started, timedOut, queued,
                   quarantineSkips, breaker, early>>

-----------------------------------------------------------------------------
(* The coroutine's ways out. *)

\* The result, or the exception of fn, reaches the coroutine.
Return(c) ==
    /\ pc[c] = "waiting" /\ busy = NoCall /\ run[c] = "done"
    /\ pc' = [pc EXCEPT ![c] = "returned"]
    /\ UNCHANGED <<busy, workq, run, flags, gauges, breaker, early, beside>>

\* The asyncio future is cancelled, and with it the pool's: work that no thread
\* has taken never runs, work that is running goes on.  (The two cancellations
\* are separate callbacks; nothing looks at the first before the second.)
CancelFuture(c) ==
    /\ run' = IF run[c] = "pending" THEN [run EXCEPT ![c] = "cancelled"] ELSE run
    /\ UNCHANGED <<busy, workq, flags, gauges, breaker, early, beside>>

\* Plausible bug: no timer is armed.
DeadlineNever(c) == FALSE /\ UNCHANGED vars

\* The deadline passes, perhaps when the thread has just ended and its result is
\* on the way.
Deadline(c) ==
    /\ pc[c] = "waiting" /\ busy = NoCall
    /\ pc' = [pc EXCEPT ![c] = "expired"]
    /\ CancelFuture(c)

\* The request's own task is cancelled (a relay whose peer went away).
RequestCancelled(c) ==
    /\ pc[c] = "waiting" /\ busy = NoCall
    /\ pc' = [pc EXCEPT ![c] = "aborted"]
    /\ CancelFuture(c)

\* except asyncio.TimeoutError.  A request that was cancelled does not come here.
TimeoutHandler(c) ==
    /\ pc[c] = "expired" /\ busy = NoCall
    /\ pc' = [pc EXCEPT ![c] = "timed_out"]
    /\ timedOut' = timedOut \cup {c}
    /\ Unqueue(c)
    /\ RecordDebt(c, started, timedOut \cup {c})
    /\ early' = IF c \in finished THEN early \cup {c} ELSE early
    /\ UNCHANGED <<busy, workq, run, started, finished, inFlight, leakedThreads,
                   quarantineSkips, breaker, beside>>

-----------------------------------------------------------------------------
PipelineEnds(c) == PipelineReturns(c) \/ PipelineRaises(c)

Thread(c) == PickUp(c) \/ WrappedStart(c) \/ EnterPipeline(c) \/ WrappedFinish(c)

LoopStep(c) == Submit(c) \/ Deadline(c) \/ TimeoutHandler(c)

Next ==
    \/ \E c \in Calls :
          \/ Check(c) \/ LoopStep(c) \/ Return(c) \/ RequestCancelled(c)
          \/ Thread(c) \/ PipelineEnds(c)
    \/ CooldownEnds

\* The loop runs its callbacks and timers, and threads are scheduled.  Nothing
\* is assumed of the pipeline: a call may stay inside it for ever.
Fairness == \A c \in Calls : WF_vars(LoopStep(c)) /\ WF_vars(Thread(c))

Spec == Init /\ [][Next]_vars /\ Fairness

-----------------------------------------------------------------------------
\* The values each variable may have.
TypeOK ==
    /\ pc \in [Calls -> Coroutine]
    /\ busy \in Calls \cup {NoCall}
    /\ workq \in Seq(Calls)
    /\ run \in [Calls -> Future]
    /\ queuedFlag \subseteq Calls /\ started \subseteq Calls /\ finished \subseteq Calls
    /\ timedOut \subseteq Calls /\ debtRecorded \subseteq Calls /\ early \subseteq Calls
    /\ beside \subseteq Calls
    /\ queued \in Nat /\ inFlight \in Nat /\ timedOutInFlight \in Nat
    /\ leakedThreads \in Nat /\ quarantineSkips \in Nat
    /\ breakerFailures \in 0..Threshold - 1
    /\ breakerState \in {"open", "closed"}
    /\ streak \in Nat

\* The three gauges that both halves adjust never drift: whatever the order of
\* start, deadline and end, each is the number of calls it is about.
GaugesExact ==
    /\ queued = Cardinality(queuedFlag)
    /\ inFlight = Cardinality(started \ finished)
    /\ timedOutInFlight = Cardinality(debtRecorded)

\* Which calls the queued gauge counts: those that wait for a thread, and also,
\* for good, those whose request was cancelled before a thread took them.  The
\* docstring (server.py:1367-1369) says that "jobs that are successfully
\* cancelled before a worker starts are removed from the queued gauge"; the code
\* does it only in the except clause of the timeout.  The gauge is the length of
\* the queue plus these calls, and nothing else.
QueuedCountsCancelled ==
    queuedFlag = {c \in Calls : run[c] \in {"pending", "picked"} /\ c \notin timedOut}
                 \cup {c \in Calls : run[c] = "cancelled" /\ c \notin timedOut}

\* The quarantine's debt is exactly the calls that timed out and whose thread
\* is still running, also when the deadline passed between the moment a thread
\* took the work and the moment it says so.
DebtExact == debtRecorded = (timedOut \cap started) \ finished

\* A call that timed out while its thread ran is counted as a leaked thread
\* once, when the thread ends; one that ended first never is.
LeakedExact == leakedThreads = Cardinality((timedOut \cap finished) \ early)

\* However start, deadline, cancellation and end of the calls interleave, the
\* in-flight gauge and the count of leaked threads are exact, and the queued
\* gauge is too high by the calls cancelled in the queue and by no other.
GaugesAccountedFor == GaugesExact /\ QueuedCountsCancelled /\ LeakedExact

\* From the moment a thread is known to run for a timed-out call until the last
\* such thread has ended, at most one call is submitted: the one that was already
\* between the check of the debt and its submission, the two being separate
\* sections of the lock.  A thread is not known to run before it has said so: a
\* call that times out after a thread took its work, and before the thread's
\* first section, keeps no one out until that section.
OneSlipsIn == \A c, d \in beside : c = d

\* The breaker opens only after Threshold failures with no clean run between
\* them, however the runs overlap.
OpensAfterConsecutiveFailures ==
    [][breakerState = "closed" /\ breakerState' = "open" => streak' >= Threshold]_vars

\* Every call that waits is answered, even if its pipeline never returns.
CallsAnswered ==
    \A c \in Calls : pc[c] = "waiting"
        ~> pc[c] \in {"returned", "timed_out", "aborted"}

\* If no pipeline runs for ever, the quarantine is always lifted.
QuarantineLifted ==
    (\A c \in Calls : run[c] = "inside" ~> run[c] = "ended")
        => (timedOutInFlight > 0 ~> timedOutInFlight = 0)
=============================================================================
