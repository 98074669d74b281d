----------------------- MODULE BackgroundCompression -----------------------
(***************************************************************************)
(* BackgroundCompressor of headroom/proxy/background_compression.py: the   *)
(* request path hands a session's cold-start compression to a bounded      *)
(* asyncio.Queue, and one drain task per process runs the jobs, one after  *)
(* the other, on a dedicated thread.                                       *)
(*                                                                         *)
(* Everything but the thread runs on the asyncio loop, so an action is     *)
(* what a coroutine does between two awaits.  A job's key is its session;  *)
(* jobs are numbered in the order enqueue() accepts them.                  *)
(***************************************************************************)
EXTENDS Integers, Sequences

CONSTANTS
    Keys,       \* session ids
    MaxQueue,   \* max_queue
    MaxJobs,    \* bound: jobs accepted in a behaviour
    MaxDrops    \* bound: jobs dropped on a full queue

ASSUME QueueAssumption ==
    MaxQueue \in Nat \ {0} /\ MaxJobs \in Nat /\ MaxDrops \in Nat

VARIABLES
    queue,      \* _queue: jobs accepted and not yet taken by the drain
    pending,    \* _pending
    unfinished, \* _queue's count of jobs put and not yet task_done()
    task,       \* where _task (the drain) is suspended; "none": _task is None
    job,        \* locals of _drain and _process_one: the job taken (a sequence of at most one)
    thread,     \* what the executor's thread has done with the job
    stopper,    \* where the coroutine running stop() is suspended
    processed,  \* _processed
    dropped,    \* _dropped
    errors,     \* _errors
    accepted,   \* history: jobs for which enqueue() returned True
    settled,    \* history: jobs stored or failed, in order
    owed        \* history: jobs that a call of stop() is to see done

stats == <<processed, errors>>
stopping == <<stopper, owed>>

vars == <<queue, pending, unfinished, task, job, thread, stopper, processed,
          dropped, errors, accepted, settled, owed>>

Jobs == [id : 1 .. MaxJobs, key : Keys]

TypeOK ==
    /\ queue \in Seq(Jobs) /\ Len(queue) <= MaxQueue
    /\ pending \in SUBSET Keys
    /\ unfinished \in 0 .. MaxQueue + 1
    /\ task \in {"none", "waiting", "running", "cancelled"}
    /\ job \in Seq(Jobs) /\ Len(job) <= 1
    /\ thread \in {"idle", "busy", "returned", "raised", "orphan"}
    /\ stopper \in {"idle", "join", "joining", "joined", "await_task", "stopped"}
    /\ processed \in 0 .. MaxJobs /\ errors \in 0 .. MaxJobs
    /\ dropped \in 0 .. MaxDrops /\ accepted \in 0 .. MaxJobs
    /\ settled \in Seq(1 .. MaxJobs)
    /\ owed \in SUBSET (1 .. MaxJobs)

Ids(jobs) == [i \in DOMAIN jobs |-> jobs[i].id]

Init ==
    /\ queue = <<>> /\ pending = {} /\ unfinished = 0
    /\ task = "none" /\ job = <<>> /\ thread = "idle" /\ stopper = "idle"
    /\ processed = 0 /\ dropped = 0 /\ errors = 0
    /\ accepted = 0 /\ settled = <<>> /\ owed = {}

-----------------------------------------------------------------------------
(* enqueue(): called by the request handler; no await inside.               *)

\* Mutation: the queue has no maxsize.
AcceptUnbounded(k) ==
    /\ k \notin pending
    /\ accepted < MaxJobs
    /\ accepted' = accepted + 1
    /\ pending' = pending \cup {k}
    /\ queue' = Append(queue, [id |-> accepted + 1, key |-> k])
    /\ unfinished' = unfinished + 1
    /\ UNCHANGED <<task, job, thread, stats, dropped, settled, stopping>>

\* The key is claimed and the job put in the queue.
Accept(k) ==
    /\ k \notin pending
    /\ Len(queue) < MaxQueue
    /\ accepted < MaxJobs
    /\ accepted' = accepted + 1
    /\ pending' = pending \cup {k}
    /\ queue' = Append(queue, [id |-> accepted + 1, key |-> k])
    /\ unfinished' = unfinished + 1
    /\ UNCHANGED <<task, job, thread, stats, dropped, settled, stopping>>

\* Mutation: the claim on the key is not released when the queue is full.
DropKeepsClaim(k) ==
    /\ k \notin pending
    /\ Len(queue) >= MaxQueue
    /\ dropped < MaxDrops
    /\ dropped' = dropped + 1
    /\ pending' = pending \cup {k}
    /\ UNCHANGED <<queue, unfinished, task, job, thread, stats, accepted, settled, stopping>>

\* QueueFull: the claim is released and the job dropped.
Drop(k) ==
    /\ k \notin pending
    /\ Len(queue) >= MaxQueue
    /\ dropped < MaxDrops
    /\ dropped' = dropped + 1
    /\ UNCHANGED <<queue, pending, unfinished, task, job, thread, stats, accepted, settled, stopping>>

-----------------------------------------------------------------------------
(* start() and the drain.                                                   *)

Start ==
    /\ task = "none" /\ stopper = "idle"
    /\ task' = "waiting"
    /\ UNCHANGED <<queue, pending, unfinished, job, thread, stats, dropped, accepted,
                   settled, stopping>>

\* Mutation: the youngest job is taken first.
GetJobLifo ==
    IF queue = <<>>
    THEN task' = "waiting" /\ job' = <<>> /\ thread' = "idle" /\ UNCHANGED queue
    ELSE /\ task' = "running"
         /\ job' = <<queue[Len(queue)]>>
         /\ queue' = SubSeq(queue, 1, Len(queue) - 1)
         /\ thread' = "busy"

\* await _queue.get(), which suspends only if the queue is empty, and the
\* submission of the job's compress() to the thread.
GetJob ==
    IF queue = <<>>
    THEN task' = "waiting" /\ job' = <<>> /\ thread' = "idle" /\ UNCHANGED queue
    ELSE /\ task' = "running"
         /\ job' = <<Head(queue)>>
         /\ queue' = Tail(queue)
         /\ thread' = "busy"

\* The drain, suspended in get(), finds a job.
Take ==
    /\ task = "waiting" /\ queue # <<>>
    /\ GetJob
    /\ UNCHANGED <<pending, unfinished, stats, dropped, accepted, settled, stopping>>

\* compress() ends in the thread: it returned a result, or raised.
ThreadEnds ==
    /\ thread = "busy"
    /\ thread' \in {"returned", "raised"}
    /\ UNCHANGED <<queue, pending, unfinished, task, job, stats, dropped, accepted,
                   settled, stopping>>

\* Mutation: a store() that raises is not counted.
OutcomeUncounted ==
    \/ thread = "returned" /\ processed' = processed + 1 /\ UNCHANGED errors
    \/ thread = "returned" /\ UNCHANGED stats
    \/ thread = "raised" /\ errors' = errors + 1 /\ UNCHANGED processed

\* job.store(result) ran, or compress or store raised.
Outcome ==
    \/ thread = "returned" /\ processed' = processed + 1 /\ UNCHANGED errors
    \/ errors' = errors + 1 /\ UNCHANGED processed

\* The finally clause of _process_one.
Release == pending' = pending \ {job[i].key : i \in DOMAIN job}

\* Mutation: any task_done() releases join().
TaskDoneReleases ==
    /\ unfinished' = unfinished - 1
    /\ IF stopper = "joining"
       THEN stopper' = "joined" /\ UNCHANGED owed
       ELSE UNCHANGED stopping

\* _queue.task_done(): at zero it releases a waiting join().
TaskDone ==
    /\ unfinished' = unfinished - 1
    /\ IF unfinished' = 0 /\ stopper = "joining"
       THEN stopper' = "joined" /\ UNCHANGED owed
       ELSE UNCHANGED stopping

\* Mutation: _process_one has no "except Exception": a failure ends the drain.
ResumeUncaught ==
    /\ task = "running" /\ thread \in {"returned", "raised"}
    /\ Outcome
    /\ Release
    /\ settled' = settled \o Ids(job)
    /\ TaskDone
    /\ IF errors' = errors
       THEN GetJob
       ELSE task' = "running" /\ job' = <<>> /\ thread' = "idle" /\ UNCHANGED queue
    /\ UNCHANGED <<dropped, accepted>>

\* The drain resumes from the executor: _process_one to its end, task_done,
\* and the next get().
Resume ==
    /\ task = "running" /\ thread \in {"returned", "raised"}
    /\ Outcome
    /\ Release
    /\ settled' = settled \o Ids(job)
    /\ TaskDone
    /\ GetJob
    /\ UNCHANGED <<dropped, accepted>>

-----------------------------------------------------------------------------
(* stop(), called once by the lifespan's shutdown; the executor is shut     *)
(* down without waiting as soon as it returns.                              *)

StopBegin ==
    /\ stopper = "idle"
    /\ stopper' = IF task = "none" THEN "stopped" ELSE "join"
    /\ owed' = IF task = "none" THEN {} ELSE 1 .. accepted
    /\ UNCHANGED <<queue, pending, unfinished, task, job, thread, stats, dropped, accepted,
                   settled>>

\* wait_for starts join(), which returns at once if every job is done.
Join ==
    /\ stopper = "join"
    /\ stopper' = IF unfinished = 0 THEN "joined" ELSE "joining"
    /\ UNCHANGED <<queue, pending, unfinished, task, job, thread, stats, dropped, accepted,
                   settled, owed>>

\* Mutation: join() is awaited without a timeout.
JoinTimesOutNever == FALSE

\* The 5 seconds of wait_for are over.
JoinTimesOut ==
    /\ stopper \in {"join", "joining"}
    /\ stopper' = "joined" /\ owed' = {}
    /\ UNCHANGED <<queue, pending, unfinished, task, job, thread, stats, dropped, accepted,
                   settled>>

\* _task.cancel(): from here on the drain can only be cancelled, also when
\* the result of its job is already there.
Cancel ==
    /\ stopper = "joined"
    /\ stopper' = "await_task"
    /\ task' = "cancelled"
    /\ UNCHANGED <<queue, pending, unfinished, job, thread, stats, dropped, accepted,
                   settled, owed>>

\* Mutation: task_done() is not in a finally clause.
CancelledNoTaskDone ==
    /\ task = "cancelled"
    /\ task' = "none"
    /\ Release
    /\ job' = <<>>
    /\ thread' = IF thread = "busy" THEN "orphan" ELSE "idle"
    /\ UNCHANGED <<queue, unfinished, stats, dropped, accepted, settled, stopping>>

\* CancelledError passes "except Exception" and runs the finally clauses; a
\* running thread is not stopped, but nobody waits for its result.
Cancelled ==
    /\ task = "cancelled"
    /\ task' = "none"
    /\ Release
    /\ unfinished' = unfinished - Len(job)
    /\ job' = <<>>
    /\ thread' = IF thread = "busy" THEN "orphan" ELSE "idle"
    /\ UNCHANGED <<queue, stats, dropped, accepted, settled, stopping>>

OrphanEnds ==
    /\ thread = "orphan"
    /\ thread' = "idle"
    /\ UNCHANGED <<queue, pending, unfinished, task, job, stats, dropped, accepted,
                   settled, stopping>>

StopEnds ==
    /\ stopper = "await_task" /\ task = "none"
    /\ stopper' = "stopped"
    /\ UNCHANGED <<queue, pending, unfinished, task, job, thread, stats, dropped, accepted,
                   settled, owed>>

-----------------------------------------------------------------------------
Next ==
    \/ \E k \in Keys : Accept(k) \/ Drop(k)
    \/ Start \/ Take \/ ThreadEnds \/ Resume
    \/ StopBegin \/ Join \/ JoinTimesOut \/ Cancel \/ Cancelled \/ OrphanEnds \/ StopEnds

Spec == Init /\ [][Next]_vars

(***************************************************************************)
(* The loop runs every ready coroutine and a timer fires; startup starts   *)
(* the drain.  Nothing is assumed of the thread: compress() may not end.   *)
(***************************************************************************)
FairSpec ==
    /\ Spec
    /\ WF_vars(Start) /\ WF_vars(Take) /\ WF_vars(Resume)
    /\ WF_vars(Join) /\ WF_vars(JoinTimesOut) /\ WF_vars(Cancel)
    /\ WF_vars(Cancelled) /\ WF_vars(StopEnds)

-----------------------------------------------------------------------------
SettledIds == {settled[i] : i \in DOMAIN settled}

\* The jobs accepted and neither settled nor cancelled, oldest first.
InFlight == job \o queue

\* enqueue's dedup: the claimed keys are exactly those of the jobs queued or
\* being processed, no two of which share a key -- on every path out of
\* enqueue and _process_one: a full queue, a failed compress or store, and a
\* cancelled drain.  A leaked claim would bar its session for good.
PendingExact ==
    /\ pending = {InFlight[i].key : i \in DOMAIN InFlight}
    /\ \A i, j \in DOMAIN InFlight : InFlight[i].key = InFlight[j].key => i = j

\* The count that join() waits on is the number of jobs queued or being
\* processed, also after the drain was cancelled: join() can neither return
\* while a job is left nor wait for one that is gone.
UnfinishedExact == unfinished = Len(InFlight)

\* The single drain settles jobs in the order they were accepted, each at
\* most once, and the ones still in flight are younger than all of those: a
\* late result never overwrites a newer one of its session in the cache.
SettledInOrder ==
    LET order == settled \o Ids(InFlight)
    IN  \A i, j \in DOMAIN order : i < j => order[i] < order[j]

\* What stats() reports adds up: every accepted job is processed, failed,
\* queued or being processed, but for the one that stop() may cancel.
AtMostOneLost ==
    accepted - (processed + errors + unfinished)
        \in IF stopper \in {"await_task", "stopped"} THEN {0, 1} ELSE {0}

\* stop(drain=True): unless its timeout struck, every job accepted before
\* stop() was called has been settled when the drain is cancelled, whatever
\* was enqueued meanwhile.
StopDrains ==
    stopper \in {"joined", "await_task", "stopped"} => owed \subseteq SettledIds

\* A job is settled or stop() comes, as long as compress() calls end.
AcceptedSettles ==
    []<>(thread # "busy") =>
        \A n \in 1 .. MaxJobs :
            (accepted >= n) ~> (n \in SettledIds \/ stopper # "idle")

\* stop() returns even if a compress() never does: the drain is cancelled
\* while its thread goes on.
StopReturns == (stopper = "join") ~> (stopper = "stopped")

=============================================================================
