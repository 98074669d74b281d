---------------------------- MODULE AuditBuffer ----------------------------
(***************************************************************************)
(* The in-memory audit buffer of headroom/usage/buffer.py: request audit   *)
(* entries wait in a deque until the flush loop, or the final drain of     *)
(* stop(), writes them in batches to Neo4j (AuditStore.insert_batch).      *)
(*                                                                         *)
(* Everything runs on one asyncio loop, so an action is what a coroutine   *)
(* does between two awaits; _insert is a plain blocking call and lies      *)
(* inside such a step.  Entries are numbered in the order they arrive.     *)
(***************************************************************************)
EXTENDS Naturals, Sequences, FiniteSets, Functions

CONSTANTS
    MaxSize,        \* max_size: hard cap of the deque
    BatchSize,      \* batch_size: entries that trigger, and bound, one flush
    FlushTicks,     \* flush_interval_seconds in iterations of the loop's sleep(0.5)
    LostReply,      \* an insert may commit and still raise (the reply is lost)
    MaxEntries,     \* bound: entries enqueued in a behaviour
    MaxLifespans    \* bound: start()/stop() cycles of the one AuditLogger

ASSUME SizeAssumption ==
    /\ MaxSize \in Nat \ {0} /\ BatchSize \in Nat \ {0} /\ FlushTicks \in Nat
    /\ MaxEntries \in Nat /\ MaxLifespans \in Nat /\ LostReply \in BOOLEAN

VARIABLES
    deque,      \* _deque
    running,    \* _running
    task,       \* where _task (the flush loop) is suspended; "none": _task is None
    batch,      \* local of _flush_loop: popped and not yet written
    elapsed,    \* time since last_flush, in loop iterations, capped at FlushTicks
    stopper,    \* where the coroutine running stop() is suspended
    drained,    \* _drained
    log,        \* the RequestLog nodes created in Neo4j, in order of creation
    next,       \* number of the next entry
    overflow,   \* entries enqueue() dropped at capacity
    gaveUp,     \* entries dropped after a failed retry
    replyLost,  \* some insert committed and raised
    up,         \* the proxy is between the startup and the shutdown of a lifespan
    lifespans   \* lifespans begun; the AuditLogger singleton outlives each

lifecycle == <<up, lifespans>>
neo4j == <<log, replyLost>>

vars == <<deque, running, task, batch, elapsed, stopper, drained, log, next,
          overflow, gaveUp, replyLost, up, lifespans>>

Entries == 0 .. MaxEntries - 1

TypeOK ==
    /\ deque \in Seq(Entries) /\ Len(deque) <= MaxSize
    /\ batch \in Seq(Entries) /\ Len(batch) <= BatchSize
    /\ drained \in Seq(Entries) /\ log \in Seq(Entries)
    /\ running \in BOOLEAN
    /\ task \in {"none", "created", "sleep", "retry", "cancelled"}
    /\ elapsed \in 0 .. FlushTicks
    /\ stopper \in {"idle", "await_task", "retry"}
    /\ next \in 0 .. MaxEntries
    /\ overflow \in SUBSET Entries /\ gaveUp \in SUBSET Entries
    /\ replyLost \in BOOLEAN /\ up \in BOOLEAN /\ lifespans \in 0 .. MaxLifespans

Init ==
    /\ deque = <<>> /\ batch = <<>> /\ drained = <<>> /\ log = <<>>
    /\ running = FALSE /\ task = "none" /\ stopper = "idle"
    /\ elapsed = 0 /\ next = 0 /\ lifespans = 0
    /\ overflow = {} /\ gaveUp = {} /\ up = FALSE /\ replyLost = FALSE

-----------------------------------------------------------------------------
(* AuditStore.insert_batch: one UNWIND ... CREATE in one transaction.       *)

InsertCommits(b) == log' = log \o b /\ UNCHANGED replyLost

\* The call raises: nothing was written, or the commit's reply was lost.
InsertRaises(b) ==
    \/ UNCHANGED neo4j
    \/ LostReply /\ log' = log \o b /\ replyLost' = TRUE

-----------------------------------------------------------------------------
\* Mutation: the capacity test is off by one.
EnqueueOffByOne ==
    /\ next < MaxEntries /\ lifespans > 0
    /\ next' = next + 1
    /\ IF Len(deque) > MaxSize
       THEN /\ deque' = Append(Tail(deque), next)
            /\ overflow' = overflow \cup {Head(deque)}
       ELSE /\ deque' = Append(deque, next)
            /\ UNCHANGED overflow
    /\ UNCHANGED <<running, task, batch, elapsed, stopper, drained, neo4j, gaveUp, lifecycle>>

\* AuditLogger.log, once the logger exists: append, at capacity drop the oldest.
Enqueue ==
    /\ next < MaxEntries /\ lifespans > 0
    /\ next' = next + 1
    /\ IF Len(deque) >= MaxSize
       THEN /\ deque' = Append(Tail(deque), next)
            /\ overflow' = overflow \cup {Head(deque)}
       ELSE /\ deque' = Append(deque, next)
            /\ UNCHANGED overflow
    /\ UNCHANGED <<running, task, batch, elapsed, stopper, drained, neo4j, gaveUp, lifecycle>>

\* The lifespan's startup creates the logger and starts it ...
Start ==
    /\ ~up /\ lifespans < MaxLifespans
    /\ up' = TRUE /\ lifespans' = lifespans + 1
    /\ running' = TRUE
    /\ task' = "created"
    /\ UNCHANGED <<deque, batch, elapsed, stopper, drained, neo4j, next, overflow, gaveUp>>

\* ... or raises in what comes before; the shutdown path runs all the same.  (A
\* startup that raises after it is a Start followed by StopBegin.)
StartupFails ==
    /\ ~up /\ lifespans \in 1 .. MaxLifespans - 1
    /\ up' = TRUE /\ lifespans' = lifespans + 1
    /\ UNCHANGED <<deque, running, task, batch, elapsed, stopper, drained, neo4j, next,
                   overflow, gaveUp>>

-----------------------------------------------------------------------------
(* _flush_loop: one iteration, from the top of the while to the next await. *)

\* Mutation: only the batch size triggers a flush.
ShouldFlushOnSize(ticks) == Len(deque) >= BatchSize /\ ticks >= 0

ShouldFlush(ticks) ==
    \/ Len(deque) >= BatchSize
    \/ deque # <<>> /\ ticks >= FlushTicks

Popped == IF Len(deque) < BatchSize THEN Len(deque) ELSE BatchSize

\* A created task sets last_flush = now; a sleeping one finds 0.5 s elapsed.
TicksNow ==
    IF task = "created" \/ elapsed >= FlushTicks
    THEN IF task = "created" THEN 0 ELSE FlushTicks
    ELSE elapsed + 1

LoopIdle ==
    /\ task \in {"created", "sleep"} /\ running
    /\ ~ShouldFlush(TicksNow)
    /\ task' = "sleep"
    /\ elapsed' = TicksNow
    /\ UNCHANGED <<deque, running, batch, stopper, drained, neo4j, next, overflow, gaveUp, lifecycle>>

LoopFlush ==
    /\ task \in {"created", "sleep"} /\ running
    /\ ShouldFlush(TicksNow)
    /\ deque' = SubSeq(deque, Popped + 1, Len(deque))
    /\ LET b == SubSeq(deque, 1, Popped)
       IN  \/ /\ InsertCommits(b)
              /\ task' = "sleep" /\ elapsed' = 0
              /\ batch' = <<>>
           \/ /\ InsertRaises(b)
              /\ task' = "retry" /\ elapsed' = TicksNow
              /\ batch' = b
    /\ UNCHANGED <<running, stopper, drained, next, overflow, gaveUp, lifecycle>>

\* Mutation: a batch that failed twice goes back to the queue's end.
LoopRetryRequeues ==
    /\ task = "retry" /\ running
    /\ \/ /\ InsertCommits(batch)
          /\ UNCHANGED deque
       \/ /\ InsertRaises(batch)
          /\ deque' = deque \o batch
    /\ batch' = <<>>
    /\ task' = "sleep" /\ elapsed' = 0
    /\ UNCHANGED <<running, stopper, drained, next, overflow, gaveUp, lifecycle>>

\* Mutation: a failed retry forgets the batch without a word.
LoopRetrySilent ==
    /\ task = "retry" /\ running
    /\ InsertCommits(batch) \/ InsertRaises(batch)
    /\ batch' = <<>>
    /\ task' = "sleep" /\ elapsed' = 0
    /\ UNCHANGED <<deque, running, stopper, drained, next, overflow, gaveUp, lifecycle>>

\* _do_flush after its sleep(1.0): a second failure drops the batch.
LoopRetry ==
    /\ task = "retry" /\ running
    /\ \/ /\ InsertCommits(batch)
          /\ UNCHANGED gaveUp
       \/ /\ InsertRaises(batch)
          /\ gaveUp' = gaveUp \cup Range(batch)
    /\ batch' = <<>>
    /\ task' = "sleep" /\ elapsed' = 0
    /\ UNCHANGED <<deque, running, stopper, drained, next, overflow, lifecycle>>

-----------------------------------------------------------------------------
(* stop()                                                                   *)

\* "Final drain" and the first attempt of its _do_flush.
FinalDrain ==
    LET d == drained \o deque
    IN  /\ deque' = <<>>
        /\ drained' = d
        /\ \/ /\ d = <<>>
              /\ stopper' = "idle" /\ up' = FALSE /\ UNCHANGED neo4j
           \/ /\ d # <<>> /\ InsertCommits(d)
              /\ stopper' = "idle" /\ up' = FALSE
           \/ /\ d # <<>> /\ InsertRaises(d)
              /\ stopper' = "retry" /\ UNCHANGED up

\* running = FALSE; with a task: cancel() it and await it; without: drain at once.
StopBegin ==
    /\ stopper = "idle" /\ up
    /\ running' = FALSE
    /\ IF task = "none"
       THEN FinalDrain
       ELSE /\ stopper' = "await_task"
            /\ UNCHANGED <<deque, drained, neo4j, up>>
    /\ UNCHANGED <<task, batch, elapsed, next, overflow, gaveUp, lifespans>>

\* CancelledError is thrown into the loop at its await; its locals are gone.
TaskCancelled ==
    /\ stopper = "await_task" /\ task # "cancelled"
    /\ task' = "cancelled"
    /\ batch' = <<>>
    /\ UNCHANGED <<deque, running, elapsed, stopper, drained, neo4j, next, overflow, gaveUp, lifecycle>>

StopResume ==
    /\ stopper = "await_task" /\ task = "cancelled"
    /\ task' = "none"
    /\ FinalDrain
    /\ UNCHANGED <<running, batch, elapsed, next, overflow, gaveUp, lifespans>>

StopRetry ==
    /\ stopper = "retry"
    /\ \/ /\ InsertCommits(drained)
          /\ UNCHANGED gaveUp
       \/ /\ InsertRaises(drained)
          /\ gaveUp' = gaveUp \cup Range(drained)
    /\ stopper' = "idle" /\ up' = FALSE
    /\ UNCHANGED <<deque, running, task, batch, elapsed, drained, next, overflow, lifespans>>

-----------------------------------------------------------------------------
Loop == LoopIdle \/ LoopFlush \/ LoopRetry

Stop == StopBegin \/ TaskCancelled \/ StopResume \/ StopRetry

Next == Enqueue \/ Start \/ StartupFails \/ Loop \/ Stop

Spec == Init /\ [][Next]_vars

\* asyncio keeps resuming a task whose sleep is over: the loop and a stop()
\* that has begun run on; nothing forces requests, start() or stop() to come.
FairSpec ==
    /\ Spec
    /\ WF_vars(Loop)
    /\ WF_vars(TaskCancelled \/ StopResume \/ StopRetry)

-----------------------------------------------------------------------------
Increasing(s) == \A i, j \in 1 .. Len(s) : i < j => s[i] < s[j]

\* buffer.py, enqueue/_flush_loop/stop over one lifespan and with no reply lost:
\* whatever the order of requests, flushes, retries and shutdown, the audit trail
\* holds every entry at most once and in the order the requests completed.
FifoAtMostOnce == (lifespans <= 1 /\ ~replyLost) => Increasing(log)

\* Entries the buffer still holds, wrote, or dropped with a log line.
Accounted ==
    Range(deque) \cup Range(batch) \cup Range(log) \cup overflow \cup gaveUp
        \cup (IF stopper = "retry" THEN Range(drained) ELSE {})

\* Calls of stop() that have begun.
Shutdowns == IF up /\ stopper = "idle" THEN lifespans - 1 ELSE lifespans

\* buffer.py, enqueue, _flush_loop and stop: while the loop runs no entry disappears
\* unaccounted for; a shutdown that cancels the loop inside its retry sleep loses
\* that one batch and nothing else; and an entry that overflow dropped is older
\* than every entry still waiting.
LossBounded ==
    /\ Cardinality((0 .. next - 1) \ Accounted) <= BatchSize * Shutdowns
    /\ \A e \in overflow : \A i \in 1 .. Len(deque) : e < deque[i]

\* buffer.py, _do_flush and stop: one retry, so an entry is written at most twice
\* for each lifespan that still remembers it, however many replies are lost.  The
\* retry repeats a CREATE, which is not the idempotent write of which the store's
\* docstring speaks (WritesIdempotent, below); this is how far it can go.
DuplicatesBounded ==
    \A e \in Entries :
        Cardinality({i \in 1 .. Len(log) : log[i] = e}) <= 2 * lifespans

\* buffer.py, _flush_loop: a waiting entry leaves the deque (batch size or flush
\* interval) unless the buffer is stopped first.
EventuallyFlushed ==
    \A e \in Entries :
        (e \in Range(deque) /\ running) ~> (e \notin Range(deque) \/ ~running)

\* The documented contract of stop(): "Flush remaining entries and cancel the
\* background task."  Once it has returned, every entry accepted before was
\* written, or dropped for a logged reason.
StopFlushesRemaining ==
    (lifespans > 0 /\ ~up) => 0 .. next - 1 \subseteq Accounted

\* The documented contract of the store: "All writes are idempotent batch
\* operations via UNWIND $batch CREATE."  To write a batch again leaves the
\* trail as it is, so no entry is there twice.
WritesIdempotent == IsInjective(log)
=============================================================================
