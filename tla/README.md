# headroomgate in TLA+

headroomgate is a proxy between coding agents and LLM providers. It compresses
the context of requests, keeps the originals so that the model can fetch them
back (CCR, compress-cache-retrieve), and adds authentication, rate limits and an
audit log. This directory models the parts of it that keep shared state across
threads, coroutines and restarts, checks them with TLC on small instances, and
proves their safety properties with TLAPS for all instances.

Paths below are relative to the repository (`headroom/...` is the Python
package). `PROJECT.json` maps each definition to the lines it models.

## 1. Inventory

### Modelled

| Part | State | Operations | Hard because |
| --- | --- | --- | --- |
| CCR compression store, `headroom/cache/compression_store.py`, with `cache/backends/{memory,sqlite}.py` | entries by hash, a lazy eviction heap of (created_at, hash), a counter of stale heap tuples, a queue of feedback events | `store`, `retrieve`, `get_metadata`, `exists`, `get_entry_status`, `get_stats`, `clear`, `process_pending_feedback` | called from many threads; `store` gives up its lock between forwarding feedback and committing; expiry on read; the SQLite backend deletes rows by itself and survives restarts that the heap does not |
| Usage audit buffer, `headroom/usage/{buffer,logger,store}.py` | a bounded deque, the flush task and the batch it holds, `_drained` | `enqueue`, `start`, the flush loop, `_do_flush` with one retry, `stop` | one event loop, but batches are held across awaits; inserts fail or lose their reply; shutdown cancels the loop anywhere; the logger outlives a lifespan |
| Background compressor, `headroom/proxy/background_compression.py` | a bounded queue, the set of claimed session keys, asyncio's count of unfinished jobs, the drain task, a thread that cannot be interrupted | `enqueue`, the drain, `start`, `stop` | claim and release happen in different methods; `stop` races a result, a timeout and new jobs |
| Compression executor, `headroom/proxy/server.py` (1109-1135, 1360-1500), with the circuit breaker of `headroom/transforms/pipeline.py` | a bounded thread pool and its queue, a state dict per call, gauges under one lock, the timeout debt; the breaker's count and cooldown | `_run_compression_in_executor` (a coroutine and a thread per call), `_breaker_record_failure`, `_breaker_record_success`, `_breaker_is_open` | a thread cannot be stopped: deadline, cancellation, late start and late end race, and both halves keep the same gauges |
| Turns of a session: `headroom/cache/{prefix_tracker,compression_cache}.py` as `headroom/proxy/handlers/anthropic.py` (1100-1156, 1247-1670) uses them | trackers by lineage with the messages received and forwarded, an LRU cache of compressed forms, the hashes known to be stable, one background job | resolving the tracker, the token and cache modes, fast pass and background job, recompaction of a history whose cache has lapsed, overlay of the recorded prefix, inflation guard, recording the answer, expiry | requests of a session overlap and read records that another one replaces; the provider's prompt cache rewards only byte-equal prefixes |
| Admission: `headroom/proxy/{rate_limiter,rate_limit_policy}.py` behind `plugins/headroom-auth/src/headroom_auth/rate_limiter.py` | buckets with lazy refill per API key, and per user with the limit of the user's role | `check_request`, `_cleanup_stale_buckets`; `check_rate_limit`, `_cleanup_if_needed` | buckets are dropped and come back full; limits change; the proxy's clock may be set back |

How they interact: request handlers call `store`/`retrieve` from worker threads,
`AuditLogger.log` and `BackgroundCompressor.enqueue` from the event loop. The
store forwards events to `CompressionFeedback`, the telemetry collector and TOIN.
The lifespan in `headroom/proxy/server.py` (2500-2590) starts the background
compressor and the audit logger in that order and stops them in that order, also
after a startup that failed half way. A background job ends by updating the
session's `CompressionCache`. A request passes the gateway's limiter, the proxy's
limiter, and then compresses its messages on the executor; the first turn of a
session takes a fast pass and leaves the full one to the background compressor.

What makes them correct:

- *Store*: never more than `max_entries` entries; an entry can always be evicted
  (it is in the heap); the first created goes first and only to make room; each feedback
  event is forwarded exactly once; a retrieval's event is forwarded in the end.
- *Audit*: each request is logged at most once, in order; entries disappear only
  for a logged reason, or with the one batch in hand at a shutdown; waiting
  entries are flushed.
- *Background compression*: at most one job per session in flight, no leaked
  claim, jobs settled in order, `stop` waits for what was accepted and always
  returns, at most one job is lost and every other one is counted.
- *Executor*: the debt is exact and the gauges count the calls they should, plus the
  ones known to leak, whatever order the two halves of a call run in; once a thread
  is known to outlive its call, at most one more call gets in; every call is answered
  although a thread may hang; the quarantine ends when the last such thread does;
  the breaker opens on consecutive failures only.
- *Turns*: what is forwarded is the client's content in some form; unless the turn
  is cold, a prefix that was forwarded before is forwarded again byte by byte;
  a compressed form is never used for another content; a history belongs to one lineage.
- *Admission*: in every window a key or user spends at most a full bucket plus the
  time that passed; a client that waits as told is allowed.

### Not modelled

Worth modelling, and in what is left of the plan: the WebSocket session registry,
the semantic cache, the CCR session and tool trackers, the CCR response handler's
rounds, the batch context store, the auth gateway's identity cache.

Left out for good, with the reason in `PROJECT.json`: compression transforms (pure
text transformation, judged by its quality), the Rust proxy and core (a second
implementation), memory search, savings and subscription reporting, admin,
settings and installers, providers, tokenizers, evals, integrations and SDKs, and
of the request handlers everything but the flow of a turn: HTTP plumbing and
sequential rewriting of bodies. These are most of the repository's lines; the
shared state that is hard to test is in a few thousand of them.

## 2. Plan

Done:

1. `CompressionStore` (the core), `CompressionStoreRestart`, `AuditBuffer`,
   `BackgroundCompression`; first proofs for the first and the last.
2. `TokenBucket`, the abstract specification of a limiter; `RateLimiter`, shown to
   implement it; `RequestAdmission`, both limiters in a row; proofs.
3. `SessionTurns`: cache, tracker, fast pass and background job under overlapping
   requests.
4. `CompressionExecutor` with the circuit breaker; proofs.
5. Failing SQLite calls and a corrupt file in `CompressionStoreRestart`; a bound on
   the eviction heap.

6. Proofs of every invariant and action property that a run checks: the stale
   counter, the bound on the heap, evictions only for room and the feedback events
   of `CompressionStore`; `CompressionStoreRestart`; `AuditBuffer`; the order of jobs
   and the draining stop of `BackgroundCompression`; `SessionTurns`.

Left, in this order:

1. The CCR response handler's rounds over the store; the WebSocket registry; the
   batch context store; the identity cache while its database is away.
2. Two worker processes on one SQLite file.
3. Proofs of a stronger kind: that the audit buffer implements an abstract queue
   whose reader may skip and repeat within the proved bounds, and that the store
   implements a map of bounded size.

## 3. Modules

`CompressionStore` -- an action is one section that holds the store's lock, or a
step between two of them. `StoreBegin` is `store` up to
`process_pending_feedback`; `Swap` takes the queued events and looks their
entries up under the lock; `Deliver` forwards one to the sinks outside it;
`StoreCommit` is the second locked section, `Overwrite` for a key that is present
and `Insert`, with `_evict_if_needed`, for a new one. `RetrieveHit` is `retrieve`
of an entry that is there, which queues an event and goes on to `Swap`.
`DropExpired` is what `retrieve`, `get_metadata`, `exists` and
`get_entry_status` do to an expired entry; `GetStats` and `Clear` are the methods
of those names; `Tick` is the clock. Keys are numbers, since the heap orders
tuples by time and then hash. The eviction loop is not run pop by pop: what it
pops is an initial segment of the heap's order, `LoopPops(P)`, that is the
shortest one after which the loop's test fails. The variable `sqlite` says which
backend the store has, among `Backends`; `AfterSet` adds the purge of
`SQLiteBackend.set`. Payloads, logging and the display log `_retrieval_events`
are left out.

`CompressionStoreRestart` extends it by `Restart`: the database stays, without
expired rows; heap, counter, queued events and calls under way are gone. It also
has one call of the backend fail (`Fault`): `SQLiteBackend` turns an error into a
miss, a zero or a no-op, and the store's method goes on. `FaultySwap` is a lookup that fails in
`process_pending_feedback` after the queue was reset; `FaultyStore` lists what
that does at each call inside `store` and `_evict_if_needed`: a present key taken
for a new one, an overwrite or insert that is not written, a sweep or rebuild that
sees no rows, a count of zero, a popped tuple whose entry is not found or not
deleted. The other `Faulty` actions do the same for `retrieve`, the lookups,
`get_stats` and `clear`. `Corruption` is the file replaced by an empty one, as a
step between two calls. Failures that change nothing (a miss) are stutters.

`AuditBuffer` -- an action is what a coroutine does between two awaits.
`LoopIdle`, `LoopFlush`, `LoopRetry` are the flush loop with `_do_flush`;
`StopBegin`, `TaskCancelled`, `StopResume`, `StopRetry` are `stop`. Neo4j is
external: an insert commits, raises, or commits and raises. Entries are numbers
in order of arrival; `log` is the sequence of nodes created.

`BackgroundCompression` -- `Accept` and `Drop` are `enqueue`; `Take`, `Resume`
the drain (`Resume` runs `_process_one` to its end, `task_done` and the next
`get`, which does not suspend if a job is there); `ThreadEnds` and `OrphanEnds`
the executor's thread; `StopBegin`, `Join`, `JoinTimesOut`, `Cancel`,
`Cancelled`, `StopEnds` are `stop`. A `join` that was released returns even if a
job arrives before it resumes, hence the state `"joined"`. One lifespan.

`CompressionExecutor` -- a call has a coroutine, `pc[c]`, and a future, `run[c]`.
`Check` and `Submit` are the quarantine test and the submission (`busy` is the
call between them: nothing else of the loop runs there); `PickUp`, `WrappedStart`,
`EnterPipeline`, `PipelineReturns`/`PipelineRaises`, `WrappedFinish` are the
thread; `Return`, `Deadline`, `TimeoutHandler`, `RequestCancelled` are how the
wait ends. The flags of the call's state dict are sets of calls. `RecordDebt` is
`_record_timeout_debt_if_started_locked`, called from both halves. `early`,
`streak` and `beside` are history variables; the last one holds the calls submitted
since there are `Stragglers`, threads known to run for a call that timed out.
Sums of seconds and high-water marks are left out.

`SessionTurns` -- a message is a content, what is forwarded for it a form of it:
`raw`, `small`, or `big` where compression made it longer. The pipeline is any
function that keeps the number of messages and leaves the frozen ones alone.
`Prepare` is a token-mode turn up to its await (fast pass on a cold start, with the
background job queued), `TokenDone`/`TokenFails` what follows it; `CacheNoDelta`,
`CacheDelta`, `CacheDone` are cache mode, with `CacheCold` for the turn that finds the
provider's cache lapsed. That is decided in `Fetch`: `recompact` is the setting of
`HEADROOM_COLD_RECOMPACT` ("off", "idle" for by idle time, "always" for a client
without prompt caching), and a tracker that was there before may have been idle for
long enough or not (`MayBeCold`). A cold turn freezes nothing in token mode, sends the
whole history to the pipeline in cache mode, and skips the overlay in both.
`SkipCompression` is a bypassed turn;
`BackgroundDone`/`BackgroundFails` the job. `Forward` overlays the recorded prefix,
unless the turn is cold, and applies the inflation guard; `Respond` and
`UpstreamFails` end a turn, the
first with the record that the next turn starts from. `Resolve` picks, creates or
shares a tracker and lets idle ones expire. `StoreAll` is the loop of `apply_cached`
and of `update_from_result` over the messages, as a recursive function.

`TokenBucket`, `RateLimiter`, `RequestAdmission` -- a bucket is measured in the
time it takes to refill, so the arithmetic is of integers for every rate: a full
bucket is a minute, a request costs 60/rate, a tick puts one unit back.
`RateLimiter` refills lazily and drops stale buckets; `Level(k)` is what the bucket
of `k` would hold if it were used now, and with `level <- Level` the module
implements `TokenBucket`, in which nothing is lazy and nothing is dropped.
`RequestAdmission` puts the gateway's `check_rate_limit` in front, with requests
under way between the two (`inFlight`). `elapsed`, `spent`, `due`, `userSpent` and
`changes` are observers: a window may be opened at any time, and they measure it.

`MC*` modules instantiate these; `*Proofs` modules hold the theorems. Definitions
commented as mutations are the deliberately wrong variants with which each
property was shown to be able to fail; no specification uses them.

## 4. Runs

| Run | Configuration | Result |
| --- | --- | --- |
| `store` | `CompressionStore.cfg`: 3 keys, 2 threads, capacity 2, both backends, 4 stores in memory and 3 over SQLite, fair | holds: types, capacity, heap coverage, stale counter, eviction by age, evictions only for room, events exactly once, heap of less than twice the capacity (in memory), a retrieval's event reaches the feedback system |
| `restart` | `Restart.cfg`: 3 keys, 2 symmetric threads, capacity 1, 3 stores, 1 restart and 1 failed call in any order | holds: at most one entry too many per restart and failed call; no event forwarded twice |
| `restart_oldest_first` | `RestartOldestFirst.cfg` | **violated**, finding 1 |
| `only_retrievals_counted` | `OnlyRetrievalsCounted.cfg` | **violated**, finding 2 |
| `success_never_retrieved` | `SuccessMeansNeverRetrieved.cfg` | **violated**, finding 3 |
| `audit` | `AuditBuffer.cfg`: deque 3, batches of 2, interval 2, 4 entries, 2 lifespans, replies may be lost | holds: order and uniqueness, bounded loss and duplication, overflow, progress |
| `stop_flushes_remaining` | `StopFlushesRemaining.cfg` | **violated**, finding 4 |
| `writes_idempotent` | `WritesIdempotent.cfg` | **violated**, finding 5 |
| `background` | `BackgroundCompression.cfg`: 3 sessions, queue of 2, 4 jobs | holds: claims, join count, order, accounting, draining stop, progress, `stop` returns |
| `executor` | `CompressionExecutor.cfg`: 3 calls, 2 threads, breaker threshold 2 | holds: debt, leak count and in-flight gauge exact, queued gauge too high by cancelled calls only, at most one call slips into the quarantine, breaker on a streak only, every call answered, quarantine lifted |
| `turns` | `SessionTurns.cfg`: overlapping requests, 3 in cache mode and 2 in token mode, 3 histories, cache of one entry, lineage caps 0 and 2, cold recompaction by idle time and always | holds: content of messages and cache intact, lineages distinct, prefix replayed by warm turns |
| `admission` | `RequestAdmission.cfg`: 2 keys, a user whose limit changes once, a minute of 3 ticks, clock set back | holds: both window bounds, honoured waits, refinement of `TokenBucket` |

*Bounds.* With three keys, capacity 2 and three stores the store is full and evicts
while a second thread is anywhere in its call; a fourth store, explored in memory,
lets it overwrite as well before it evicts, which is what outgrows a heap that is
never rebuilt. Over SQLite, where every set may purge, three are explored
(`MCMaxStores`). One more tick than the TTL makes every entry expire. `MaxEvents` stops new
retrievals, not evictions, once that many events exist. With capacity 1, one
restart and one failed call let the store hold three entries, one of each cause and
the one that fits; three keys and three stores get there. The audit instance fills
its deque (3) and holds entries in a batch at the same time (4 in all); a second
lifespan shows what the first one leaves behind. The compressor has a job in the
thread, a full queue, and a drop. Three calls on two threads give a call that waits
in the pool's queue while one runs and one has timed out. A turn
that overlays a record which another one replaced while it was compressing needs
three requests (one to make the record, one to read it and one to replace it), and so
does a turn that has two lineages to choose from (made by `<<t1, u, t2>>` and then
`<<t1>>`, for another `<<t1, u, t2>>`): cache mode has three. In token mode the
cache, the stable hashes and the background job multiply the states, and two are
explored; there a record that another turn has read is replaced only in the proofs,
which are for any number of requests. Of the three histories one goes on from another
and one drops its answer; with cap 0 all requests share a tracker. A response freezes
0, 1 or 3 messages (`Covered`). Setting "off" of cold recompaction is "idle" when
nothing ever lapses. The
limiters' clocks run for longer than it takes a bucket to fill and to become stale.
Thread symmetry is used only where no liveness
is checked. Deadlock is not an error anywhere: when the bounds are used up and
no call is under way, there is nothing left to do.

*Fairness.* Store: a thread inside a call goes on (`WF` of `Continue(t)`); no new
call, tick or `clear` is ever forced. Audit: asyncio resumes the flush loop after
each sleep and a `stop` that has begun; the Neo4j call is blocking and returns or
raises. Compressor: the loop runs ready coroutines, the startup starts the drain
and a timer fires; nothing is assumed of the thread, so `AcceptedSettles` is
stated under the premise that `compress` calls end and `StopReturns` without it.
Executor: the loop runs its callbacks and timers and the pool's threads are
scheduled; nothing is assumed of the pipeline, which may keep a thread for ever, so
`QuarantineLifted` has the premise that every pipeline call ends and `CallsAnswered`
has none.

### Findings

1. *Restart forgets the eviction order.* `CompressionStore.__init__` starts with
   an empty heap (`compression_store.py:242`) while the default SQLite backend
   keeps its entries. After a restart the newest entries are evicted and the old
   ones stay until they expire, against "remove oldest entries using heap"
   (`:692`) and the test "Eviction removes oldest entries first". When the heap
   runs empty the loop gives up, so the capacity is exceeded by up to one entry
   per restart.
2. *Eviction successes counted as retrievals.* If evicted content is stored again
   before its event is forwarded, the event finds the new entry's signature and
   goes to `toin.record_retrieval` and `telemetry.record_retrieval`
   (`compression_store.py:879`, `:912`), which count it. `compression_feedback.py:285`
   says "this event must not be counted as a retrieval."
3. *Retrieved content reported as never retrieved.* A re-store replaces the entry
   by one with `retrieval_count` 0, so its eviction is recorded as a success
   although the model retrieved the content; the docstring at
   `compression_store.py:748` says "was NEVER retrieved".
4. *A shutdown can lose a batch.* `AuditBuffer.stop` cancels the flush loop also
   during the retry sleep (`buffer.py:117`), when the popped batch exists only in
   a local variable; its docstring promises to "Flush remaining entries".
5. *Audit writes are not idempotent.* `usage/store.py:4` says "All writes are
   idempotent batch operations via ``UNWIND $batch CREATE``", but `CREATE` makes a
   new node each time: the retry of an insert that had committed and lost its reply
   puts the request into the trail twice. `DuplicatesBounded` says how far that can
   go, at most twice per lifespan.

Also seen, without a run of their own:

- `_drained` is never emptied, so the `stop` of a second lifespan of the same
  logger inserts the first one's last entries again (`buffer.py:85`), another way to
  write twice, for which `DuplicatesBounded` allows.
- Eviction is not LRU. The class docstring promises "LRU-style eviction when capacity
  is reached" (`compression_store.py:203`), and `docs/content/docs/ccr.mdx:41` and
  `wiki/ccr.md:44` an "LRU cache". The heap orders entries by `created_at`, which a
  retrieval does not touch: an entry that was just retrieved is evicted before a later
  one that nobody asked for. `OldestFirst` states the order by `created_at`, which is
  the one the code's own comment and test speak of ("oldest entries").
- The event of a retrieval whose entry another thread evicts before the swap
  reaches the feedback system but not TOIN.
- Rows purged by `SQLiteBackend.set` are not counted as stale, so over SQLite, the
  default, the rebuild that "prevents unbounded heap growth"
  (`compression_store.py:684`) may never come: `HeapBounded` holds over the
  in-memory backend and fails without its premise `~sqlite`.
- A request that is cancelled while its work waits in the pool's queue is never
  taken off the `queued` gauge (`server.py:1489` handles the timeout only), although
  the docstring says "Jobs that are successfully cancelled before a worker starts are
  removed from the queued gauge" (`server.py:1367`). `QueuedCountsCancelled`
  states what the gauge counts: the calls that wait, and these.
- The quarantine does not keep every call out beside a timed-out thread. The check of
  the debt and the submission are two sections of the lock, so one call may be between
  them (`OneSlipsIn`: one, not more). And a call that times out after a thread took its
  work, but before the thread said so, is no debt until it does: in between any call
  gets in, and the docstring's "while any such worker remains" holds from then on.
- The comment at `anthropic.py:1648-1654` exempts turns with a replayed prefix from
  the inflation guard, since reverting "would re-forward the uncompressed prefix and
  BUST the live prompt cache", but the test at 1631 asks whether the overlay changed
  anything: a prefix that the pipeline had already reproduced is not exempt, and the
  turn is reverted. The exception in `PrefixReplayed` is exactly this case.
- The docstring of the gateway's `check_rate_limit` has a limit of ``None`` "=
  unlimited" (`headroom_auth/rate_limiter.py:76-77`); lines 86-87 replace it by 60
  requests and 100 000 tokens per minute. The model's limits are the numbers that
  reach the bucket.
- `overlay_cached_prefix` is described as all or nothing and replays as much of
  the prefix as agrees.
- Each change of a user's limit replaces the gateway's bucket by a full one
  (`UserWindowBound` allows one more minute per change); a limit of 0 divides by
  zero when the wait is computed; the gateway's `Retry-After` is cut off to whole
  seconds, so a client that obeys it may be refused once more.

## 5. Proofs

All theorems hold for every value of the constants under the named assumptions of
the modules (`Keys` a finite set of numbers, `MaxEntries` and `MaxQueue`
positive, bounds natural; for the limiters, that a request costs no more than a full
bucket and that a bucket is stale only after the time it takes to fill).

`CompressionStoreProofs`: `TypeCorrect`, `CapacityHolds`, `HeapCovers`,
`EvictsOldest`, `EvictsForRoomOnly`, `AccountingExact`, `HeapStaysBounded`,
`EventsOnce`.

- Capacity is not inductive: the eviction loop also ends when the heap is empty.
  The inductive invariant `IInv` adds that the heap is finite and covers the store
  (`HeapCoversStore`); then an empty heap means an empty store, and `LoopMakesRoom`
  follows from the loop's test. Coverage is kept because every commit pushes a tuple
  with the new `created_at` (`PushLemma`), a rebuild makes one for each entry that
  stays (`ReadyCovers`), a pop removes a tuple together with its entry or finds it
  stale, and purges only remove entries (`AfterSetLemma`). What a step does to the
  entries out of eviction's reach, `CoverStep`, is stated without assuming
  that there are none, so that the proofs about restarts can use it.
- `EvictsOldest` follows since the popped tuples are an initial segment of the
  heap's order and every surviving entry still has its tuple outside that segment.
  It holds of one process: with restarts it fails (finding 1), exactly because
  coverage does. `EvictsForRoomOnly`: had the loop evicted one more entry than it
  had to, the segment before that entry's tuple (`EarlierSegment`) would have
  ended it already.
- `AccountingExact` counts the heap as the tuples that stand for an entry, one for
  each (`TuplesForKeys`), and the others, which are `stale`. The rebuild that
  `_evict_if_needed` makes when half of the heap is stale then bounds the
  heap (`HeapStaysBounded`).
- `EventsOnce`: the ids `1 .. made` are shared out among the queue, the batches, the
  events forwarded and those cleared (`Parts`); each method moves a whole set from
  one part to another. A swap overwrites no batch since a thread that is not
  forwarding holds none. That the events of one eviction loop get consecutive ids
  rests on `Ranking`: the number of predecessors numbers a finite order.

`CompressionStoreRestartProofs`: `RestartTypeCorrect`, `DriftBounded`,
`RestartEventsOnce`. The capacity's drift is inductive only with a bound on the
entries that have no heap tuple, fewer than `MaxEntries + restarts + faults`
(`RInv`): a restart or failed call may leave every entry without one and adds at most one entry
(`LooseStep`); every other step is a `CoverStep`. For the events, failures add new
ids or lose old ones and move none (`QueueStep`).

`AuditBufferProofs`: `TypeCorrect`, `TrailInOrder`, `LossIsBounded`,
`DuplicatesAreBounded`. `IInv` adds to the types `Control` (a batch is in hand only
during a retry), `Order` (drained, batch and deque are increasing, disjoint and
follow each other), `Trail` (without lost replies and in the first lifespan, all
that is yet to be written is newer than the log), `Loss` (at most a batch is missing
for each lifespan whose loop has `Ended`) and `Writes` (how often an entry can have
been written, by where it still waits). The bound of two writes per lifespan is not
inductive by itself: an entry in the batch must have been written at most once, one
in the deque never.

`BackgroundCompressionProofs`: `TypeCorrect`, `ClaimsExact`, `JoinCountExact`,
`CancelLosesAtMostOne`, `SettlesInOrder`, `StopWaitsForOwed`. The argument follows
the one sequence of jobs in flight, the drain's job and then the queue: `Accept`
appends to it (`ClaimAppend`), `Take` only moves its head from the queue into the
drain (`HeadThenTail`), `Resume` and `Cancelled` remove its head (`ClaimTail`), and
nothing else touches it. `IInv` adds where the drain holds a job (`DrainState`):
without it `Take` could overwrite one, and the count would be off. For the last two,
the settled jobs followed by those in flight, `Line`, are increasing and, until the
drain is cancelled, all of the accepted ones (`OInv`): an empty flight when `join`
is released means that everything owed is settled.

`CompressionExecutorProofs`: `TypeCorrect`, `GaugesNeverDrift`, `DebtNeverDrifts`,
`QuarantineHolds`, `BreakerNeedsAStreak`. The gauges are cardinalities of sets of
calls, and a step adds or removes one call; that it removes one which is there
needs to know which flags go with which place of the coroutine and the thread.
`IInv` is the conjunction of the type invariant, these `Flags`, the exact gauges,
debt and leak count (the queued gauge with the calls cancelled in the queue, as the
code has it), and `Streaks`, by which the breaker's count never exceeds the
failures since the last clean run. Deadline and thread meet in `RecordDebt`: each
half sees the other's flag if it comes second, and the debt is recorded by the
second, whichever it is. `QuarantineHolds` adds `Quarantine`: while there are
stragglers the debt is positive, so no call passes the check; the one that may be
submitted is the one that had passed it before, and until it is, none has been.

`RateLimiterProofs`: `WindowBounded`, `WaitIsHonoured`, `NoIdleBucketInOverflow`
and `Refinement`. The invariant says that no bucket was last used after the highest
reading of the clock (`Clocks`) and that there are finitely many (`Finite`). The
heart is that dropping a stale bucket does not change its `Level`: it would have
been full anyway, for which `Stale >= Minute` is needed.

`RequestAdmissionProofs`: `AdmissionTypeCorrect`, `UserWindowBounded`,
`AdmissionRefines`. Every step of the composition is a step of `RateLimiter` or
leaves its variables alone, so what is proved of the limiter holds behind the
gateway.

`SessionTurnsProofs`: `TypeCorrect`, `ContentKept`, `LineagesDistinct`,
`ReplaysPrefix`. The notion behind the content is `Aligned(bs, m)`: `bs` has a form of
each message of `m` in its place. It is kept by the pipeline (`ResultsAligned`), by
the splice of a record and a result as far as record and history agree
(`SpliceAligned`, with `CommonPrefixFacts`), by the cache (`ApplyCachedFacts`) and by
the assistant's answer (`ConcatAligned`); so `IInv` says it of every record, every
job and every request after its await, and that a request under way has a tracker
that exists. Requests do not have to know of each other: `Forward` reads whatever
record is there, and every record is aligned with its own history. The cache
is a sequence of entries with distinct keys within the limit (`Caches`);
`StoreAllDefined` shows that the recursion of `StoreAll` has a solution, by the least
length without one, and `StoreAllFacts` that each step stays in `Caches`.
`LineagesDistinct` needs that the longest chain is chosen: if another chain equals
the incoming history, the chosen one does too, and they are the same. `ReplaysPrefix`
is about warm turns; what a cold turn forwards is covered by `ContentKept`.

Only model-checked: liveness (`RetrievalFeedbackDelivered`, `EventuallyFlushed`,
`AcceptedSettles`, `StopReturns`, `CallsAnswered`, `QuarantineLifted`), which is out
of the prover's reach. What `CountMessages` computes, a fold over the messages, is not
proved either and not needed: `ReplaysPrefix` uses only that the guard compares
its values.

## 6. Limits

One process; a store's clock that does not step back; the commits of one `store`
call on SQLite are one step, so a crash between them is not seen; at most one call
of the backend fails within one method; one lifespan of the background compressor.
Of a session's turns, placement of cache_control marks, tools and images are left
out, the executor is abstracted to an await that ends, and the net-cost policy
(`HEADROOM_NET_COST_POLICY`), which lets the pipeline touch frozen messages, is off; a
recompaction, like every run of the pipeline, keeps the number of messages.
`StopReturns` is about `stop`: the pool's thread is no daemon, and one that never ends
can still hold the interpreter when it exits. The limiters' token
buckets are left out where nothing calls them or their level decides nothing;
fractions of a tick are below the model's resolution. Python's thread switches
inside a lock's section are invisible by definition of the lock.

To run: `tlc -config CompressionStore.cfg MCCompressionStore`, and so on for each
row of section 4; `tlapm` on each `*Proofs.tla`.
