# A verification project for Resync

Resync is an asyncio/FastAPI program: an assistant in front of an HCL Workload
Automation (TWS) server. This directory holds TLA+ models of the parts of it whose
correctness depends on interleaving, failure and retry, the TLC configurations
that check them, and TLAPS proofs of their main invariants.

Paths below are relative to `resync/` unless they start with `docs/`. Everything runs
on one event loop, so a *step* of a model is what the code does between two
suspension points: an `await` that can really wait. Taking a free `asyncio.Lock`, or
awaiting a coroutine that never waits, is no suspension.

## 1. Inventory

| Part | State | Operations | Interacts with | Hard behaviour |
|---|---|---|---|---|
| Circuit breaker, `core/resilience.py` | state, consecutive failures, last failure time, an asyncio lock | `call`, `_should_attempt_reset`, `_on_success`, `_on_failure` | every HTTP client, through `CircuitBreakerManager` | the protected call runs outside the lock; late outcomes, cancelled probes, the boundary of the pause |
| TWS client, `services/tws_service.py` | breakers by name; per operation two nested retry loops, and in `get_job_details` two more operations inside | `_make_request`, `_api_request`, the `get_*` operations | endpoint breakers around one shared breaker | retries of retries, breakers that feed each other, cascades |
| Task manager, `core/task_manager.py` | tasks, priority queue, running tasks, processor, sleeping retries | `start`, `stop`, `submit`, `cancel_task`, processor, wrapper, retry | users of the queue; arbitrary task functions | cancellation against start, end and retry; shutdown |
| WebSocket pool and connection manager, `core/websocket_pool_manager.py`, `core/connection_manager.py` | two registers by client id, a lock, a shutdown flag | connect, disconnect, sends, cleanup, shutdown | each other; peers that vanish | a lock taken twice, checks before an await, two sockets of one client |
| Audit lock, `core/audit_lock.py` | keys with expiry in Redis | acquire, release, cleanup | IA auditor | expiry against a slow holder, cleanup of live locks, a release that fails |
| IA auditor, `core/ia_auditor.py` | batch of memories, flags in the knowledge graph | analyse, flag, delete, enqueue | audit lock, audit queue, LLM, graph | a batch that fails half-way |
| Audit queue, `core/audit_queue.py` | a list and two hashes in Redis | add, update, delete, cleanup | IA auditor, review API | check then write, three keys that must agree |
| Idempotency, `core/idempotency/`, `api/middleware/idempotency.py` | marks and responses with expiry in Redis | get, mark, store, clear | all mutating requests | check then mark, crash while marked |
| Encrypted audit trail, `core/encrypted_audit.py` | pending entries, end of the hash chain, block counter, keys; block, chain and counter files | log, rotate, flush, start, stop, restart | the file system | three files per flush, each truncated first; overflow; keys that expire between an entry and its block |
| SIEM integrator, `core/siem_integrator.py` | queue, buffer, connectors, circuits, three tasks | send, flush, monitor, add a connector, start, stop | two kinds of SIEM over HTTP | three tasks and `stop()` flush one buffer over awaits; a dictionary that grows under a loop |
| Simple breakers, `core/circuit_breaker.py`, `core/health/circuit_breaker.py` | state, failure count | `call` | graph, monitors, pools | no lock, no single probe, `.seconds` |
| Caches, `core/async_cache.py`, `core/cache_hierarchy.py`, `core/cache_with_stampede_protection.py`, `core/write_ahead_log.py` | shards with expiry, two levels, a log | get, set, delete, eviction, rollback, replay | TWS client and most services | stale levels, eviction bounds, replay after a crash |

The other parts (`PROJECT.json`, "components") are configuration, reports, wiring or
calls to external services, and are listed there with the reason why they are not
modelled.

What makes each part correct, in one line:

* breaker: it opens at its threshold, sheds calls for the whole pause, closes only on a probe, and always comes back;
* TWS client: an operation ends, sends a bounded number of requests, and no set of nested breakers that are called stays open by itself;
* task manager: no task is lost, doubled, run too often or resurrected, and the processor survives its tasks;
* WebSocket pool: the registers agree, dead entries go, the lock is never waited for by its holder;
* audit lock and auditor: one analysis of a memory at a time while its lock lasts;
* encrypted audit trail: the log is one chain through failures and restarts, blocks are immutable, and what is missing shows;
* SIEM integrator: no event is sent twice, none is kept for ever, circuits are retried, the workers of a stopped integrator end;
* caches: no value outlives its lifetime, bounds hold, a rollback restores.

## 2. Plan

Order of work, most important behaviour first:

1. `CircuitBreaker` with its abstract specification `BreakerContract`, checked and proved. *Done.*
2. `TwsClient`: the breakers composed, each shown to keep `BreakerContract`, checked and its safety proved. *Done.*
3. `TaskManager` with its abstract specification `TaskContract`, checked and its safety proved. *Done.*
4. `WebSocketPool` and `TtlCache`, checked and their safety proved. *Done.*
5. `EncryptedAudit`, with its crashes and restarts, checked and its safety proved. *Done.*
6. `SiemIntegrator`, checked, with liveness, and its safety proved. *Done.*
7. `CacheHierarchy` over `TtlCache`, checked and what its answers are worth proved. *Done.*
8. `AuditLock` with the analyses that hold it, against what the class says of itself;
   where its violation can only come from, proved. *Done.*

Left: the simple breakers, and the audit queue with the pipeline that fills it, once that
pipeline runs (section 6).

## 3. Modules

| Module | Models | Notes |
|---|---|---|
| `BreakerContract` | what users of a breaker rely on: modes, probe, pause, calls in flight | abstract; no counter, no clock |
| `CircuitBreaker` | `CircuitBreaker` of `core/resilience.py` | `Contract` is the refinement mapping into `BreakerContract` |
| `CircuitBreakerProofs` | theorems about it | |
| `TwsClient`, `TwsClientProofs` | operations of `OptimizedTWSClient` through both loops and both breakers, theorems about it | instantiates `BreakerContract` once per breaker |
| `TaskContract` | what users of a task manager rely on: workers, starts of a task, its cancellation | abstract; no queue, no processor, `max_workers` workers |
| `TaskManager`, `TaskManagerProofs` | `TaskManager` of `core/task_manager.py`, theorems about it | `Contract` is the refinement mapping into `TaskContract` |
| `WebSocketPool`, `WebSocketPoolProofs` | `WebSocketPoolManager` under `ConnectionManager`, theorems about it | |
| `TtlCache` | `AsyncTTLCache` of `core/async_cache.py` | |
| `CacheHierarchy` | `CacheHierarchy` and `L1Cache` of `core/cache_hierarchy.py` | extends `TtlCache`, which is its second level |
| `CacheProofs` | theorems about both caches | |
| `EncryptedAudit`, `EncryptedAuditProofs` | `EncryptedAuditTrail` and `KeyManager` of `core/encrypted_audit.py`, theorems about it | |
| `SiemIntegrator`, `SiemIntegratorProofs` | `SIEMIntegrator`, its connectors and its `SIEMCircuitBreaker`, of `core/siem_integrator.py`, theorems about it | |
| `AuditLock`, `AuditLockProofs` | `DistributedAuditLock` of `core/audit_lock.py` under `analyze_memory` of `core/ia_auditor.py`, a theorem about it | |
| `MC*` | instances for TLC | constants; in `MCSiemIntegrator` a bound, in `MCTtlCache` the choice between the cache by itself and behind the hierarchy |

A definition whose name ends in a remark (`GetAndExecute_Left_in_queue`) or begins with
`Mut` (`MutForgetChain`) is a mutated form of the definition that follows it. The specifications do not use it;
`PROJECT.json` names the property that must fail when it takes the original's place.

### CircuitBreaker

`state`, `consecutive_failures` and `sinceFailure` (for `last_failure_time`) are the
breaker's fields; `phase[c]` says where a caller is in `call()`. `Admit`, `AdmitProbe` and
`Block` are the first critical section of `call()`, `OnSuccess` and `OnFailure` the second
ones with `_on_success` and `_on_failure`, `Cancel` the cancellation that reaches
neither. The counter and the clock saturate at the values the code compares them with,
which loses no behaviour of `state` and keeps the model finite without a bound.
`openFor` is a history variable of the property about the pause.

### TwsClient

`pc`, `httpAttempt` and `endpointAttempt` are the position and the two `attempt`
counters of one operation: `EnterEndpoint` and `RejectedByEndpoint` are the outer
`cbm.call`, `EnterHttp` and `RejectedByHttp` the inner one, `Answer`, `TransportError`,
`StatusError` and `MalformedAnswer` the four ends of a request as `_make_request` and
`_api_request` tell them apart. A breaker is a record; its clock is one flag, set when
the pause is over. `sent` counts the requests of an operation, and of each operation nested
in it, up to one more than the bound that is checked.

`get_job_details` runs `get_job_history` and `get_job_dependencies` inside its own
`_api_request`, and so inside its own breaker, each with a breaker and both loops of its own.
`Nested` gives each endpoint the operations that its own runs so; `stage[c]` says which of
them the caller is in, and `OperationOver` what the end of one leads to: the next one, or the
end of the operation around it, which fails without the last (`dependencies.dependencies` of
an empty list, 500). One call of `get_job_details` therefore sends up to three times
`http_retries + 1` requests, and that is the bound. A hit in the result cache answers before
any breaker: as the whole call it is no step, in a nested operation it is `CachedPart`;
`ResultLost` is a result that arrived and could not be stored.

### TaskManager

`status` and `retry_count` are the fields of a task, `queued` and `retrying` count its
entries in the queue and its sleeping `_schedule_retry` coroutines. `processor`,
`current` and `wrapper` follow `_process_tasks`, `_execute_task` and `task_wrapper`.
That a new wrapper has not run yet is a state of its own ("created"): `cancel()` at that
moment ends it outside its own `except`. A task function may return, raise, be
cancelled, or swallow its cancellation.

`max_workers` has no effect in the code, and none in the model. Its documentation promises
"Concurrent execution with configurable worker pools" (`core/task_manager.py:7`) and a
semaphore "to limit concurrent tasks" (196), but the one processor awaits each task inside the
semaphore (197, 230) before it takes the next: tasks run one after the other. `TaskContract`
therefore has `max_workers` workers, which is what the documentation says, and the code
implements it with the first of them; nothing here states that tasks never overlap, and
indeed the thread of a function that is no coroutine goes on after its wrapper was cancelled.
A task is a name: once nothing refers to it any more (`IsOver`) the names in `Renewed` are
submitted anew, so that the submissions never end.

### WebSocketPool

`connections` is the pool's register, `active_connections` the manager's. `lock` is held
only across suspensions: by `shutdown()` while it awaits the cleanup task, and by the
cleanup loop or `shutdown()` for ever once they wait for the lock they hold. All that
runs under the lock without suspending is one step. `removable` stands for stale,
unhealthy or too old; `Due` are the connections that the cleanup or `shutdown()` has to remove.

### TtlCache

`entries` is the content of all shards, with the age of each entry in place of its
timestamp. `Evictable` and `Evicted` describe the eviction loop of `set()` by where it can
stop, so that the order among entries of one age stays open; that order also decides whether
the entry just written is taken for the oldest and refused. `StartRound`, `CleanShard`
and `EndRound` are one pass of the cleanup task, `lag` the time since it read the clock.
`log` belongs to a caller that will roll back or not, and records before each operation
what `get()` returns.

### CacheHierarchy

One step is one step of both levels, since no operation suspends: `HierarchyGet` reads
`l1` and, only when it finds nothing there, `TtlCache`'s `Get`. `used` is the order of
use that `cachetools.LRUCache` keeps. `Answer(k)` is what `get()` would return; `lastSet` is
a history variable, what the last `set()` that did not raise stored.

### EncryptedAudit

`pending_entries`, `chain_hash` and `block_counter` are the trail's memory; `blocks`,
`chain_file` and `counter_file` are its files. A flush is `FlushBlock`, `SaveChain`,
`SaveCounter`, one step per file: nothing else in the process runs between them, but
`Restart` (the end of the process) and `StateWriteFails` may come at any of them and leave
the file that was open empty. `FlushBlockFails` is a flush that raises before its block is
complete, with the number and the key it took. `CalledBy` distinguishes the worker, which
goes on, from `stop()`, which leaves its worker behind. A hash is a number, new each time,
so that an entry is older than another exactly if its hash is smaller. `overflowed`
(never forgotten, not by a restart either), `starts` and `torn` are history variables of the
properties. `OverflowLeavesAGap` is a claim about entries and blocks of the process that dropped
the event: the next process starts from the saved end of the chain and links over all that was
only in memory, dropped or not.

### SiemIntegrator

`start()` and `stop()` look at `_running` only, and `stop()` clears it before it awaits
anything, so that tasks of several starts can be there at once. A task is a pair of its kind and
the number of the `start()` that made it, and a `stop()` has the number of the `start()` before
it; when it comes to cancel (`of`) it takes the tasks that the fields hold then, which may be
those of a later `start()`. `tasks[t]` says what each waits for, with the batch in hand and the position in the loop over the connectors; `size` is the size
of the dictionary when that loop began, so that `Grown` is Python's RuntimeError. One step
goes from one await to the next: `FlushFrom`, `MonitorFrom` and `DisconnectFrom` skip the
connectors that need no request. `cooling` stands for the date of a circuit's last failure
and `recent` for that of the last flush. A send may succeed, be refused, or raise, and
then the SIEM may have got the batch all the same. `sessions` are the connectors that have a
session, apart from `status`, which can be CONNECTED without one (a request that returns after a
`stop()` closed it). `connect()` puts a new session in the place of one that nobody closes (277,
382): those lost sessions have no name in the code, decide nothing, and are not counted.

### AuditLock

`lock[m]` is the time a Redis key has left, `analysis[a]` the step an analysis waits in,
with the time its own lock would have left. `Check` goes through the four queries of
`analyze_memory` in order, `CallLlm` waits for the model, `Act` is the query that flags or
deletes. `ListLocks`, `ReadTtl` and `DeleteLock` are the three round trips of a cleanup,
`ForceRelease` the administrator's deletion. `robbed` is a history variable: the analyses whose
lock was deleted while it lasted.

## 4. Runs

| Run | Shows | Bounds |
|---|---|---|
| `breaker` | the breaker keeps its threshold and its pause, implements `BreakerContract`, is probed and recovers | 3 callers, threshold 2, timeout 2: two late calls beside a probe, a count below and at the threshold, a pause with an inner tick |
| `tws_client` | requests are bounded, breakers keep the contract when nested, operations end, breakers that are called recover | `get_job_details`, with history and dependencies nested in it, beside a caller of dependencies; the service of history may fail. Thresholds 1 of the endpoints and 2 of the shared breaker, 1 retry at each level: every loop goes round and gives up, every breaker opens, in the nested operations and around them |
| `tws_cascade` (violation) | one failing endpoint opens the breaker of one that never fails | 2 endpoints with one caller each, nothing nested, thresholds 2 |
| `task_manager` | no task lost or doubled, runs bounded, no status left behind, `TaskContract` implemented (so that cancellations of waiting tasks are final and a task fails only after all its starts), a task waits for ever only behind endless submissions of its priority or a higher one, `stop()` returns | 3 names of tasks, 2 of equal priority, 1 retry each; an urgent and another one are submitted for ever: ties, overtaking, starvation, a retry against queued tasks. 2 workers in the contract |
| `task_cancel` (violation) | one badly timed cancellation ends the processor for everybody | the same names, each submitted once |
| `websocket_pool` | registers consistent, frozen is for ever | 3 sockets, 2 of them of one client, room for 1 connection: replacement, rejection, overshoot |
| `websocket_cleanup` (violation) | the cleanup and `shutdown()` wait for their own lock, and the connections they have to remove stay | the same |
| `ttl_cache` | limits hold except across a rollback, cleanup spares what is alive, a rollback restores, expired entries go; and, behind an L1, no answer is one that was overwritten, refused or deleted | 2 shards, 3 keys, room for 2 entries, a value too large by itself, lifetime 1, a round 1 tick late, 2 recorded operations: evictions, refused sets, two operations on one key. L1 has room for one key of each shard |
| `encrypted_audit` | the log is one chain, overflows leave a gap | 7 hashes, 3 blocks, memory for 2 entries, blocks of 2: an overflow, two flushes and a third that fails, a restart at every file of each, an overflow before and a new chain after it |
| `audit_immutable` (violation) | a block is written over after a crash | the same |
| `siem` | no event sent twice, workers of a stopped integrator end, every event is flushed, every open circuit is retried | 2 connectors, batches of 2, 3 events, circuits that open at the second failure, 2 starts that may overlap: a full batch and a short one, a flush of each task beside the monitor, a connector added in each wait |
| `audit_lock` (violation) | two analyses of one memory under live locks | 2 memories, 2 analyses, 1 cleanup, locks of half the age a cleanup looks for, as 30 and 60 seconds |

The bounds of `siem` are tighter after the second `start()` (`Bounded` in `MCSiemIntegrator`,
a constraint, which keeps a step out of sight whose result lies beyond it): one connector, and
at most two events, with two of them none that a connector failed to send. What overlapping
starts add, workers of two starts at one buffer, needs neither a third event nor a second
connector. The connectors are alike, so one order of adding them stands for both. A liveness
property is checked of the behaviours within the bounds.

One send at a time is in flight per socket (`BeginSend`), and each caller of the TWS client
performs one kind of operation. `websocket_pool` does not check for deadlock, since all
sockets close and the pool shuts down for good; nor do `encrypted_audit`, which ends at its
bounds on hashes and blocks, and `siem`, which may be stopped with nothing left to do.
The other systems never stop.

### Fairness

* the event loop runs what is ready: weak fairness of every internal step;
* time passes: `Tick`, `Expire`, sleeping retries, the cleanup interval;
* calls out of the program end: the HTTP clients set timeouts, a task function ends;
* in `breaker`, callers keep calling, as polls and users do, and a caller whose call could
  succeed again and again is not cancelled at exactly that point every time: strong fairness
  of `Succeed`;
* in `tws_client`, nobody has to begin an operation, nor to get past the result cache: only
  an operation that has begun goes on. `BreakersRecover` speaks of the endpoints whose
  breaker is asked again and again, once the service is back and operations are not
  cancelled any more; a breaker that nobody asks stays OPEN, and one whose probes are
  all cancelled may;
* in `siem`, the tasks of each `start()` run as long as they are there: a request ends, since
  the sessions have a total timeout; the interval of a flush and the pause of a circuit pass;
  nobody has to send events, add connectors, start or stop. Nothing is assumed of the
  SIEMs, which may fail every request;
* submitting, cancelling, connecting, leaving, starting and stopping are free everywhere.

Three claims hold only under a condition that they state themselves. A task may starve behind
submissions of its priority or a higher one that never end (`core/task_manager.py:186`):
`TasksEndWhileProcessorLives` excludes just these. Events are flushed and circuits retried
while the workers of the last `start()` are there (`Served`): a `stop()` that still
flushes when `start()` is called ends them although `_running` is true. And of the workers
that `stop()` should end, a processor that waits for an event sees that it was stopped only
after the next.

### What the violations say

* **Cascade.** `docs/architecture.md` says that the breaker in the TWS client avoids
  cascading failures. All operations share the inner breaker `tws_http_client`. Its
  rejections are wrapped in `TWSConnectionError` and recorded as failures by the
  endpoint's own breaker, so one bad endpoint opens the breakers of good ones.
* **Cancellation kills the processor.** The `CancelledError` of a wrapper that never
  started is raised by `await asyncio_task` in the processor. `except Exception` does
  not hold it, the processor task ends, and submitted tasks stay `PENDING`.
* **Cleanup and shutdown.** `_cleanup_connections` and `shutdown` hold the lock that
  `_remove_connection` takes (109, 203), so the first stale connection stops the pool, and
  a `shutdown()` with a connection left, which is to "Close all WebSocket connections"
  (198), never returns.
* **Blocks written over.** The chain of the audit log is kept "for immutability"
  (`core/encrypted_audit.py:284`). A block is written (751) before the counter that names the
  next one is saved (762-763); a process that ends in between, or leaves the counter file empty,
  is followed by one that takes the number again and opens the block for writing.
* **Live locks removed.** An auditor begins by deleting the locks that have at most 60
  seconds left. Locks are made with 30. So the second auditor always deletes the lock of
  the first, and both analyse the same memory, which the lock is documented to prevent.

Other disagreements are in the models, and not the subject of a run. The first level of the
cache hierarchy keeps no lifetimes, although `README.md:61` of the repository says
"Multi-layer caching with TTL". The metadata of an audit block name the key that was current
when its first entry was logged (`core/encrypted_audit.py:56` says "Key used for encryption"),
and the block is encrypted with the key of the flush (708): they differ after a rotation or an
expiry. `max_workers` has no effect (see TaskManager).

## 5. Proofs

The theorems hold for every value of the constants. The only assumptions are those
on the constants (`ConfigAssumption`, `ClientAssumption`, `TaskAssumption`, `PoolAssumption`, `CacheAssumption`,
`AuditAssumption`, `SiemAssumption`, and `BlockAssumption`: a missing block is no block); the
theorem about `AuditLock` names its own.

* `CircuitBreakerProofs`: type correctness; `ClosedBelowThreshold`; `OpenPauseIsDated`;
  the action properties `OpenLastsRecoveryTimeout` and `ClosesOnlyFromHalfOpen`; and
  that the breaker implements `BreakerContract`. The inductive invariant adds to the
  two safety properties that `openFor` is 0 outside OPEN: without it the pause could be
  dated from before the breaker opened. The refinement needs `OpenPauseIsDated`, so that
  a failure which opens the breaker also starts a pause that has not expired.
* `TaskManagerProofs`: type correctness; `OneEntryPerPendingTask`; `RunsAreBounded`;
  `RunningTaskHasAWrapper`; `CancelledWaitingTaskStaysCancelled`; and that the manager
  implements `TaskContract`, with any number of workers. The invariant has
  four parts besides types. *Bookkeeping*: the processor awaits exactly when there is a
  current task and a wrapper, and whose status is RUNNING or CANCELLED while the wrapper
  is under way. *Entries*: a task whose wrapper is under way has no entry, even if
  `cancel_task()` changed its status, or its failure could add a second one.
  *RunsArePaid*: a start still to come is covered by `retry_count`, and none is paid for
  in advance, so that a task fails only when its starts are used up. A fourth part,
  *StatusIsSettled*, relates a pending cancellation to the status it leaves: the contract
  lets a task be given up unstarted only if it was cancelled or the manager stopped.
  The task that the first worker of the contract has taken up is the one whose wrapper is
  pending, not the one in `running_tasks`, which stays there until the processor resumes.
* `TwsClientProofs`: type correctness; `SendsAreBounded`; and `BreakersKeepContract`, the
  refinement of `BreakerContract` by every breaker, nested in another or not, for any
  operations nested in any others, one level deep. The
  invariant `SendsArePaid` counts by position, for the operation under way and for those
  around it or already over: outside the inner loop an operation has
  sent nothing, since the outer loop never goes round again after the inner one was
  entered; inside it there is at most one request for each HTTP attempt. A step touches
  one breaker, or two when an inner rejection or the failure of a nested operation is
  recorded as an outer failure: the lemmas say what one recording
  does to a breaker, and `OthersUntouched` settles the rest.
* `WebSocketPoolProofs`: type correctness; `PoolClientIsKnown`; `EntryHasADisconnector`; and
  the action property `FrozenForever`. The two invariants carry each other: `disconnect()`
  reaches the pool only if the manager knows the client, and the socket that would call it
  exists only because a rejected or replaced one leaves through the same door.
* `CacheProofs`: of `TtlCache`, type correctness; and the action properties
  `OnlyRollbackExceedsLimits`, `CleanupSparesLiveEntries` and `RollbackRestores`. The
  invariant adds to the types that finitely many keys are cached; the keys themselves may be
  infinitely many. Two of the properties are about folds, which the library defines as the
  choice of a recursive function. What such a function is for a set, or for the operations
  of a log, follows from looking at a minimal set where it would be wrong
  (`MinimalSubset`, from the well-foundedness of strict inclusion in the library): that
  it exists (`AddsExists`) and is unique (`AddsUnique`), that the sum does not depend on the
  order (`MemoryWithout`) and shrinks with the set (`MemoryShrinks`), and that a rollback
  is `Restored`, where each key gets what the first operation that tells it recorded
  (`RollbackIsRestored`). Evictions then need no account of which entries go: what is left
  of a cache within its limits is within them. Of `CacheHierarchy`, `AnswersAreCurrent`:
  both levels hold the value last set or nothing. An answer may be too old, but it is never
  one that was overwritten, refused or deleted since. The run `ttl_cache` checks it as
  `LayersAgree`, which is `AnswersAreCurrent` for the behaviours that go through the hierarchy.
* `EncryptedAuditProofs`: type correctness; `OneChain`; and `OverflowLeavesAGap`. The invariant
  has five parts. *TypeInv* adds to the types that a trail that runs, or flushes, has a
  worker. *OrderInv*: hashes grow
  along the log, in blocks and in memory, so that "before" is "smaller". *GapInv*: no entry
  skips a hash that was dropped, in this process or an earlier one, nor one still in memory,
  which may be dropped next, unless a process started in between; a dropped hash above the end
  of the chain is from before such a start. *FileInv*: what a flush under way has written and has still
  to write, and that the counter on file is never ahead of memory. *ChainInv* is
  `OneChain` with the end of the chain as a relation, `Ends`, in place of the `CHOOSE` in
  `EndBefore`, and with the chain's file: either it ends where its counter says, or a block
  at or above the counter shows that it may not, which is what makes a process `torn` that
  starts there. TLC checks each part as well.
* `SiemIntegratorProofs`: type correctness; and `SentAtMostOnce`, for any number of starts and
  stops that overlap. The invariant has two parts. *TypeInv* adds to the types what a task may
  wait for (`TasksFit`): one that sends, connects or disconnects is at a position of the
  dictionary, which only grows. *EventInv*: the queue, the buffer and the batches in hand share
  no event, the queue holds none twice, and every event is below the count of those accepted,
  so that the next one is new. That the loops go to the first connector in need, `First`, rests
  on the well-foundedness of the naturals in the library.
* `AuditLockProofs`: `OverlapsComeFromDeletions`, for any timeout that is a number and with
  cleanups and `force_release` at any time: two analyses of one memory overlap under
  lasting locks only where a cleanup or an administrator deleted the lock of one. The
  invariant is that the time an analysis believes to have left is that of its key, unless it
  was deleted. The run `audit_lock` shows that a cleanup does delete such a lock; since that
  run is about the lock's own promise, no run checks the weaker statement.

Every invariant and every action property of a passing run is stated by a theorem. What is
only model-checked is liveness (all properties with `~>` or `<>`): TLAPS does not handle
`ENABLED` and fairness here.

## 6. Not modelled

Snapshots and the write-ahead log of the cache (in the module's header), and the components
listed as `not_modelled` in `PROJECT.json`. Three of them have state and would be worth a
model, but do not run as they stand:

* idempotency: `mark_processing` and `cache_response` raise NameError (`timedelta` and
  `IdempotencyKeyError` are not imported in `core/idempotency/manager.py`), so a request
  with a new key ends before it is executed, and there is nothing concurrent to model;
* the auditor's pipeline: `get_memories` (`core/ia_auditor.py:157`) and `enqueue_for_review`
  (201) do not exist, and `atomic_check_and_flag` (`core/knowledge_graph.py:308`) reports
  every memory as processed by somebody else. `AuditLock` models the part that runs;
* the write-ahead log: `core/write_ahead_log.py:146` opens a path that does not exist.

Callers of the cache hierarchy that pass a `ttl`, or call `delete_pattern`, raise before they
reach it (`services/tws_service.py:1189`): the model has the operations that work.
Within the modelled parts: metrics and statistics nobody decides on; what the TWS result
cache holds (a hit is free, where it decides anything); sessions that `connect()` of a SIEM
connector puts out of reach without closing them; `ping` and the operations on breaker names
that are never registered; the second pool made after a shutdown; timeouts of sockets beyond
"a send or a handshake ends". A task that `start()` makes is taken to be at its first wait at
once.
External code (httpx, Starlette, Redis, task functions, the clock) appears only as the
outcomes the code distinguishes.
