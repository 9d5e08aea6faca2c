# Aquilia in TLA+

Aquilia is an asynchronous Python web framework: controllers and routing, dependency
injection, models, sessions, authentication, caching, WebSockets, mail, and a background
task system. This directory holds TLA+ modules of the parts whose correctness depends on
the order in which things happen, the TLC configurations that check them, and proofs
checked by TLAPS. Paths below are relative to `src/aquilia/`, those of the documentation
site to `src/aqdocx/src/`.

The task system comes first: it is the component where several workers, several
processes and clients change the same records, where work must survive failures, and where
the documentation makes the strongest promises. Then come the two places where concurrent
requests share something behind a lock, the writer of SQLite and the computations of the
cache, and the two interactive parts of the documentation site, a React application
whose handlers, timers and effects interleave.

## 1. Inventory

`PROJECT.json` lists every component with its status, and the hazards at their lines.
The components with state that outlives a call:

| component | state | operations | what is hard | what makes it correct |
|---|---|---|---|---|
| Task queue in memory (`tasks/engine.py`) | job objects, a heap per queue, fingerprints, worker loops | enqueue, pop, execute, retry, cancel, flush, cleanup, sweep, start, stop | job objects shared by workers, store and clients; heap entries that outlive their job; stop in the middle of a body | no job lost, none run twice, one live job per fingerprint, steps after their dependencies, every job ends |
| Task queue in SQL (`tasks/backends/sql.py`) | one row per job, a lease and an owner, a table of fingerprints | the same, one or more SQL statements each; heartbeat and reclaim | every worker works on a copy of a row between a SELECT and an UPDATE of the whole row; leases, crashes, zombies | one worker per job unless a lease lapsed, results kept, steps in order, every job ends |
| Task queue in Redis (`tasks/backends/redis.py`) | hashes and sorted sets | the same, the claim as a script | the steps around the script are not atomic | as SQL |
| Scheduler (`tasks/engine.py`, `schedule.py`) | last run per task | one enqueue per slot | several processes tick in the same slot | one run per slot |
| Workflows (`tasks/workflow.py`) | none: builds `depends_on` | chain, group, chord | – | acyclic, all ids enqueued |
| Cache (`cache/service.py`) | entries, computations in flight, a lock with a lease | get_or_set, invalidate, shutdown | timeouts, failures and cancellation of the one that computes; a lease that ends under its owner | one computation at a time, no waiter left, a lock is given back by its owner only |
| SQLite pool (`sqlite/_pool.py`) | one writer and its waiters, readers, permits | acquire, release, close, transaction | cancellation, timeout and failure between two steps | one user of the writer, no waiter left |
| Database engine (`db/engine.py`, `db/backends/sqlite.py`, `models/transactions.py`) | the open transaction, the task it is pinned to | begin, commit, rollback, execute, atomic | the writer connection is shared by all requests; statements that fail half way | a transaction belongs to one request; what a call reported is what is stored |
| Entity previews (`context/DocPreviewContext.tsx`, `components/docPreview/`) | what is shown and why, two timers | pointer, focus, tap, Escape, navigation | timers and handlers of different elements in any order | closes when nobody attends it, never shown for a page that was left |
| Assistant (`components/Chatbox.tsx`) | messages, flags, the running request, the typewriter | send, stop, clear; pieces of a stream | handlers of an aborted request run after those of the next one; the typewriter lags behind | answers whole and under their questions, Stop reaches what runs |
| HTTP pool (`http/pool.py`) | connections per host | acquire, add, release, cleanup | the check and the count are apart | limits per host and in total |
| DI pools and scopes (`di/`) | instances per scope, pool queues | instantiate, release, shutdown | factories await | bounded pools, reverse order of disposal |
| Lifecycle (`lifecycle.py`) | phase, started applications | startup, shutdown, restart | failures half way, two shutdowns | started applications and only those are shut down, once |
| Sessions (`sessions/`) | sessions, index per principal | load, save, rotate, destroy, evict | the index is kept apart from the sessions | index and sessions agree |
| Tokens (`auth/`) | refresh families, revocations | issue, refresh, revoke | concurrent refreshes | one successor per token |
| WebSockets (`sockets/`) | connections, rooms | join, leave, publish, disconnect | sends happen after the members were read | rooms hold open connections only |

The rest (models, contracts, controllers, patterns, templates, configuration, discovery,
command line, admin, …) runs sequentially at start-up or is a pure function of a request;
`PROJECT.json` says so component by component.

How the task components interact: a client (`TaskManager.enqueue`, `cancel`, `retry_job`,
`flush`) calls the backend directly. Each worker loop calls `drain_once`, which pops one
job and runs `_execute_job`; the end of the body goes through `_finalize_job` or
`_handle_failure` to `update_if_epoch`, and a retry through `push`. A job that dies or is
cancelled triggers `fail_orphaned_dependents` for its dependents; `_cleanup_loop` sweeps all
orphans and deletes old jobs. On a distributed backend a heartbeat task renews the lease
beside the body, and `_reclaim_loop` puts back jobs whose lease has run out.

How the others interact: a request that writes calls `AquiliaDatabase.execute`, `transaction()`
or `atomic()`; they go through `SQLiteAdapter`, which routes to the connection pinned in the
task's context or takes the writer from `ConnectionPool`, to `AsyncConnection`, which runs the
statement in an executor. `CacheService.get_or_set` asks its backend, then the callers of its
own process (`_inflight`), then the fleet (a lock on the backend), before it calls the loader. In
the documentation site every term (`DocTerm`) and the panel call the functions of one
provider; `computePosition` places the panel. The assistant and the typewriter write the
same list of messages.

## 2. Modules

| module | models | kind |
|---|---|---|
| `TaskQueue` | `MemoryBackend` + `TaskManager` in one process | specification, properties |
| `MCTaskQueue` | three jobs: `step` depends on `root`; `twin` has `root`'s fingerprint, a higher priority and a delay | instance |
| `TaskQueue_proofs` | safety of `TaskQueue`, and that it implements `JobBoard`, for all constants | proofs |
| `SqlQueue` | `SQLBackend` + `TaskManager` loops in several processes | specification, properties |
| `MCSqlQueue` | one job or a two-step workflow, two processes with a worker each or one worker | instance |
| `SqlQueue_proofs` | types and workflow order of `SqlQueue` for all constants | proofs |
| `JobBoard` | what `TaskBackend` promises, whatever keeps the jobs | abstract specification |
| `SqlQueueBoard_proofs` | `SqlQueue` implements `JobBoard`; one holder and kept results for calm jobs | proofs |
| `SqliteTxn` | the SQLite writer from the lock of the pool up to `atomic()` | specification, properties |
| `SqliteTxn_proofs` | safety of `SqliteTxn`, for any tasks and any number of calls and failures | proofs |
| `CacheFlight` | `get_or_set` of one key in several processes | specification, properties |
| `MCCacheFlight` | three callers in one process, one in another | instance |
| `CacheFlight_proofs` | safety of `CacheFlight`, for any processes and finitely many callers | proofs |
| `DocPreview` | the entity previews of the documentation site | specification, properties |
| `MCDocPreview` | two terms of one entity and one of another on a page, one on a second page | instance |
| `DocPreview_proofs` | safety of `DocPreview`, for any pages, terms and entities | proofs |
| `PanelPosition` | `computePosition`, with its theorems | operators, proofs |
| `Chat` | the assistant of the documentation site | specification, properties |
| `Chat_proofs` | safety of `Chat`, for any number of questions and pieces | proofs |

The specifications of the two queues differ in their grain, because the backends do.

### `TaskQueue`: one event loop

The backend's lock is never held across an await of anything else, its critical sections do
not yield, and `get`, `cancel`, `retry`, `flush` and `cleanup` contain no await at all. The
places where another coroutine runs are the body of a task and the sleeps of the loops. So
`pop` plus the first half of `_execute_job` is one action (`DrainImmediate`, `DrainBlocked`),
everything from the end of the body to the next poll is another (`Complete`, `FailAndRetry`,
`FailForGood`), and one pass of `_cleanup_loop` a third.

* Job objects are shared. `state`, `due`, `retryCount` are kept for every job id, stored or
  not: a worker goes on with its object after `flush` has removed it from `_jobs`, and
  storing it again (`Complete`, `FailAndRetry`, `FailForGood`) puts it back.
* `heap` is the set of entries `<<counter, job>>`; `Before` is the heap order. A job may have
  several entries, and an entry may outlive its job.
* `pop` scans until the first ready job without dependencies. Jobs with dependencies
  (`Blocked`) are only looked at when there is none; in one pass some of them are failed, one
  is started and the others are put back. A later entry of a pass sees the jobs failed by
  earlier ones: `IsFailedScan` and `IsSweep` say which set `X` or `F` this leads to, instead of
  running the loop.
* Time: `due` turns TRUE at an arbitrary moment after it was set FALSE; a terminal job is
  old enough for `cleanup` at any moment.
* `revived`, `interrupted`, `succeeded` are history variables: no guard reads them.

Left out: named queues (one queue), the lock's fairness, callbacks, statistics, the
scheduler, the deque of dead letters kept for display, `initial_state` and jobs enqueued with
`dedup="raise"` (same control as "skip": no job is added).

### `SqlQueue`: one statement per step

Every worker, reclaim loop and client holds its own copy of a row between two statements.
`pc` is where a worker's loop is: `poll` (trying the candidates in `seen`), `orphan`, `claim`,
`park`, `fail` (between two statements of `pop` for one candidate), `claimed` and `popped`
(before the second write of `pop` and the first write of `_execute_job`), `body`, `store` (after
the SELECT of `update_if_epoch`), `push` (before the second write of a retry). `Write` is
`_write`: the whole row, from a copy that may be old.

* `Claim` is the conditional UPDATE: the row must have the state the scan saw, and nothing
  else is compared; `copy` is the scan's row. A job that is RETRYING for the second time
  has the state of the first (run `sql_twice`).
* `Reclaim` works from `found`, one copy per row found, so two processes may reclaim one row,
  and a heartbeat may come in between.
* `Crash` drops everything a process had in memory. `stop()` is the same step as far as the
  table can tell.
* `Expire` is the passing of `lease_seconds` without a renewal. For a job that nobody attends
  it is always possible; for one whose worker is alive but slow it is bounded by `MaxLapses`.
* A client operation (`cancel`, `retry`, one candidate of the orphan sweep) is a SELECT and a
  write back; one such operation is in progress at a time (`client`).
* `lapsed`, `revived`, `repeated`, `fenced` and `succeeded` are history variables: jobs whose
  lease ran out, that were retried by hand, that failed twice; workers whose job was
  reclaimed; jobs of which a run returned.

Abstractions: a job depends on at most one job (`Parent`); `Rank` is the order of
`ORDER BY priority, sequence`; UPDATE and INSERT of `_write` are one step; the heartbeat may
renew whenever its UPDATE would match (the code's loop also gives up after a failure); a
copy written back after its time had come may wait for the clock again; owner and lease
columns are only kept for RUNNING rows, the only ones anything reads them in. Left out: the
fingerprint lock table, trimming of dead letters, named queues, `LIMIT` of the reclaim and of
the sweep's list.

`LongBackoff` is an assumption of the runs, stated as a constant: a retried job does not
fall due between the two consecutive writes of `_finalize_retry` (`next_retry_delay` is at
least 0.1 s). With `LongBackoff = FALSE` TLC finds `Exclusive` violated without any lapse:
another worker claims the job between the two writes, and the second write puts it back.

### `JobBoard`: the promise

A set of jobs on a board and the job in each worker's hand. `Take` needs the job on the board
and its dependencies finished; only `Post`, `GiveBack` and `Return` put a job on the board;
only a worker finishes one. `TaskQueue` and `SqlQueue` each end with `Board`, the refinement
mapping, and `ImplementsJobBoard`, which is a PROPERTY of `task_queue` and `sql_live`. In
`TaskQueue` the board is the stored claimable jobs, in `SqlQueue` the claimable rows; a hand is
`exec`, or the job of a worker between its claim and the end of its body. The promise is as weak
as the code: at least once, `Return` may put a job back while it runs (manual retry, lapse),
and jobs may leave the board at any time. What it adds to the invariants is the step:
every start of a body, in any interleaving, takes a job that was on the board then.

### `SqliteTxn`: one writer

An action is what a task does between two awaits, or what a thread of the executor does with a
statement: submitting it, running it (`Run`; the commit of an `execute()` that commits itself is a
second run) and going on after it are three steps. `TakeLock`, `Release`, `Resume` and `GiveUp` are asyncio's Lock with its queue of
waiters: who asks while a waiter has been woken waits behind it, and, as `_acquire` builds a
timer only when `locked()` holds, waits without `pool_timeout` (`untimed`). `Call` chooses one of
three kinds: a statement that commits itself, `transaction()`, or `atomic()`, which differ in what
follows a COMMIT that raises: `transaction()` rolls back, `atomic()` does not.

* `opened` is the state of the sqlite3 connection, `flag` is `AsyncConnection._in_transaction`, by which
  a statement decides whether to commit; they differ after failures. `pinned` is the set of
  tasks whose `_active_txn_conn` is set: their statements take no lock.
* A cancelled await of `run_in_executor` raises at once. If the statement was still queued it is
  gone, if it had run it has run (`Settled`, also when the statement itself raised); but if a
  thread had begun it, the thread goes on although the connection is given back or rolled back
  (`Abandoned`), and runs the rest at any later time (`late`, `RunLate`): in the transaction
  of whoever has the writer then, or outside any, where it is committed at once. Its own
  `commit()` ends whatever transaction is open. `crossed` is history and names the writes whose
  outcome was decided that way: those of the abandoned statements, and those of the block in
  whose transaction an abandoned `commit()` ran. `OneTaskAtATime` and `RolledBack` say what the
  documentation says, without this exception, and do not hold.
* `strays` and `leaked` are history: a COMMIT or ROLLBACK has failed; a BEGIN has. The code keeps
  few promises after the first: the lock is released in a `finally`, the task stays pinned, and
  the rollback of `transaction()` may undo the transaction of whoever took the lock, although
  the comment at `db/backends/sqlite.py:43` says that such roll-backs are what the pinning
  prevents. After the second the lock is never released. The properties name both.

Left out: readers and their semaphore, open, close and reconnect, `ConnectionPool.transaction`,
savepoints and nested blocks, read-only blocks, tasks started inside a block (they inherit the
pinned connection), direct calls of `commit()` and `rollback()`.

### `CacheFlight`: one computation

One key, and one call of `get_or_set` per caller; the initial state has made the calls, their
first look at the backend may take any time. `inflight` is the map of each process, `awaits` and
`answer` the future a joiner waits for, `lock` and `token` the lock of the Redis backend and who was
told about it. `distributed` is chosen at the start: without it nobody locks. `Upset` bounds, all together,
errors of the backend, timeouts, cancellations, ended leases and entries, shutdowns and
crashes. A caller that waited in vain twice computes without registering (`strays`), and its
`finally` removes whatever entry there is. Left out: `stampede_prevention=False`, the
two-level backend, tags, statistics.

### `DocPreview`, `PanelPosition` and `Chat`: the documentation site

The handlers of the provider (`Show`, `ScheduleHide`, `CancelHide`, `HideImmediately`) are functions
on the record `ui`; an event of the browser applies them in the order in which it dispatches
them, so that the pointer leaves one element before it enters the next and `blur` comes before
`focus`. The page is rendered again before the next event. A panel that closes is gone at
once (in the page it fades for 0.15 s). Timers fire at any time after they were set.
`astray` is history and marks the two cases in which the code leaves a panel nobody attends:
the pointer passed over a term of another entity without opening it, and the focus left
through the panel, which has no blur handler.

`PanelPosition` is the arithmetic of `computePosition` in whole pixels, without the caret offset;
it has no behaviour and no run, only theorems.

In `Chat` a text is the request it comes from and the number of its pieces. The effect of the
typewriter (`Effect`) runs after a rendering in which one of its two dependencies changed
(`rendered`, `seen`), and its timer (`Type`) copies from the text as it was when the effect ran. An aborted
request rejects before the next event, so its `catch` and `finally` are in the step of the handler
that aborted it, after the rest of that handler up to its first await. `mixed` is history: the
list was cleared, or a request failed, while an older answer was not typed to its end, so that
the typewriter writes the rest into whatever message is the last; or a timer typed an outdated
text. Nothing orders the timer with React: what is set (`displayed`, `streaming`) is rendered later
(`Render`), the effect that clears the old timer runs after that, and the timer may fire before
either, with the text and the place it was made with (`Outdated`: the text of an earlier
answer, or a piece of what is displayed already). Then the code shortens a finished answer,
until something else is typed, or writes an old one into the new message. Left out: the search that
builds the prompt, the memory block, the attraction messages, unmounting.

## 3. Runs

| run | configuration | shows | states |
|---|---|---|---|
| `task_queue` | `TaskQueue.cfg` | `TypeOK`, `Findable`, `HandedOutOnce`, `DedupExclusive`, `StepsInOrder`, `RunningIsHeld`, `OutcomeStays`, `ImplementsJobBoard` | 2.8 M |
| `task_queue_live` | `TaskQueueLive.cfg` | `EveryJobSettles` over the chain twin → root → step | 0.3 M |
| `task_cancel` | `TaskQueueCancel.cfg` | `CancelledNeverCompletes` is violated | – |
| `task_sweep` | `TaskQueueSweep.cfg` | `RunningIsNoOrphan` is violated | – |
| `sql_claim` | `SqlClaim.cfg` | `TypeOK`, `Exclusive`, `ResultKept` | 2.7 M |
| `sql_live` | `SqlLive.cfg` | `StepsInOrder`, `EveryJobSettles`, `ImplementsJobBoard` | 0.26 M |
| `sql_twice` | `SqlTwice.cfg` | `NeverBothClaim` is violated by a job with three attempts | – |
| `sql_zombie` | `SqlZombie.cfg` | `ZombieDiscarded` is violated | – |
| `sqlite_txn` | `SqliteTxn.cfg` | `TypeOK`, `WriterSerialized`, `OutcomeIsTrue`, `WaitEnds` | 1.0 M |
| `cache_flight` | `CacheFlight.cfg` | `TypeOK`, `SingleFlight`, `LockIsHeld`, `WaitsForSomebody`, `CallsEnd` | 0.35 M |
| `doc_preview` | `DocPreview.cfg` | `TypeOK`, `OneTimer`, `OnPage`, `Attended`, `HoverCloses`, `EscapeCloses` | 2,443 |
| `chat` | `Chat.cfg` | `TypeOK`, `StopReaches`, `SpinnerTrue`, `AnswersItsQuestion`, `WholeAnswer`, `Typed` | 0.49 M |

What the properties say, beyond their comments:

* `Findable`: whatever interleaving of pops, cancels, retries, flushes and clean-ups, a job
  that waits for a worker has a heap entry. This is the property the scan of `pop` could
  easily lose, by consuming an entry it should have put back.
* `HandedOutOnce`, `DedupExclusive` and `OutcomeStays` state their exception: a job in `revived`
  was put back by hand, or failed after it had been cancelled, failed or flushed while its
  body ran. Then the code does run it twice, and two live jobs may share a fingerprint.
* `RunningIsHeld` and `EveryJobSettles` have the exception `interrupted`: `stop()` in the middle of
  a body leaves a RUNNING job without a heap entry, which a restarted manager never sees
  (`engine.py:823` says that a stopped manager can restart).
* `Exclusive` and `ResultKept` are about calm jobs: neither the job nor one it waits for, directly or
  through others, has had its lease run out, was retried by hand, or has failed twice. The last
  condition is not in the documentation: with `max_retries` at its default of 3 two workers
  may claim one job without any lapse, and `NeverBothClaim`, which says what `pop` says of
  itself, is violated (`sql_twice`): one worker scans the job at its first retry and is slow,
  another claims it, runs it and stores its second retry, and the first finds the state it
  had seen. The ancestors count because a poll that finds a dependency unfinished again
  writes WAITING over the row, whoever has claimed it since.

* `WriterSerialized` is the comment of `_pool.py` ("writes are serialized through a single dedicated
  writer connection") as far as it is true: of calls, and of the writes of statements that
  somebody awaits. `OutcomeIsTrue` is what a caller may rely on: the write of a call that returned
  is stored, even if an abandoned statement committed or joined its transaction; that of a call
  that raised is not, unless an abandoned statement made or committed it (`crossed`).
* `SingleFlight` counts: one caller of a process computes, plus one for each that waited twice in
  vain, plus one for a shutdown in between. `WaitsForSomebody` is why joiners do not hang: the
  registered caller is one that computes, and the only owner that leaves a joiner waiting for
  its timer is a cancelled one.
* `Attended` and `HoverCloses` are the safety and the liveness of one promise: what is shown is
  attended or about to close. `EscapeCloses` states where Escape does not close: the trigger takes
  the focus back and opens the preview again.
* `SpinnerTrue` has the exception `pressed`: a question sent with Enter during an answer runs
  without its "Retrieving" line, because the `finally` of the aborted request clears it.
* `Typed` begins when `isStreaming` has been rendered: a stream that is stopped before, in the few
  milliseconds after its first pieces, is never typed, since the effect sees no change.

The violations are disagreements between documentation and code: a cancelled running job
completes (`engine.py:1324`); the sweep for WAITING jobs also fails RUNNING ones
(`engine.py:1803`); a zombie that stalls before its first update defeats the epoch check
(`engine.py:1493`); two workers claim one job that has come back twice (`sql.py:318`).
`PROJECT.json` has the details under "findings". Three more have no run of their own. "each
connection must only be used by one task at a time (enforced by the pool)"
(`sqlite/_connection.py:50`), and a block that exceeds its timeout "was rolled back"
(`models/transactions.py:416`): `OneTaskAtATime` and `RolledBack` of `SqliteTxn`, which both
fail when a call is cancelled while its statement runs; `SqliteTxn.cfg` with two tasks,
`MaxCalls = 2`, `MaxFaults = 0` and either of them as its invariant shows it. And
`pop` says that jobs with unsatisfied dependencies "are skipped and left queued" (`sql.py:321`), but
they count in the LIMIT of 32 (`sql.py:335`), and when 32 of them come before the job they wait
for, no poll ever reaches it. `SqlLive.cfg` with `ScanLimit = 1` shows it with one waiting child:
`EveryJobSettles` is violated.

### Bounds

Two workers and three jobs are enough for each hazard of `TaskQueue`: a dependency and its
dependent, a rival for the fingerprint, a delay, a retry (`MaxRetries` of 2, 1 and 0), and two
workers for one job. `MaxRequeues = 1` allows the sequence cancel – retry – run again; every
other counter is bounded by the retry budgets. Workers are symmetric.

In `SqlClaim.cfg` two processes race for a parent and a child that comes before it in the
scan and may be retried twice; one manual retry of either makes the child wait again after
it was claimed. Symmetry exchanges the two processes together with their workers. Lapses are
left to the proof, which has no bound, to `sql_live` (a crash) and to `sql_zombie` (one lapse, one job):
a lapse more makes the instance too large. `SqlTwice.cfg` has one job, no lapse and no manual retry.
Liveness is checked without symmetry, with one worker, the parent and the child, a crash and a
retry.

`SqliteTxn`: three tasks (an owner, a woken waiter, a third that comes in between), three calls
between them and one failing BEGIN, COMMIT or ROLLBACK. `CacheFlight`: three callers make an owner, a
joiner and one that joins the joiner; the fourth, in another process, contends for the lock;
two upsets make a late release of an ended lease, or a stray caller and the one it lets in.
`DocPreview` has no bound: its state is finite. `Chat`: two questions
make an answer that is stopped, overtaken or still being typed and one that comes after it;
three pieces make an answer that is partly typed, with a timer for another part; three questions,
with two pieces, take 8.8 million states and show nothing else (`Spec`, the invariants alone).
`CHECK_DEADLOCK FALSE` is stated where calls, questions or callers run out.

### Fairness

`TaskQueue`: a worker loop polls every 0.1 s; a body ends, by its timeout if not by itself;
the clock passes `scheduled_at`; the cleanup loop runs. `EveryJobSettles` is stated for
behaviours in which the manager stays up (`<>[]running`). `SqlQueue`: worker loops take their
next step, reclaim loops run, the clock passes, and a lease that nobody renews runs out.
Weak fairness is enough: each of these steps stays possible until it is taken, or something
else has changed the job. No fairness is assumed of clients, heartbeats, lapses of
an attended lease, crashes or restarts.

`SqliteTxn`: the executor runs statements that are awaited, the loop runs tasks that are ready,
blocks end; nothing is assumed of statements nobody awaits, and nothing is assumed of `pool_timeout`, so `WaitEnds` also holds for the waiters without a timer.
`CacheFlight`: the backend answers, loaders end, the poll has its deadline; nothing is assumed of
the joiner's timer, so `CallsEnd` has to except callers whose owner was cancelled. The
documentation site: the browser renders, runs timers and effects, and a stream ends; nothing is assumed of the
reader.

## 4. Proofs

For every set of jobs, workers, keys and processes, every dependency relation, priority and
retry budget; the assumptions are those the modules name (`NullsAssumption`,
`JobAttributesAssumption`, `MaxRequeuesAssumption`, `IdentifiersAssumption`,
`NumbersAssumption`, `BoundsAssumption`, `NoneAssumption`, `PlacesAssumption`, and in `CacheFlight`
`CallersAssumption`: finitely many callers, so that they can be counted). Three theorems have a
hypothesis, said below.

`TaskQueue_proofs` proves that `IInv` is inductive (`Invariance`), and from it `TypeOK`, `Findable`,
`HandedOutOnce`, `DedupExclusive`, `StepsInOrder`, `RunningIsHeld` and the action property
`OutcomeStays`. None of the properties is inductive alone:

* `Known`: only enqueued jobs are stored, run or have left their first state, so an enqueue
  does not disturb a job in a worker's hands;
* `HeldState`: a job in a worker's hands is running, cancelled or failed unless it was revived,
  so it is not claimable and no second worker can take it (`HandedOutOnce`), and its end is
  not the end of a COMPLETED or DEAD job (`OutcomeStays`);
* `ReservationHeld`: a live job that was not revived still holds its fingerprint, so an enqueue
  with the same fingerprint is refused (`DedupExclusive`);
* `ParentsSucceeded`: a body runs only after the bodies it depends on have returned
  (`StepsInOrder`).

`SqlQueue_proofs` proves `TypeOK`, which includes that a worker holds a job from its claim to its
last write and has candidates only while it polls, and `StepsInOrder`. The invariant `OInv` for
the latter follows a dependency from the check to the end of the body: a COMPLETED row
belongs to a job of which a run has returned; a COMPLETED copy exists only in the hands of a
worker about to store it, after its run has returned; a worker about to claim, and one that
holds a job, have seen the dependency's run return. It holds although rows are overwritten
by old copies in every direction, because every such write puts some other state in the row,
and a run that has returned is never undone, whatever happens to the row.

`TaskQueue_proofs` and `SqlQueueBoard_proofs` prove the refinement `ImplementsJobBoard`: the
initial states map to the empty board, and every step maps to one of `JobBoard` or changes nothing
on it. A poll maps to `Take`, the end of a body to `Finish`, `GiveBack` or `Drop`, a first push to
`Post`; a write of the table maps to `Return` when it writes a claimable state and to `Withdraw`
otherwise. The first proof needs `IInv` only: `Known` (a job somebody retries was posted) and
`ParentsSucceeded`. The second strengthens `OInv` by `Origin`: rows and copies exist only for jobs
that were pushed, a poll tries only rows it read claimable (with the state test of the UPDATE, the
job claimed is on the board), and until its body has ended a worker holds a copy that says
RUNNING, so its unconditional writes put nothing back on the board.

`SqlQueueBoard_proofs` goes on to `Exclusive` and `ResultKept`, for any number of processes, workers,
lapses, crashes and manual retries and for workflows of any shape (a job's ancestors need not
even be finitely many). The hypothesis is `LongBackoff`, the assumption of the runs. The
invariant `KInv` says of every calm job: one worker at most holds it (`OneHolder`); while it is held its
row is not claimable, except between the two writes of a retry, when it is not due
(`RowOfHeld`); once it has been claimed its parent is over and stays so (`Before`), so that no poll
parks it (`NoPark`); and while some poll still sees it RETRYING, whoever holds it is on a second
attempt that can end in a second retry only (`FirstRetry`). So a claim that finds the state it
saw finds the first retry, not the second, and nobody holds the job (`NobodyHolds`). Reclaims and
manual retries touch no calm job, and what was calm before a step is all that has to be known,
since history only grows (`CalmBefore`). Each step is one of three kinds, with a lemma each:
a read of `pop` (`ReadStep`), a claim (`ClaimStep`), and everything else (`QuietStep`), reduced to what it may
do to a row and to a worker. `TwoAttemptsAreClaimedOnce` is the corollary for the documented claim:
if no job depends on another and none has more than two attempts, `NeverBothClaim` holds.

`SqliteTxn_proofs`: `TypeOK` includes the lock's queue (who waits is in it, once; a wake-up is pending
only while the lock is free and somebody is there), which every race of a timeout or a
cancellation with a wake-up must keep. `WriterSerialized` and `OutcomeIsTrue` need `OneStory`: until a
COMMIT or ROLLBACK has failed, the lock, the pinned tasks and the flag of the connection are
all of the one task inside its block (`Lock`), and so are, but for what is in `crossed`, sqlite's
transaction and what is uncommitted (`Data`, `Story`); statements left to their threads are
of crossed writes and never a ROLLBACK (`Left`), so that a late `commit()` can commit too much
but nothing can undo what a call has reported. `Fresh` says that the write of a call exists only
after its statement has run, `Awaits` which statements a task may await where.

`CacheFlight_proofs`: `SingleFlight` follows from `Counted`: in each process, the callers that compute
without being registered are at most as many as its strays, plus one after a shutdown. A
stray that ends may remove the entry of another, which then takes its place in the count
(`OneForAnother`). `WaitsForSomebody` is inductive with the types; `LockIsHeld` needs that a caller about to
give back a lock has its result.

`DocPreview_proofs`: the handlers are functions on `ui`, and each has a lemma that says what it
returns (`ShowIs`, `ScheduleHideIs`, ...). The invariant adds to the four properties that a mouse and a
finger open previews in different ways (`OneInput`), and that the timer that opens is for the
term the pointer is still on (`OpensUnderPointer`). `EscapeCloses` is proved as an action property.

`Chat_proofs`: `StopReaches` and `SpinnerTrue` need only that nobody but a build with a key runs a request
and that nothing of an answer is shown before its response. `AnswersItsQuestion` and `WholeAnswer` need
to know where every text comes from that lies about (the messages, the text ref, the timer of the
typewriter: `Sources`), whatever has been rendered of it, and, until the cases in `mixed`, a story of the list: a request that runs is under
its question, which is the last; what is still to be typed belongs to the last question and
to no settled answer; every answer stands under the question of its request (`Filed`); an
answer that was read to its end is whole (`Settled`).

`PanelPosition` proves, for every anchor, panel and viewport, that a panel that fits the viewport
is placed inside it with its padding (`InsideViewport`), and that one that fits on either side of its
anchor does not cover it (`BesideAnchor`), whichever side was preferred.

Every invariant and every action property of the passing runs is proved, and so are both
refinements. Model-checked only: the liveness properties (`EveryJobSettles` of both queues, `WaitEnds`,
`CallsEnd`, `HoverCloses`, `Typed`), which TLAPS 1.4.5 cannot treat (fairness needs ENABLED). No module uses
RECURSIVE operators.

## 5. Plan

Done: the two queues, the job board they implement, the SQLite writer, the single flight of the
cache, the previews and the assistant of the documentation site, with the proofs of their
safety. Next, in this order:

1. Lemmas towards liveness that need no fairness: for `SqlQueue`, that a job that is active always
   has somebody who may act on it (a worker, an expiring lease, the clock, or its parent), of
   which `EveryJobSettles` is the temporal part; the same for the waiters of `SqliteTxn`.
2. `Exclusive` after a lapse: how many workers may hold a job, as a function of its lapses.
3. `SqlReservation`: the fingerprint lock table with its expiry, and the scheduler loop that
   relies on it for one run per slot (`tasks/engine.py:1887`: the reservation is released when the
   job completes, a second scheduler later in the same slot fires it again).
4. `Lifecycle` (start with rollback, shutdown, restart), `SessionStore` and `RefreshFamily`, `HttpPool` and
   `DiPool`. Each run of the project asks one question of the system, and a module of this
   list would take the place of a narrower run.

### Not modelled, and why

Most of the TypeScript of the repository is text: pages, data files and diagrams of the
documentation site, without state beyond which tab is open. Among the Python parts,
`PROJECT.json` gives the reason for each. Hazards known in the parts modelled, and outside
the models: a statement of `SQLBackend` that raises, or whose answer is lost after it was committed
(`tasks/backends/sql.py:441`: `_execute_job` then takes a body that returned for one that failed,
`tasks/engine.py:1610`); jobs pushed with a delay to the SQL queue and their state SCHEDULED
(`tasks/backends/sql.py:69`), whose control is that of a RETRYING row that is not due; a `start()`
of the in-memory manager while workers of a `stop(timeout)` that ran out are still in a body
(`tasks/engine.py:944` and `1039`; `Start` waits for them); a pass over the in-memory heap that
starts and fails nothing, which only drops entries of jobs that are gone and puts the others back
(`tasks/engine.py:472`); keyboards and mice on a touch device (`DocTerm.tsx:46`: `PointerMove` and
`FocusMove` are for the others); the orphan sweep lists at most 10,000 jobs (`tasks/engine.py:1354`); queues are
polled in a fixed order, a busy queue starves the later ones (`tasks/engine.py:1456`); sequence
numbers restart at zero in every process (`tasks/backends/sql.py:268`); in the assistant,
"No response content received." is overwritten by the empty text (`components/Chatbox.tsx:671`).

## 6. Running

    tlc -workers 4 -config TaskQueue.cfg MCTaskQueue.tla
    tlc -workers 4 -config SqlClaim.cfg MCSqlQueue.tla
    tlc -workers 4 -config SqliteTxn.cfg SqliteTxn.tla
    tlc -workers 4 -config CacheFlight.cfg MCCacheFlight.tla
    tlc -workers 4 -config DocPreview.cfg MCDocPreview.tla
    tlc -workers 4 -config Chat.cfg Chat.tla
    tlapm TaskQueue_proofs.tla
    tlapm SqlQueue_proofs.tla
    tlapm SqlQueueBoard_proofs.tla
    tlapm SqliteTxn_proofs.tla
    tlapm CacheFlight_proofs.tla
    tlapm DocPreview_proofs.tla
    tlapm Chat_proofs.tla
    tlapm PanelPosition.tla

The operators in the specifications whose comment says "mutant" are plausible mistakes:
putting one in the place of the operator it is named for makes the property that
`PROJECT.json` lists with it fail. They are not part of the specifications.
