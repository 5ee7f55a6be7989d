# A verification project for vardiya

vardiya is a job queue on one SQLite file. Producers insert rows, worker
processes claim and run them, and a maintenance loop in every client promotes,
reclaims, materializes cron schedules and cleans up. Everything that can go
wrong goes through the two tables `jobs` and `repeatables`, which any number of
processes share and none of them owns. This directory models that system in
TLA+, checks it with TLC and proves most of its safety with TLAPS.

## The system

| Part | Source | State | Operations |
| --- | --- | --- | --- |
| SqliteStorage, jobs | `src/storage/sqlite.ts`, `schema.ts` | the `jobs` table | enqueue (with a dedup key), claimNext, complete, fail, moveToDead, release, heartbeat, cancel, promoteDelayed, reclaimStale, cleanup |
| SqliteStorage, repeatables | `src/storage/sqlite.ts` | the `repeatables` table | upsertRepeatable, listRepeatables, enqueue with `options.repeat` |
| Schema | `src/storage/schema.ts` | `user_version`, the version of the table | migrate, called by SqliteStorage.init |
| WorkerRuntime | `src/worker/worker.ts` | `#state`, claim loop, `#inFlight`, `#jobControllers` | start, stop, the loop, a run with its heartbeat, timeout and abort |
| Semaphore | `src/worker/semaphore.ts` | permits, waiters | acquire, release |
| AdaptivePoller | `src/worker/poller.ts` | the next delay | onHit, onMiss, reset |
| MaintenanceLoop | `src/scheduler/scheduler.ts` | the tick in flight, a tick count | start, stop, tick |
| cron | `src/scheduler/cron.ts` | none | parseCron, nextRun |
| Vardiya, Worker | `src/vardiya.ts` | storage, maintenance loop, workers | init, close, enqueue, process, upsertRepeatable, cancel, ... |
| Utilities | `src/util/` | createId's counter | createId, sleep, emitter |

How they interact. Workers, clients and maintenance loops call the Storage
interface and nothing else; they never talk to each other. better-sqlite3 is
synchronous and SQLite has one writer at a time, so an operation is atomic
against every other process. Inside a process, the code between two awaits is
atomic, and the microtasks that are queued run before any timer. stop() reaches
the runs through `#jobControllers` and the claim loop through the semaphore.

What makes each part correct, and what is hard about it:

- *jobs table*: a job is started at most maxAttempts times (plus the starts that
  shutdowns hand back), a final row stays final, an active row can always be
  reclaimed, a cancel request belongs to the run in progress. Hard: calls arrive
  late, twice, with old timestamps and from processes that lost the row.
- *WorkerRuntime*: a running handler owns its row; permits are conserved; every
  exit leaves the row in a state somebody will look at; a cancelled run ends;
  stop() ends and leaves nothing behind. Hard: stop(), a heartbeat, a timeout, a
  cancel and the next claim of the same job meet in any order; storage calls
  fail; processes die.
- *MaintenanceLoop*: every occurrence becomes a job, once. Hard: a tick is not a
  transaction, several processes tick, and a tick works on rows it listed before.
- *cron*: the next run is the first minute after `from` that the expression
  allows, and the search ends. Hard: the cursor jumps, and every jump starts
  afresh at a different place of the calendar.
- *Schema*: `user_version` tells which table there is, and a migration loses no
  row and no key. Hard: the version is read outside the transactions, several
  processes start on one file, and each may die between two of its steps.
- *Vardiya, Worker*: nobody is left with a closed storage in hand, and nothing
  is left behind when the client is closed. Hard: every call awaits something,
  and starts, ticks and runs go on by themselves in between.

`PROJECT.json` lists the hazards one by one, at their lines.

## Modules

| Module | Role |
| --- | --- |
| `Storage` | The jobs table; one action per operation. `Spec` lets anybody call anything with any id, at any time. |
| `JobLifecycle` | What the queue promises of a job: submitted, started, retried, handed back, finished, purged, with a count of starts left. |
| `StorageLifecycle` | The refinement mapping from `Storage` to `JobLifecycle`. |
| `Worker` | Extends `Storage`: processes with claim loop, semaphore, runs, stop() and crashes. |
| `Scheduler` | Extends `Storage`: maintenance loops and the repeatables table. |
| `Cron` | parseCron and nextRun over any calendar. |
| `Migration` | The connections of many processes to one file, and migrate. |
| `Client` | Extends `Migration`: one process with its client, loops and workers, and the calls of its tasks. |
| `StorageProofs`, `LifecycleProofs`, `SchedulerProofs`, `CronProofs`, `MigrationProofs` | The theorems about each component. |
| `WorkerProofs`, `OwnershipProofs` | The theorems about workers: permits and rows; then who owns a row, and what stop() leaves. |
| `ClientProofs` | The theorems about clients; extends `MigrationProofs`. |
| `MCStorage`, `MCWorker`, `MCScheduler`, `MCCron`, `MCMigration`, `MCClient` | Small instances for TLC. |

### Storage

`jobs` maps the ids in the table to rows; `nextId` is the id of the next row
(createId never repeats one, and orders those of one process by age); `now` is
the clock. A row has the columns the statements read or write; payload, result,
name and creation time decide nothing and are left out. `lastError` is one of
four kinds. `Null` stands for SQL NULL in `heartbeat_at`.

Every action follows one prepared statement or one transaction of `sqlite.ts`.
`WriteActive` is the shape `UPDATE ... WHERE id = @id AND status = 'active'` that
most of them share. An operation takes the time `t` that its caller has read:
`Stamps` allows it to be up to `MaxLag` behind, because a caller reads the clock
before it waits for the write lock, and a tick reads it once for all its
statements. `RetryDelays` is computeBackoffMs, with jitter as a choice.

Reads (getJob, counts, listings) change nothing and are left out, and so is the
case that enqueue finds its key taken and the row gone when it reads it back:
it throws, and has changed nothing.

### Worker

One record per permit (`runs[w][s]`) is a call of `#runJob`: `handler` while the
handler runs, then what the run made of its end, then `free` after the finally
block. A storage call happens in the step that makes it. `AbortSettles` follows
the order of the tests in `#handleJobFailure`. `controllers` is
`#jobControllers`, a map by job id, with the run that its controller aborts.
`stopStep` is where stop() waits: for the first drain, for the second one, or
for the claim loop.

`Microtasks(w)` says that a process has continuations queued. Timers (timeout,
heartbeat, the end of the second drain) wait for them; among each other the
continuations are taken in any order, which allows a little more than the
microtask queue does. With `WritesFail` a storage call may throw, also that of a
heartbeat (`BeatThrows`), which then is simply tried again an interval later.
`Clock` moves only when no process that is not in `MayStall` has something
queued or a heartbeat due: a process whose event loop is not blocked beats on
time. A crash empties the process and leaves the table. Every worker claims from
all queues. The semaphore is `permits` and `loop = "queued"`, its one waiter;
the poller is the sleep `resting`, of any length.

Handlers are user code: a handler returns, throws, throws UnrecoverableError,
touches, or hangs. What it does after its run has been aborted is not observed.

### Scheduler

`tick[m]` is the tick of loop m: the step it has come to, the time it read, the
rows it listed and has not dealt with (each with its cursor), and how many
occurrences it produced for the current row. Each await of `tick`,
`materializeRepeatables` and `materializeOne` ends a step. A cron expression is
its period in minutes, or `BadCron`, which parseCron rejects; `NextRun` is the
next multiple of the period. It exists (`HasNextRun`) if it is at most
`SearchMinutes` away; otherwise nextRun throws its RangeError, as it does for 30
February. The client's upsertRepeatable refuses an expression that has no next
run, enqueue with `options.repeat` stores any. In a tick both errors end the
tick: before anything is written (`RejectCron`), or when the round that has just
enqueued asks for the next date (`Advance`), so that the row keeps the old one.
Of the registered row only the expression and
next_run_at are kept; the expression stands for the whole definition.
`Interrupt` is a storage call that throws or the death of the process.
`Elsewhere` are the clock and the workers, which have claimed at most `MaxClaims`
of the jobs in the table. Jobs are the rows of `Storage`; an occurrence is its dedup key. `since`, `made` and
`madeAgain` are history variables that no action reads as a guard.

### Cron

A field is the set of the parts of its comma list, a part its base (`*`, a
number or a range), its numbers and its step: what parseField has when it has
split the text. A part that is written twice is one part of the set; only for `*`
would that make a difference, and `*,*` (every value, but not the text `*` that
the day rule asks for) is given as `*/1`. `BadPart` is every SyntaxError that numbers can raise. The state
machine is one call of nextRun: parse (`Reject`, `Begin`), then one step per
round of the while loop, which looks at month, day, hour and minute in this
order and makes the first jump that is needed (`AdvanceToNextMonth`,
`AdvanceOneDay`, `AdvanceToNextHour`, `AdvanceToNextMinute`), or ends (`Return`,
`GiveUp` after the deadline). An instant is year, month, day, hour and minute
in UTC. The lengths of hour, day, week, month and year and the weekdays are
parameters: nextRun relies on none of them.

`Allows` is the meaning of an expression, read field by field as it is written;
the properties compare what the jumps reach with it.

### Migration

`version` is `PRAGMA user_version` and `table` the migration whose table the file
holds; that the two agree is a property. A connection is new, migrating (with
the migration that is next), ready, failed or closed. migrate is cut where it
reads the version (`ReadVersion`) and at each transaction (`CreateTables`,
`AddDedupKey`); `TablesExist` is the error of a CREATE TABLE that comes second,
`MigrationIsBusy` the one retry of withBusyRetry, which reads the version once
more, and `PrepareStatements` the end of init. `Reopen` is the process that dies
or gives up and comes back. Of a row there are id, status and dedup key, which is
all that a migration touches. With `MayOverlap = FALSE` a connection waits for
the migration of another, which the code does not; a theorem needs it.

### Client

`calls[k]` is the call that task k awaits and where it stands; a task makes its
next call when the last one has returned, and two tasks may have calls under way
at once. init, close, process, createWorker, enqueue (the insertion, `EnqueueCall`, and
the read of the row, `EnqueueReads`), and start and stop of a worker are cut at
their awaits. The connections are those of `Migration`: opening one
is synchronous, so nothing else moves in this process (`opening`) while others
(`OtherProcess`) do. close() waits for the start that process() has queued on a
microtask (`EmbeddedStarted`), for the tick of its loop (`MaintenanceIdle`) and
for each worker in turn (`CloseNextWorker`), and then closes the storage. Of
WorkerRuntime there is its state, whether the claim loop is alive, and one run;
what stop() does inside is the business of `Worker`.

## Runs

| Run | Instance | What it shows |
| --- | --- | --- |
| `storage` | 2 jobs, 1 dedup key, 2 attempts, clock 0..2, lag 1, jittered backoff 0..1 | the invariants of the table, final rows, the refinement |
| `workers` | 2 workers, 1 permit each, 1 job, 2 attempts, clock 0..4, lag 1, timeouts, crashes; symmetric workers | a running handler owns its row; no double run; no forgotten row; true reports |
| `stop` | 1 worker, 2 permits, 2 jobs, failing storage calls, timeouts, retries that wait, clock 0..1 | permits, abort of leftovers, quiet after stop; stop() ends and so does a cancelled run |
| `recovery` | 2 workers, one may die, 1 job, clock 0..2 | every job ends |
| `schedules` | 2 loops, one may fail, 2 keys, expressions that do not parse, have a next run, or have none within reach, catch-up cap 1, clock 0..1, cleanup at each tick that finds nothing old enough | nothing skipped, nothing doubled, always caught up unless a row ends the ticks |
| `cron` | every expression over 3 minute, 3 hour, 6 day, 3 month and 6 weekday fields, from the ends of two years | the first allowed minute or a justified error, and always an end |
| `client` | one task; a client with an embedded and a created worker, a standalone worker, 2 connections of its own, another process, files of version 0 and 1 | no use of a closed storage, nothing left running, files migrated right, calls that return |

Five more runs end in a violation, and each is a finding, with the text it
contradicts in `PROJECT.json`:

| Run | The code does |
| --- | --- |
| `migrate_twice` | A process that has read version 1 applies migration 2 after another one has, and overwrites the dedup keys of jobs enqueued since. |
| `second_stop` | A second stop() of a standalone worker waits for the claim loop only and closes the storage under a run in flight. |
| `leftovers` | A job that fails without delay and is claimed again, by a second permit, before the finally block of its first run, loses its new controller: stop() does not abort it. |
| `zombie` | A run that lost its row ends the row's next run (`complete` and `fail` know the job's id and not the run). |
| `lost_upsert` | A tick writes back the definition it listed over one that a client registered since. |

The bounds. The clock is as long as the longest chain a property needs: start a
run, let its heartbeat become stale, reclaim, start again, fail. Two jobs are
what `stop` needs to have a run in flight while another is dispatched, and what
the unique index and the claim order need to have an effect; one job is enough
where the question is who holds it. Two attempts are a first run and a last one.
A cap of one and two occurrences make a catch-up that needs two ticks; two keys
put a row that ends every tick in front of another, or behind it. `MaxJobs` in
`schedules` is the number of occurrences, so the bound disables no insertion. A
timestamp is at most one unit old in `storage` and `workers`, so that two
statements may write theirs in the wrong order; the proofs take any age.

The calendar of `cron` has two minutes, two hours, three weekdays and two
months, of two days or, in a leap year, three; year 4 has no leap day, as 2100
has none, so the search that starts in year 3 gives up on it
(`SearchDays` = 25, five years). Every branch of the search occurs: months of
different length, a carry into the next year, both day rules, expressions that
never match. The fields have every form of part, and two that are refused. The
proofs are for every calendar.

In `client`, two connections of its own let the client reopen, or a standalone
worker have a storage beside the client's; the other process migrates, enqueues
and dies at any time. One row of an old release and one new row are what the key
of a migrated row can be confused with.

The passing runs leave some things out on purpose. `workers` has no stalled
event loop and beats more often than rows become stale (`zombie` has the stall:
a run that misses its heartbeats loses its row). `stop` has retries that wait
(`leftovers` has not). `schedules` keeps rows and registers a key once
(`lost_upsert` registers again). `client` has one task and uses no object again
whose storage is closed (`second_stop` has two tasks). What goes wrong beyond
these bounds is under "Known limits".

Deadlock is checked in every run but four: a call of nextRun ends (`cron`), and
the processes of `client`, `second_stop` and `migrate_twice` have nothing left to
do when everything is open, or closed, and the rows of the instance are used up.

## Fairness

`FairWorkerSpec`: weak fairness of a process's own continuations (the loop, the
settling of an aborted run, the finally block, the steps of stop()), because a
JavaScript engine runs what is queued; and of promoteDelayed and reclaimStale,
because every client ticks. Strong fairness of a heartbeat that returns: it is
an interval, and the storage does not throw at every single beat. Strong
fairness of the clock: it is disabled whenever a process has something queued,
again and again while it polls, and every poll sleep takes time. Nothing is
assumed of handlers, so `StopTerminates` and `CancelEndsRun` hold with handlers
that hang. `EveryJobEnds` needs handlers that end (`HandlersEnd`) and a worker
that stays up (`SettlesDown`, part of the property): a hanging handler with a
heartbeat keeps its job for ever, which is what the code intends.

`FairSchedulerSpec`: weak fairness of the steps of each loop, an interval that
goes on. A loop in `MayFail` may fail every time.

`FairSpec` of `Cron`: a synchronous function that was called goes on.

`FairClientSpec`: weak fairness of the steps of each call, of a tick ending, of
an aborted run ending, of a claim loop leaving and of a queued start. A handler
that nobody aborts may hang, nobody has to make a call, and other processes may
do nothing for ever.

## Proofs

The proofs assume what the modules assume of their constants: attempt limits
are positive, bounds are numbers, no key is `NoKey` (`ConstantsAssumption`);
there is at least one permit (`WorkerAssumption`); the dedup key of an
occurrence is a key (`OccurrenceAssumption`); lengths of the calendar are
positive, and the deadline lies within the years that properties speak about
(`CalendarAssumption`, `DeadlineAssumption`); old and new row ids differ
(`MigrationAssumption`). They hold for any number of jobs, workers, permits,
loops, keys, connections and callers, any backoff and any lag. That attempt limits
are positive leaves nothing out: the code takes others too, but compares the limit
only with the attempts of an active row, of which there is at least one, so that
a limit below 1 acts as 1. Where a theorem
needs more than that, the hypothesis stands in its statement, and a run that ends
in a violation shows what happens without it:

| Hypothesis | Says | Without it |
| --- | --- | --- |
| `RowsAreKept` | no event loop blocks, heartbeats do not throw and their interval is shorter than the stale timeout by `MaxLag` (`BeatsInTime`); or the clock ends before anything is stale (`NothingGoesStale`) | `zombie` |
| `RetriesWait` | a retry is due later than a timestamp can be old; a jittered backoff, and with it the `DEFAULT_BACKOFF` of `sqlite.ts:23`, does not promise that | `leftovers` |
| `BetweenTicks` | a definition is replaced only when no tick has the row on its list | `lost_upsert` |
| `MayOverlap = FALSE` | one process migrates at a time | `migrate_twice` |
| `Callers = {k}` and `~Reuse` | one task, which starts nothing it has stopped or closed | `second_stop` |
| `CleanupEveryTicks = 0` | finished rows stay | see "Known limits" |

The passing runs are instances of them: `workers` of `BeatsInTime`, `stop` of
`NothingGoesStale` and `RetriesWait`, `schedules` of `BetweenTicks` (each key is
registered once, `NothingIsSkippedOfOne`), `client` of one task.

*The table.* `StorageInv` is inductive: types, and for each row that its attempts
fit its status (`WithinBudget`), that it has a heartbeat exactly if it is active
(`ActiveIsReclaimable`), that a waiting row has no cancel request
(`NoCancelInQueue`) and that a pending or active row is due (`PendingIsDue`).
The parts need each other: release and the retry of fail put a row back only
from `active`, and it is the budget of active rows that leaves a start for the
waiting one; a fresh row is pending only if its time has come, and Stamps never
exceed the clock. All conjuncts but the typing of the clock and the ids speak
of one row, so a lemma says which rows are sound, each operation is shown to
make sound rows out of sound rows, and one lemma lifts that to the table.

*The lifecycle.* `LifecycleProofs` shows the refinement: the empty table maps to
the initial state, and every operation takes every job by a step of
`JobLifecycle` or lets it rest. A statement that writes many rows (promoteDelayed,
reclaimStale, cleanup) moves many jobs at once, which is why the abstract step is
a conjunction over jobs. `WithinBudget` is what makes `Start` possible and what
lets `Retry` happen only while starts are left. `TerminalRowsNeverChange` is the
action property that no call changes a final row.

*The workers.* `WorkerInv` is `StorageInv` with, for each worker, the equation of
its permits (`Counted`), that it names only rows that were inserted (`Known`),
and which phases of loop, stop() and process go together (`Orderly`). From
`Known` every step of a worker is a step of `Storage` or leaves the table alone
(`WorkersImplementStorage`), which carries the invariants of the table over to
the workers. An action moves a permit from one term of `Counted` to another:
that is `PermitsAreConserved`. `NoRowIsOrphaned` follows a row from the claim to
the storage call that ends it: the claim has it in hand, Dispatch passes it on,
and each way out of the handler writes the row before it lets go.

*Ownership.* `OwnershipProofs` treats a row as a lease. A worker has a job in one
of its hands: the claim loop between claimNext and the dispatch, or a slot whose
handler runs. `Ownership` says that each row in a hand is active, for the start
that the hand knows, and that no two hands hold one row (`Exclusive`): the two
need each other, because only the holder may end a row, and only a row that nobody
holds can be claimed. Nobody else takes the row because it is not stale: its
heartbeat is younger than `Since` tells, one interval and the age of a timestamp
behind the run's own `beatAt`, and the clock cannot pass a heartbeat that is due.
That gives `LiveRunsOwnTheirRows`, `OneRunAtATime` and `OutcomesAreTruthful`.
`Tidy` is what stop() rests on. A run that has reported its end keeps its entry in
`#jobControllers` until the finally block; until then its job must be `Quiet`: in
nobody's hand, and not to be claimed in this instant, which is why the retry has to
wait. (A released job may be claimed at once, but not by a worker that is
stopping.) Then every live run has its own controller (`Controlled`), and the
stages of stop() say what can be left (`Draining`): `AbortReachesLeftovers` and
`StoppedWorkersAreQuiet`. A jittered backoff may draw no delay at all, so
`RetriesWait` excludes it, as it must: of queues whose jobs use the default backoff
these two theorems say nothing.

*The loops.* `LoopInv` types the ticks and carries `StorageInv`
(`LoopsKeepTheTable`; a tick's time may be older than any caller's). For
`NothingIsSkipped` the invariant speaks of every cursor, in the table and in
the lists of all ticks: the occurrences from the registered date up to it have
all been inserted (`Ahead`). A round inserts the occurrence at its cursor before
it moves past it, so `Ahead` survives a loop that writes an older cursor over a
newer one. A replacement starts the occurrences of its key afresh, so it needs
that no tick still goes by the old ones (`BetweenTicks`).
`OccurrencesAreUnique` needs that no row is cleaned up (`CleanupEveryTicks = 0`):
a made occurrence has a row with its key, and enqueue refuses a taken key.
`TicksKeepReplacements` shows that what `lost_upsert` finds is due to the moment of
the replacement alone: definitions may be replaced any number of times, and as
long as no tick has the row on its list at that moment, no tick undoes one. The
invariant is that what a tick has listed is what is registered.

*The search.* `CronInv` is the type invariant, `NothingJumpedOver` and that the
schedule is the parsed expression. Each jump is shown to go forward, and every
minute that it passes to have an excluded month, day, hour or minute; the
lemmas about the calendar say which instants lie between t and NextDate(t),
NextHour(t) or the first of a later month. `MatchesIsAllowed` then translates the
sets that ParseCron has built into the words of the expression, which gives
`FoundIsFirstAllowed` and `GivesUpRightly`.

*The migrations.* `BelievedVersions` says that what a connection has read of
user_version stays true enough for its next step, because the version only
grows, and the table with it. The theorems about versions, old ids and lost rows
need no assumption about who migrates when. `KeysAreKeptAlone` shows that
`migrate_twice` is the fault of the overlap alone: with `MayOverlap = FALSE` no key
changes.

*The clients.* Every step of a client is a step of `Migration` on one of its
connections, or closes one, so the claims about the file carry over, for any
number of tasks (`ClientVersionIsTrue`, `ClientOldIdsHit`, `ClientLosesNoRow`; and
`ClientTypeCorrect`). For the order in which things are closed the application is
one task k. `OneTaskInv(k)` then says where its call may stand and what it has done
by then (`CallInv`), that every open connection is in exactly one place, being
opened, the client's, or one standalone worker's (`Opened`, `Held`), that a worker
which may still claim or run is one that the client knows or close() has on its
list (`WorkersInv`), and that close() takes the client apart in order: the queued
start, the loop, the workers, the storage (`ClientInv`). The last two are what
`StorageIsClosedLast` needs of close(); `NothingIsLeftRunning` is the same
invariant read when no call is under way. With two tasks `CallInv` is not
inductive, and `second_stop` is why.

Only model-checked is liveness (`StopTerminates`, `CancelEndsRun`, `EveryJobEnds`,
`DueIsCaughtUp`, `SearchEnds`, `CallsEnd`), which the prover does not reach: every
safety property of a passing run is a theorem.

## Known limits

Behaviour of the code that shows in the models when an instance is widened, or
when the reading that led to it is followed, and that no run of its own covers:

- A cancel request is dropped if the run fails, is released or is reclaimed
  before its heartbeat sees it (`sqlite.ts:743`); `CancelEndsRun` promises that
  the run ends, not that the job does.
- A run that lost its row reports `job:completed` all the same, since complete()
  returns no count (`worker.ts:436`). `TruthfulOutcome` holds while heartbeats are
  on time.
- The default heartbeat follows the poll interval and can exceed the stale
  timeout of the maintenance loop (`worker.ts:117`); `workers` beats in time.
- An occurrence may run twice: a tick is interrupted after its enqueue, another
  loop's cleanup deletes the finished row, and the retry inserts it again
  (`scheduler.ts:250`). `OccurrencesAreUnique` excludes the cleanup.
- A row whose expression does not parse ends every tick before the rows that
  sort behind it, and before cleanup (`scheduler.ts:223`). So does one that parses
  and never matches, which enqueue with `options.repeat` stores: nextRun throws
  after the enqueue (`scheduler.ts:260`), nothing is persisted, and the row is due
  for ever. `DueIsCaughtUp` excepts both (`EndsTicks`).
- Of two loops that date a schedule registered without a date, one before an
  occurrence and one after it, the later may win (`scheduler.ts:229`). The client
  always gives a date.
- A standalone worker that is started again after stop() claims from the storage
  that stop() closed (`vardiya.ts:319`; `Reuse = TRUE`).
- Two overlapping init() calls open two connections and start two loops, of which
  close() stops one (`vardiya.ts:69`). process() or createWorker() while
  close() waits makes a worker that close() has not seen (`vardiya.ts:97`).
  close() during a stop() of a created worker closes the storage with a run in
  flight, by the same second stop() as in `second_stop`. enqueue throws although
  the job is in the queue if the client is closed before it reads the row back
  (`vardiya.ts:144`). All four need two tasks.
- A listener that throws leaves `#runJob` before its try block (`worker.ts:424`), and
  an "error" event without a listener ends the process (`worker.ts:568`). The
  models assume listeners that return.

## Not modelled

Payloads, results, names and log messages; read-only queries; the text of cron
expressions (names, aliases, white space); the width of ids; the growing delay
of AdaptivePoller, since a sleep of any length is allowed; registration of handlers
and event forwarding; SQLite itself: one writer, atomic transactions, the file
survives. After a power loss WAL with `synchronous = NORMAL` may lose the
last commits; processes die here, machines do not. Clocks of several machines:
the file is on one. `bench` and `examples` have no logic of their own.

## The plan

1. Done: `Storage`, `JobLifecycle`, `StorageLifecycle`, `Worker`, `Scheduler`,
   `Cron`, `Migration` and `Client`, with their runs.
2. Done: proofs about the table, the lifecycle, the workers' permits and rows,
   the ownership of rows, what stop() leaves, the loops, the search, the
   migrations and the clients.
3. Left: two tasks on one client, with the calls that may overlap safely told from
   those that may not; the poller's delay as a component of its own, should its
   bounds become a promise.
