# PulseQueue: TLA+ specifications

PulseQueue (`src/app`) accepts jobs over HTTP, stores them in SQLite or
PostgreSQL, and runs them in worker threads with timeouts, retries, leases and
dead letters. These modules model its state and its steps, check them with TLC
on small instances, and prove their safety properties and refinements with TLAPS
for every value of the constants.

Paths below are relative to `src/`; `repository.py:504` means line 504 of
`app/repository.py`.

## The system

| Part | State | Operations |
|---|---|---|
| Job queue (`app/repository.py`) | tables `jobs`, `job_attempts`, `dead_letters` | `create_job`, `create_jobs_batch`, `cancel_job`, `drain_queue`, `claim_next_job`, `mark_succeeded`, `mark_failed_attempt`, `recover_stale_jobs` |
| Worker threads (`app/worker.py`) | local variables of `process_one` | claim, run the handler under a timeout, commit the outcome; one thread at a time also runs the reaper, the materializer and the configuration sync |
| Worker pool (`app/worker.py`) | `_threads`, `_started`, `_stop_event`, slots | `start`, `reconcile`, `stop`, the loop's exit test, the sync |
| Recurring schedules | table `recurring_schedules`, unique index on `(schedule_id, scheduled_for)` | create, pause, resume, delete, `materialize_due_schedules` |
| Submission (`app/main.py`, `app/repository.py`) | unique index on `idempotency_key`, request fingerprints | `POST /jobs` |
| Runtime configuration (`app/config_store.py`) | the row of `runtime_config`, a `RuntimeConfigStore` per process | `GET`/`PATCH /config`, `GET /metrics`, the sync |
| Job queue (`app/postgres_repository.py`) | the same tables, row locks | the same operations under READ COMMITTED with `FOR UPDATE SKIP LOCKED` |
| Recurring schedules (`app/postgres_repository.py`) | the same table, row locks, index entries of uncommitted inserts | the same operations, the materializer with `FOR UPDATE SKIP LOCKED` and `ON CONFLICT DO NOTHING` |
| Metrics and heartbeats | `worker_instances`, `_busy_workers` | `heartbeat_worker`, `worker_runtime_status`, `queue_depth`, percentiles |
| Models, settings, factory, demo handler, dashboard | none of their own | validation, environment, HTML |

How they interact. API processes and worker processes share nothing but the
database; in the single-container mode one process is both. A client's request
becomes a row of `jobs`. A worker thread claims the due row with the highest
priority by writing its worker id and the time into it (the lease), runs the
handler outside any transaction, and commits the outcome in a second
transaction that is fenced by the lease. Whoever finds a lease older than
timeout + grace takes it away and records the attempt as abandoned. The
materializer inserts ordinary jobs. The pool reads how many threads it should
have from the process's copy of the configuration, which the sync and the
process's own API refresh from the row.

What is hard about it:

- a thread can oversleep its lease, die between any two steps, or see an
  exception from a transaction that has committed;
- two live threads may carry the same worker id, since slots are numbered after
  the count of live threads (`worker.py:119`);
- PATCH of a schedule and the materializer interleave, and clocks are read
  before the write lock is held;
- requests with one idempotency key race, are repeated after lost answers, and
  are resolved against configurations of different age;
- with PostgreSQL transactions overlap, lock rows in no common order, skip some
  and wait for others;
- a process reports itself only when one of its threads has a moment for it;
- the number of threads is decided by three copies of one number that are
  compared, replaced and acted upon in separate steps.

`PROJECT.json` lists each hazard with the line where it bites and the
properties that would catch it.

What makes each part correct: a job's attempts are numbered without gaps and
bounded by its budget, its result comes from its only successful attempt, and it
settles (job queue); an occurrence gets one job and none is forgotten
(schedules); a process has neither too many threads nor none, and all end when
it stops (pool); a key leads to one job and refusals are justified (submission);
every copy of the configuration is sound and, one would wish, current
(configuration).

## Modules

| Module | What it is |
|---|---|
| `JobContract` | abstract: what a client may rely on, per job, without workers or time; and what follows from it |
| `JobContractProofs` | theorems about whoever keeps `JobContract` |
| `JobQueue` | the job tables, the worker cycle, the reaper, crashes and time |
| `PgJobQueue` | the same operations in PostgreSQL: statements, row locks, commits |
| `JobQueueProofs`, `PgJobQueueProofs` | theorems about the two job queues, and that both implement `JobContract` |
| `ScheduleContract` | abstract: what the owner of a schedule may rely on, without materializers or transactions; and what follows from it |
| `RecurringSchedules` | the schedules, the requests that change them, the materializers |
| `PgSchedules` | the same in PostgreSQL: snapshots, skipped and locked rows, uncommitted inserts |
| `ScheduleProofs`, `PgScheduleProofs` | theorems about the two, and that both implement `ScheduleContract` |
| `WorkerPool` | the threads of one process, its configuration copy, its API, its shutdown |
| `Heartbeats` | busy threads, the row of `worker_instances` and its age, in real time |
| `Submission` | `POST /jobs`, idempotency, and the configuration of several API processes |
| `WorkerPoolProofs`, `HeartbeatProofs`, `SubmissionProofs` | theorems about these three |
| `MC...` | constants, symmetry and instances for TLC |

The modules meet where the code does. A job that `RecurringSchedules` generates
enters `JobQueue` exactly like one `CreateJob` inserts. A thread of `WorkerPool`
in phase "working" is a thread of `JobQueue`, and two of its live threads with
one slot are two `JobQueue` threads with one `WorkerId`, which is why
`JobQueue` does not assume worker ids to be distinct. `Heartbeats` looks at the
same threads with a clock and without slots. `PgSchedules` extends
`RecurringSchedules`: its requests read as they do there, its properties are
stated about the same variables, which hold what has been committed, and both
modules implement `ScheduleContract` by the one refinement mapping (`Table`,
`OccurrencesWithJob`). `Submission` ends where `CreateJob` begins.

Definitions named `X_Slip` next to a definition `X` (`WillRetry_OffByOne`) are
plausible slips that no action uses; each property of a passing run is violated
when one of them takes the place of `X`, so no property holds for lack of
anything to object to.

### JobQueue

`jobs`, `job_attempts` and `dead_letters` are the tables; `threads` is what the
local variables of `process_one` say; `executed` is a history of started
handlers. Each repository method is one `BEGIN IMMEDIATE` transaction in SQLite
and one action here. Between transactions a thread takes steps of its own:
`ClaimNextJob`, `BeginAttempt`, `FinishAttempt`, `MarkSucceeded` or
`MarkFailed`. `FinishAttempt` may come arbitrarily late, because nothing makes a
thread wake up in time.

- A transaction that raises leaves the tables alone; one whose commit succeeds
  but whose caller sees an exception writes them. `process_one` sends an
  exception of `mark_succeeded` to `_record_failure`, and an exception of
  `claim_next_job` or `_record_failure` ends the thread. `CrashThread` is a
  killed process.
- Timestamps are relative to `Now`, and `Tick` ages them; one that is `Now`
  units old stays at 0. `TimeAssumption` makes the window longer than any
  lease, so that expiry is always visible. The clock never stops, which liveness
  needs.
- A transaction works with the time it read before it waited for the write lock:
  `CreateJob`, `ClaimNextJob`, `MarkFailed` and `RecoverStaleJobs` pick one of the
  `Readings`, up to `LockWait` units old (`PRAGMA busy_timeout`, after which the
  transaction raises). A lease may thus be partly used up when it is taken.
- Left out: the columns payload, last_error, updated_at and finished_at; a
  result is represented by the number of the attempt that produced it.
- `RecoverStaleJobs` is run by an idle thread for the leases of everyone.

### PgJobQueue

SQLite serialises all transactions; `app/postgres_repository.py` has only row
locks. `locks` says who has locked each row of `jobs`, and `sessions` where each
worker thread and each request is: which transaction it is in, the clock reading
that transaction started with, the row it is at and the rows it will visit.
`jobs`, `job_attempts` and `dead_letters` are what has been committed. A
transaction locks rows with one statement or several and publishes its writes in
a later step, `CommitClaim`, `CommitOutcome`, `CommitRecovery` or
`CommitRequest`; since a locked row cannot change, the writes are computed there.

- A claim and the reaper skip locked rows (`SkipsLocked`). An `UPDATE` waits:
  its step is enabled when the row is free, and reads the row then, which is
  how READ COMMITTED evaluates the `WHERE` clause again. A drain keeps the lock
  of a row that turned out to have changed, and does not write it.
- A fenced `UPDATE` whose committed row is not its own returns no row at once,
  whoever has locked it.
- The reaper and the drain visit rows one at a time in any order, because
  PostgreSQL promises none.
- A due row that the claim's `SELECT` locks and then drops, because a commit since
  its snapshot has changed it, stays locked in PostgreSQL until the claim ends. The
  module leaves it unlocked: the claim waits for nothing after that, so the lock
  would only keep others away for a while.
- A rolled back request stands for a lost connection, a killed process and a
  deadlock that PostgreSQL breaks. A dead worker is an idle one that takes no
  step: the module states safety only.
- Left out besides what `JobQueue` leaves out: priorities and `created_at`
  (any due row that is free may be claimed), the result, and the difference
  between failed and timed out. The clock stops at `Horizon`.

### RecurringSchedules

`schedules` is the table, `generated` counts the jobs per occurrence, `clients`
and `materializers` hold what a request or a worker process has read and not yet
written, and `passed_over` is a history of occurrences an enabling PATCH jumped
over. Cron expressions are constants with an arbitrary set of occurrences; an
expression may have a last one. `BeginSetEnabled`/`SetScheduleEnabled` are the
read and the write of PATCH (`repository.py:421-440`);
`BeginMaterialize`/`MaterializeDueSchedules` are the clock reading and the
transaction. The clock stops at `Horizon`. `Table` and `OccurrencesWithJob` are
the refinement mapping to `ScheduleContract`: what a schedule has generated is a
set, and the step that adds to it moves the schedule to the very next
occurrence. The contract lets a PATCH point anywhere, which is what the code
does; what the materializer may do is strict.

### PgSchedules

The materializer is five steps (`postgres_repository.py:456-514`):
`PgBeginMaterialize` reads the clock; `TakeSnapshot` is the snapshot the `SELECT`
works on; `Visit` takes the next row in the order of the snapshot, skips it if it
is locked or deleted, otherwise locks it, reads it as it is now and drops it if it
is not due any more, without giving the lock back; `InsertJob` waits for a transaction that has inserted the same
occurrence and not yet committed; `CommitBatch` publishes. `RollBackBatch` is
any exception, `next_cron_run`'s included, and a killed process.

- `locks` holds the row locks, `batches` the phase, the rows still to visit, the
  rows fetched (with `next_run_at` as fetched) and the jobs inserted.
- A locked row does not change, so a transaction's writes are computed when it
  commits. `PgTypeOK` includes that a batch has locked every row it fetched, on
  which `BatchesNeverWait` rests, and that a materializer that is in no batch has
  no lock; in between it may hold locks of rows it has dropped.
- A PATCH reads the row in one transaction (`PgBeginSetEnabled`), waits for the
  row in another (`LockForPatch`) and commits (`CommitPatch`).

### WorkerPool

One process: `shared` is the row, `config` the store, `pool` the list
`_threads`, and each thread is at the loop's head, at one of three points inside
the sync, before or after its slot test, or on its way out. Requests of the
process's own API are two or three steps. The rest of the configuration is one
more field, because the sync compares whole configurations. `DieOfException`
and `SyncFails` are database errors, bounded by `MaxFailures`. A thread that
returned may be used again, so `Threads` bounds how many are alive at once, and
`EnsureThreads` needs enough of them: the instances give at least as many as any
configuration asks for, plus one in `pool`.

### Heartbeats

One process with a discrete clock. A thread is at the loop's head, at one of
three points inside the sync, about to claim, in the `try` of `process_one`, or
waiting for the next poll. Only handlers and waiting take time: `Tick` is
disabled while any thread could take another step, so database calls and
scheduling delays are taken to be short compared to a unit. Whether the API runs
in the process (`embedded`) is chosen initially, because its PATCH starts threads
while a sync may be counting.

- Slots and configurations are not repeated here: `StartThreads` may add any
  threads where the code reconciles, `Leave` may take one away where its slot
  may be surplus or `claim_next_job` may raise.
- `failures` counts the database errors so far; each may cost one sync, which is
  retried at the next loop head, a handler later at worst.
- `deserted` says that the process had no thread for a while; nothing then
  reports, and `HeartbeatDelayBounded` says nothing.

### Submission

Each call goes through resolve, lookup, insert and reread
(`main.py:101-126`, `repository.py:243-303`), in a process with a configuration
of its own age; its answer may be lost, with or without the process, and the
client sends the same request again to any process. Of the limits a request
resolves only the timeout is modelled, because it has the upper bound.
`MaxInTransit` bounds the configurations that have been read and not yet stored.
A repetition is resolved again, so it may carry other limits than the first time
and be refused as a conflict with itself (`repository.py:253`): `ConflictJustified`
counts a refusal as justified when the effective requests differ.
`RepetitionRecognized` says who is safe from this: a client whose request spells
out the limit.

## Runs

| Run | Question | Instance |
|---|---|---|
| `queue_safety` | Are attempts, results, dead letters and claims consistent even if threads share a worker id? Does a lease last? Does the table keep `JobContract`, and does the invariant of the proofs hold? | 2 jobs, budgets 0 and 1, 2 threads with one id, clock readings up to 1 unit old |
| `queue_liveness` | Does a queued job settle while some thread stays up? | 1 job, 2 threads, budgets 0 and 1, growing backoff, clock readings up to 1 unit old |
| `pg_queue` | Do row locks, skipped rows and repeated WHERE clauses keep `JobContract` and leases, and who can deadlock? | 2 jobs, budgets 0 and 1, 2 workers with one id, 1 request |
| `schedules_safety` | One job per occurrence, none forgotten, `ScheduleContract` kept? | 1 schedule of an expression that goes on or ends, 2 requests, 2 worker processes, 3 occurrences and more |
| `schedules_catch_up` | Is everything missed of an expression that goes on caught up, unless one that has ended is due for ever? | 2 schedules, expressions that go on or end, batches of 1 |
| `schedules_resume` | violation: resume of a schedule that was not paused | 1 schedule |
| `pg_schedules` | The same with row locks, snapshots and uncommitted inserts; does a batch ever wait for another? | 2 schedules, 2 worker processes, batches of 2, 1 request |
| `pool` | Never too many threads, never none; do surplus threads leave, do all end after stop()? | 3 threads, sizes 1 and 2, another field, 1 request, 1 error |
| `pool_resize` | violation: the pool does not converge | 3 threads, sizes 1 to 3, no request, no error |
| `heartbeats` | Is the busy counter exact, is a report consistent, how old does it get? | 3 threads, handlers up to 3 units, a sync every 2, 2 database errors |
| `submission_keys` | One job per key, justified refusals, repetitions recognized, sound copies? | 2 calls, 2 processes, a key, the empty key and none |
| `submission_config` | violation: a process keeps an old configuration | 2 processes, 1 call |

`queue_safety`, `pg_queue`, `schedules_safety`, `pg_schedules`, `pool`,
`heartbeats` and `submission_keys` also check the inductive invariant of their
module (`IInv`, `PgIInv`), which the proofs then carry over to every instance.
The type invariant (`TypeOK`, `PgTypeOK`) is a conjunct of it, and
`LeaseIffRunning` one in `queue_safety`; where a run does not name them it checks them as such.

Why the bounds are enough to be interesting. Two jobs let one transaction touch
several rows; two threads with one retry let a late thread meet the reaper, its
replacement and the dead letter; the conflicts of the job queue are between two
parties about one attempt number, and the proofs remove the bounds altogether,
and with them the shared worker id. The timeout of `queue_safety` is 0, less
than a unit, and there is no grace: with a clock reading one unit old a job can be
stale as soon as the next unit begins, and a window of three instants shows it all.
In `queue_liveness` a lease lasts its unit and one of grace. In `pg_queue` two open
transactions (`TwoTransactionsOpen`) besides the handlers that run are enough
for one that waits for, or skips, what the other has locked; with a timeout of 1
and a clock of 0 to 2 a lease expires under a worker that is still in its
transaction. A cycle of waits between more than two sessions is beyond the run;
`OnlyDrainsTheorem` says what it consists of, for any number. `pg_schedules` likewise explores
any two of its materializers and requests at once (`TwoUnderWay`), and
`PgInvariance` covers more. Jobs of `queue_safety` have one priority: it only
chooses among due jobs, and `run_at` and `created_at` already give both orders.
In `pg_schedules` two batches of two rows are enough to lock in opposite orders,
to meet at one index entry, and to find a row changed between snapshot and lock;
an occurrence per unit of time up to the horizon gives a materializer with an old
clock two of them to confuse. In `heartbeats` a handler outlasts a sync interval,
and three threads leave one to count while one joins and one finishes.
Five units of time hold three occurrences of a schedule, so a PATCH can be late
by more than one. Three sizes of the pool are what the slot confusion of `pool_resize` needs. Two
calls with one key and two processes give the race of two inserts with
different effective limits.

Symmetry is used in safety runs only, over jobs, threads, requests, worker
processes, calls and API processes, where no definition distinguishes them.

Fairness. In `JobQueue` time passes and live threads are scheduled; nothing
obliges a client to call, a dead thread to be replaced or a thread to survive,
so `EveryJobSettles` has the premise that one thread eventually stays up. In
`RecurringSchedules` worker processes poll and get the write lock in the end
(`worker.py:124-134`). In `WorkerPool` threads are scheduled, requests are
answered and the sync interval passes, since handlers are not waited for beyond
their timeout; nobody has to patch or stop. In `Submission` a process that has
read the configuration stores it, and nothing makes it read.

## What the runs show to be different from the documents

- `README.md:284` and `:286` promise one job per occurrence and catch-up. A
  PATCH that enables an enabled schedule computes `next_run_at` from the clock
  and drops an occurrence that is due and not yet generated
  (`schedules_resume`). `NothingSkipped` shows that this is the only way.
- `README.md:206` and `docs/tradeoffs.md:41` say a process has
  `worker_concurrency` threads after a short delay. After 3, 1, 2 with a busy
  third thread, one remains and no sync notices (`pool_resize`). The same
  property is exposed to `GET /metrics`, which stores the new configuration
  without reconciling and so hides the change from the sync.
- `docs/database-schema.md:73` says API and worker processes read the same
  value. `POST /jobs` reads the process's copy (`submission_config`).

Two more disagreements have no run of their own; the property of a passing run
says how far the document holds:

- `README.md:286` promises that missed occurrences are materialized gradually. A
  schedule whose expression has ended makes `next_cron_run` raise in the batch's
  transaction (`repository.py:496`), which rolls the whole batch back, and stays
  the earliest due one: the schedules that share its batches get no jobs any more.
  `MissedOccurrencesGenerated` is the promise; put in the place of
  `DueOccurrenceGenerated` in `schedules_catch_up.cfg`, TLC finds it violated.
  `DueOccurrenceGenerated` is what remains of it: the catch-up happens if time and
  again no ended schedule is due (until somebody pauses, deletes or resumes it).
  It takes an expression with a year field, which recent croniter versions allow.
- `README.md:216` says that `CONFIG_SYNC_INTERVAL_SECONDS` is how frequently a
  worker container heartbeats. A thread reports only at the head of its loop, so
  the interval between two reports is as long as a handler's timeout allows:
  `HeartbeatDelayBounded` puts the number on it, a sync interval and the longest
  timeout. `GET /metrics` forgets a process after 10 seconds
  (`repository.py:224`), so one whose threads all run handlers of a minute
  disappears from it while it works hardest.

And two consequences of the code that no document speaks of:

- A client that leaves a limit to the server and repeats its request after the
  defaults changed may get a 409 for it (see `RepetitionRecognized`).
- The thread that reports is never busy itself, so a worker container never
  reports all its threads busy (`BusyBelowActive`). Where the API runs in the
  same process this fails: a PATCH can start threads that claim jobs between the
  two counts.

## Proofs

Every safety property of the passing runs is a theorem, and so are the action
properties `NoSecondExecution` and `LeaseRespected` and the four refinements. In each module the
theorem `Invariance` says that `IInv` (`PgIInv` in `PgSchedules`) is an
invariant, by `Init => IInv` and `IInv /\ [Next]_vars => IInv'`; the others follow
from it.

### JobContractProofs

What a client may conclude from the contract alone, whatever implements it:
`LedgersExplainTheorem` (the outcomes a job has had explain its state: one success
ends it, a dead letter has budget + 1 failures and no success),
`AttemptsWithinBudgetTheorem` (the attempt under way included) and
`NothingTakenBackTheorem` (a settled job keeps its state and ledger, a ledger its
entries, an accepted job its budget). The invariant is `LedgersExplain` with the
ranges of the variables; one lemma per move, and two about what `Append` does to a
ledger. The contract leaves its budgets open, so the hypothesis `Numbers` says that
they are natural numbers.

`JobQueueProofs` and `PgJobQueueProofs` take the module as the instance `Client`,
with the refinement mapping. `ContractApplies` shows `Numbers` and
`Spec => Client!Spec` from `Refinement`; `LedgersTheorem` and the two
`NothingTakenBackTheorem`s are then theorems about the tables, with no invariant of
their own.

### JobQueueProofs

`TypeCorrectness`, `AttemptLedgerTheorem`, `LeaseTheorem`, `DeadLetterTheorem`,
`ResultTheorem`, `ClaimTheorem`, `SingleOwnerTheorem`, `NoSecondExecutionTheorem`,
`LeaseRespectedTheorem`, and `Refinement`: `JobQueue` implements `JobContract`.

None of the safety properties is inductive alone. That the history
has no hole (`AttemptLedger`) needs that a commit which passes the fence and the
unique index commits attempt `attempt_count + 1`; that is
`ClaimCurrentOrRecorded`: whoever holds an unrecorded attempt holds the current
one, and its lease. This survives the reaper because the reaper records the very
attempt it takes away, so every claim that loses its lease is recorded in the
same transaction. Where worker ids are distinct the lease fence alone turns late
threads away; where they are shared the fence lets them through and the unique
index is what stops them. The proof makes no case distinction: it only uses
"unrecorded implies current". `ClaimsWellFormed`, `ExecutedAttempts` and
`BudgetsRequested` are the strengthening the properties about results,
executions and retry times need.

The proof is in three layers. `RowMove` lists the six things a step can do to a
job (stay, accepted, withdrawn, leased, completed, failed), and one lemma per
action shows that it does one of them (`StepMoves`). `ThreadMove` does the same
for a thread's claim (`StepThreads`). The invariants, and the refinement, are
then proved from the moves and never look at actions again.

`LeaseRespectedTheorem` asks who did it, so it does look at actions: a commit of an
outcome ends the lease of its own attempt, because an unrecorded attempt is the
current one; recovery ends stale leases only; and all other actions leave running
rows running.

### PgJobQueueProofs

`TypeCorrectness`, `DeadLetterTheorem`, `ClaimTheorem`, `SingleOwnerTheorem`,
`OnlyDrainsTheorem`, `LeaseRespectedTheorem`, and `Refinement`: with row locks
alone, what is committed implements the same `JobContract`.

The argument about attempts is that of `JobQueue`, on top of a new part,
`LocksProtect`: what a worker found true of the row it locked (queued for a
claim, running under its id for an outcome) is true until it commits or rolls
back. `LeavesOthers` says why: a step changes only rows that were absent or that
its own session has locked, and leaves the locks of the others alone. The reaper
needs no such clause, because `CommitRecovery` looks at the rows again; the
slip that trusts the selection instead (`StaleJobs_AsSelected`) breaks `IInv`.
`ReadingsArePast`, that no transaction has a clock reading from the future, makes a
lease that the reaper found stale stale at its commit (`LeaseRespectedTheorem`).
`OneRowAtATime` is for deadlocks: workers, reapers and cancellations hold nothing
while they wait, so a session that waits and is waited for is a drain. Only the
four steps that commit, and the insertions, need `RowMove`; all others leave the
tables alone and are handled by one lemma (`QuietKeeps`).

### ScheduleProofs and PgScheduleProofs

`OneJobPerOccurrenceTheorem`, `NothingSkippedTheorem`, type correctness,
`Refinement` and `PauseHoldsTheorem` for SQLite; the same for PostgreSQL with
`PgBatchesNeverWait`.

`NothingSkipped` is about the row; the strengthening is about readings that are
still in somebody's hands. `SchedulesPointAhead` says that `next_run_at` is an
occurrence after the creation, `CreationsPending` and `PatchesPending` say of
requests between their read and their write what they will make true of the row,
and `ReadingsPast` that clocks read earlier are not ahead. In PostgreSQL
`FetchedIsCurrent` is the heart: the rows a batch has fetched under its locks are
the rows of the table until it commits. From this a `CommitBatch` is a
`MaterializeDueSchedules` for the schedules it advances, and one lemma serves the
refinement of both modules.

`PauseHolds` is a consequence of `ScheduleContract`: jobs appear only for schedules
that are present and enabled at that moment, for the occurrence they point at; a
deleted schedule stays deleted and none changes its expression.
`ContractHoldsPause` derives it from the contract's moves, and the refinements carry
it to the tables: neither the clock reading a materializer takes before it waits for
the write lock nor the snapshot in which a batch finds a schedule due makes a job of a
schedule that was paused meanwhile.

### WorkerPoolProofs, HeartbeatProofs, SubmissionProofs

- `WorkerPoolProofs`: `ThreadsBoundedTheorem`, `FirstSlotServesTheorem`, types,
  and `SurplusNeverGrowsTheorem`, the safety half of `SurplusLeaves`.
  The strengthening is small: no thread exists before the start, and who is about
  to copy a configuration has read one (`ReadingsHeld`). The bound rests on
  `reconcile` recruiting for the slots above the count of live threads and no
  others. `SurplusNeverGrows` says what makes `SurplusLeaves` come true: once the
  row, the store and every reading still in somebody's hands agree (`SettledOn`), no
  step but a PATCH makes them differ, and no step adds a thread above the
  limit; what is left to fairness is that each such thread comes to its slot test.
  Every action is shown to be a step of `Settles`.
- `HeartbeatProofs`: `BusyBelowActiveTheorem`, `HeartbeatDelayTheorem`, types,
  which include that `busy_workers` is exact. `OneInSync` and `CountHolds` carry
  the count over to the report. For the delay, `AgeBySync` bounds the row's age
  until a sync is due, and from then on `AgeByThread` bounds it by the time each
  thread has spent away from the head, until one comes back and either reports or
  fails, which the bound counts.
- `SubmissionProofs`: `OneJobPerKeyTheorem`, `ConflictJustifiedTheorem`, types,
  from `CallsComplete` (what a call has resolved at each of its phases);
  `RepetitionRecognizedTheorem`, from `RequestsRemembered`: behind every job is a
  client that has asked for it, and a limit that was asked for is the limit of the
  request and of its job. `CallMove` lists what a step may do to a call, and no
  move changes the request of a call that has been sent. And
  `DefaultWithinMaxTheorem`, `DefaultNeverRejectedTheorem` under the assumption
  `ConsistentEnvironment`, that the environment of the first process has its
  default within its maximum. Without it the first configuration violates them
  (`repository.py:184` stores it without the cap).

### Assumptions

They are the named `ASSUME`s of the modules, which TLC evaluates on every run:
worker ids are not NULL, `Jobs` and the sessions are finite sets without the
NULL values, requested limits and times are natural numbers, backoffs are natural
numbers (an assumption and no lemma, because `^` means nothing to the provers),
the time window of `JobQueue` is longer than timeout + grace + `LockWait`, the
age of a clock reading,
occurrences are sets of natural numbers, batches are not empty, configurations
ask for at least one thread and at most as many as there are, intervals are
natural numbers. `ConsistentEnvironment` and `Numbers`, which `ContractApplies`
proves of the tables, are the only assumptions of single theorems.

### Only model-checked

Liveness (`EveryJobSettles`, `DueOccurrenceGenerated`, `SurplusLeaves`,
`StopEndsThreads`), because TLAPS does not reason about fairness and ENABLED
here. The violations are counterexamples and need no proof. Conversely
`LedgersExplain`, `AttemptsWithinBudget`, `NothingTakenBack`, `PauseHolds` and
`SurplusNeverGrows` are proved and belong to no run, and `DefaultNeverRejected`
(no 422 for a request that leaves its timeout open), which follows from
`DefaultWithinMax` and the check in `POST /jobs`.

## Not modelled

- Liveness under PostgreSQL, which would need assumptions about who gets a lock
  that several wait for. Its configuration row is read, merged and written under
  one row lock and its heartbeat is one upsert, so `Submission`, `WorkerPool` and
  `Heartbeats` serve both databases.
- `queue_depth`, latency percentiles and the other queries of `GET /metrics`.
  They change nothing, and nothing is decided by their answers.
- The interval timers of the reaper and the materializer: they only decide when
  a step happens. `RuntimeConfigStore.patch` and `WorkerPool.resize`, which only
  tests call.
- Handlers' effects. The queue delivers at least once; a timed-out handler keeps
  running next to its retry.
- Validation, HTML, JSON formatting, textual timestamps, migrations.

## Plan

1. The safety half of `StopEndsThreads` and of `EveryJobSettles`: what they need
   besides fairness.
2. `QueueMetrics`: the two statements of `queue_depth` against the moves of
   `JobContract`, and the consistency the API may promise.
3. Liveness of the PostgreSQL queue under an assumption about who gets a lock
   that several wait for, with dead workers as sessions that take no step.
4. `Backoff` and configuration merging as pure functions over bounded inputs.
