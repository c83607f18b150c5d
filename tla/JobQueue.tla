------------------------------ MODULE JobQueue ------------------------------
(***************************************************************************)
(* The job table of PulseQueue and the worker threads that serve it:       *)
(* app/repository.py (create, claim, commit, fail, reap, cancel, drain)    *)
(* and the claim-run-commit cycle of app/worker.py.                        *)
(*                                                                         *)
(* Every repository operation is one BEGIN IMMEDIATE transaction, so it is *)
(* one atomic action here; everything a worker thread does between two     *)
(* transactions (receive the claimed row, start the handler, wait for it,  *)
(* decide which outcome to commit) is a step of its own, interleaved with  *)
(* every other thread and with the API.  A transaction may fail, and it    *)
(* may commit while the caller sees an exception; a thread may die at any  *)
(* of its steps.                                                           *)
(*                                                                         *)
(* Time.  Timestamps are relative to the present, which is the constant    *)
(* Now: Tick moves every stored timestamp one unit into the past, and one  *)
(* that is Now units old or older stays at 0.  Only "due or not", "older   *)
(* than the lease allows" and the order of timestamps matter to the code,  *)
(* and the window makes the state space finite without ever stopping the   *)
(* clock.                                                                  *)
(*                                                                         *)
(* A transaction reads the clock before it waits for the write lock of the *)
(* database, so the time it works with is up to LockWait units old.        *)
(***************************************************************************)
EXTENDS Integers, FiniteSets

CONSTANTS
    Jobs,           \* identities (uuid4) a job can get
    Threads,        \* worker threads, over all processes
    WorkerIds,      \* the strings f"{instance_id}-{slot}"
    WorkerId,       \* [Threads -> WorkerIds]; two threads may share an id
    NoWorker,       \* NULL of jobs.locked_by
    NoJob,          \* a thread that holds no claim
    Priorities,     \* priorities requested
    RetryLimits,    \* max_retries requested or defaulted
    Timeouts,       \* timeout_seconds requested or defaulted
    RunAts,         \* run_at requested, on the relative time scale
    BackoffConfigs, \* [base, max]: backoff settings in force at some time
    Grace,          \* lease_grace_seconds
    LockWait,       \* how long a transaction waits for the write lock (busy_timeout)
    Now             \* the present

ASSUME WorkerIdAssumption ==
    /\ WorkerId \in [Threads -> WorkerIds]
    /\ NoWorker \notin WorkerIds

ASSUME NoJobAssumption == NoJob \notin Jobs

ASSUME JobsAssumption == IsFiniteSet(Jobs)

ASSUME RequestAssumption ==
    /\ Priorities \subseteq Nat
    /\ RetryLimits \subseteq Nat
    /\ Timeouts \subseteq Nat
    /\ RunAts \subseteq Nat

\* The window is long enough to see every lease expire, with any clock reading.
ASSUME TimeAssumption ==
    /\ Grace \in Nat
    /\ LockWait \in Nat
    /\ Now \in Nat
    /\ LockWait <= Now
    /\ \A d \in Timeouts : Now > d + Grace + LockWait

\* app.worker._record_failure: min(base * 2 ** (attempt_no - 1), max).
Backoff(config, n) ==
    LET grown == config.base * 2^(n - 1)
    IN  IF grown <= config.max THEN grown ELSE config.max

ASSUME BackoffAssumption ==
    \A config \in BackoffConfigs, limit \in RetryLimits :
        \A n \in 1..(limit + 1) : Backoff(config, n) \in Nat

VARIABLES
    jobs,           \* table jobs, keyed by id; status "absent" is no row
    job_attempts,   \* table job_attempts, keyed by its unique index
    dead_letters,   \* table dead_letters, keyed by job_id: attempt_count
    threads,        \* what each worker thread holds in its local variables
    executed        \* history: <<job, attempt_no>> whose handler was started

tables == <<jobs, job_attempts, dead_letters>>
vars == <<jobs, job_attempts, dead_letters, threads, executed>>

Terminal == {"succeeded", "dead_lettered", "cancelled"}
JobStatus == {"absent", "queued", "running"} \cup Terminal
AttemptStatus == {"succeeded", "failed", "timed_out", "abandoned"}

\* "stopped": not started, or dead.  "claimed": the row has arrived, the handler
\* has not been submitted.  "executing": waiting for the handler.  The last three
\* name the outcome the thread is about to commit.
Phases == {"stopped", "idle", "claimed", "executing", "succeeded", "failed", "timed_out"}

NoTime == -1        \* NULL of jobs.locked_at
NoResult == 0       \* NULL of jobs.result

NoRow ==
    [status |-> "absent", priority |-> 0, max_retries |-> 0, timeout_seconds |-> 0,
     attempt_count |-> 0, run_at |-> 0, created_at |-> 0,
     locked_by |-> NoWorker, locked_at |-> NoTime, result |-> NoResult]

\* A job's result is represented by the number of the attempt that produced it.
Row ==
    [status : JobStatus, priority : Nat, max_retries : Nat, timeout_seconds : Nat,
     attempt_count : Nat, run_at : Nat, created_at : Nat,
     locked_by : WorkerIds \cup {NoWorker}, locked_at : Nat \cup {NoTime}, result : Nat]

AttemptKey == Jobs \X Nat
AttemptRecord == [worker_id : WorkerIds, status : AttemptStatus]

Thread ==
    [phase : Phases, job : Jobs \cup {NoJob}, attempt_no : Nat]

NoClaim(phase) == [phase |-> phase, job |-> NoJob, attempt_no |-> 0]

Init ==
    /\ jobs = [j \in Jobs |-> NoRow]
    /\ job_attempts = << >>
    /\ dead_letters = << >>
    /\ threads = [t \in Threads |-> NoClaim("stopped")]
    /\ executed = {}

-----------------------------------------------------------------------------
(* Tables.  A definition named X_Slip, like WillRetry_OffByOne, is a slip the    *)
(* definition X below it might contain; no action uses it, and the properties    *)
(* are there to reject it.                                                       *)

\* INSERT or replace the rows of g in the keyed table f.
Upsert(f, g) ==
    [k \in DOMAIN f \cup DOMAIN g |-> IF k \in DOMAIN g THEN g[k] ELSE f[k]]

Recorded(j, n) == <<j, n>> \in DOMAIN job_attempts

\* The unique index (job_id, attempt_no) of job_attempts lets the row in.
IndexAccepts_NoIndex(j, n) == TRUE
IndexAccepts(j, n) == ~Recorded(j, n)

JobsIn(status) == {j \in Jobs : jobs[j].status = status}

\* What now_utc() may have returned to a transaction that has the write lock now.
Readings == (Now - LockWait)..Now

WillRetry_OffByOne(j, n) == n < jobs[j].max_retries
WillRetry(j, n) == n <= jobs[j].max_retries

\* The row of a job whose attempt n produced its result.
AfterSuccess_KeepsLease(j, n) ==
    [jobs[j] EXCEPT !.status = "succeeded", !.result = n, !.attempt_count = n]
AfterSuccess_KeepsCount(j, n) ==
    [jobs[j] EXCEPT !.status = "succeeded", !.result = n,
                    !.locked_by = NoWorker, !.locked_at = NoTime]
AfterSuccess(j, n) ==
    [jobs[j] EXCEPT !.status = "succeeded",
                    !.result = n,
                    !.attempt_count = n,
                    !.locked_by = NoWorker,
                    !.locked_at = NoTime]

\* The row of a job whose attempt n did not succeed.
AfterFailure_Failed(j, n, time, backoff) ==
    [jobs[j] EXCEPT !.status = IF WillRetry(j, n) THEN "queued" ELSE "failed",
                    !.attempt_count = n, !.locked_by = NoWorker, !.locked_at = NoTime]
AfterFailure_KeepsCount(j, n, time, backoff) ==
    [jobs[j] EXCEPT !.status = IF WillRetry(j, n) THEN "queued" ELSE "dead_lettered",
                    !.run_at = time + backoff, !.locked_by = NoWorker, !.locked_at = NoTime]
AfterFailure(j, n, time, backoff) ==
    [jobs[j] EXCEPT !.status = IF WillRetry(j, n) THEN "queued" ELSE "dead_lettered",
                    !.attempt_count = n,
                    !.run_at = IF WillRetry(j, n) THEN time + backoff ELSE time,
                    !.locked_by = NoWorker,
                    !.locked_at = NoTime]

-----------------------------------------------------------------------------
(* Operations of the API *)

NewRow(priority, max_retries, timeout_seconds, run_at, time) ==
    [NoRow EXCEPT !.status = "queued",
                  !.priority = priority,
                  !.max_retries = max_retries,
                  !.timeout_seconds = timeout_seconds,
                  !.run_at = run_at,
                  !.created_at = time]

\* POST /jobs, with the run_at requested or the time of the request; a repeated
\* idempotency key returns the stored job and changes nothing.
CreateJob(j) ==
    /\ jobs[j].status = "absent"
    /\ \E p \in Priorities, r \in RetryLimits, d \in Timeouts, time \in Readings :
          \E at \in RunAts \cup {time} :
              jobs' = [jobs EXCEPT ![j] = NewRow(p, r, d, at, time)]
    /\ UNCHANGED <<job_attempts, dead_letters, threads, executed>>

\* POST /load-test: one transaction inserts all rows, all with one budget.
CreateJobsBatch ==
    /\ \E batch \in SUBSET JobsIn("absent") \ {{}},
          r \in RetryLimits, d \in Timeouts, time \in Readings :
          \E p \in [batch -> Priorities], at \in [batch -> RunAts \cup {time}] :
              jobs' = [j \in Jobs |-> IF j \in batch THEN NewRow(p[j], r, d, at[j], time)
                                      ELSE jobs[j]]
    /\ UNCHANGED <<job_attempts, dead_letters, threads, executed>>

CancelJob_Running(j) ==
    /\ jobs[j].status \in {"queued", "running"}
    /\ jobs' = [jobs EXCEPT ![j].status = "cancelled"]
    /\ UNCHANGED <<job_attempts, dead_letters, threads, executed>>
CancelJob(j) ==
    /\ jobs[j].status = "queued"
    /\ jobs' = [jobs EXCEPT ![j].status = "cancelled"]
    /\ UNCHANGED <<job_attempts, dead_letters, threads, executed>>

DrainQueue ==
    /\ JobsIn("queued") # {}
    /\ jobs' = [j \in Jobs |-> IF jobs[j].status = "queued"
                               THEN [jobs[j] EXCEPT !.status = "cancelled"]
                               ELSE jobs[j]]
    /\ UNCHANGED <<job_attempts, dead_letters, threads, executed>>

-----------------------------------------------------------------------------
(* The cycle of a worker thread *)

DueJobs_AnyLease(time) ==
    {j \in JobsIn("queued") \cup JobsIn("running") : jobs[j].run_at <= time}
DueJobs(time) == {j \in JobsIn("queued") : jobs[j].run_at <= time}

\* ORDER BY priority DESC, run_at ASC, created_at ASC
Precedes(j, k) ==
    \/ jobs[j].priority > jobs[k].priority
    \/ /\ jobs[j].priority = jobs[k].priority
       /\ \/ jobs[j].run_at < jobs[k].run_at
          \/ jobs[j].run_at = jobs[k].run_at /\ jobs[j].created_at < jobs[k].created_at

\* LIMIT 1: rows that compare equal come in any order.
NextJobs(time) == {j \in DueJobs(time) : \A k \in DueJobs(time) : ~Precedes(k, j)}

\* The process of a thread starts it, or reconcile() replaces a dead one.
StartThread(t) ==
    /\ threads[t].phase = "stopped"
    /\ threads' = [threads EXCEPT ![t] = NoClaim("idle")]
    /\ UNCHANGED <<jobs, job_attempts, dead_letters, executed>>

\* A kill of the process, at any step of the thread.
CrashThread(t) ==
    /\ threads[t].phase # "stopped"
    /\ threads' = [threads EXCEPT ![t] = NoClaim("stopped")]
    /\ UNCHANGED <<jobs, job_attempts, dead_letters, executed>>

\* claim_next_job.  When the claim commits but the call raises, the job is leased
\* to a thread that dies: nothing catches the exception in _worker_loop.
ClaimNextJob(t) ==
    /\ threads[t].phase = "idle"
    /\ \E time \in Readings : \E j \in NextJobs(time) :
          /\ jobs' = [jobs EXCEPT ![j].status = "running",
                                  ![j].locked_by = WorkerId[t],
                                  ![j].locked_at = time]
          /\ \/ threads' = [threads EXCEPT ![t] =
                               [phase |-> "claimed", job |-> j,
                                attempt_no |-> jobs[j].attempt_count + 1]]
             \/ threads' = [threads EXCEPT ![t] = NoClaim("stopped")]
    /\ UNCHANGED <<job_attempts, dead_letters, executed>>

\* process_one, lines up to the submission of the handler.
BeginAttempt(t) ==
    /\ threads[t].phase = "claimed"
    /\ threads' = [threads EXCEPT ![t].phase = "executing"]
    /\ executed' = executed \cup {<<threads[t].job, threads[t].attempt_no>>}
    /\ UNCHANGED tables

\* _run_with_timeout returns or raises.  Nothing makes the thread wake up in time,
\* so every outcome may come arbitrarily late; and "timed_out" may come at once, since
\* a TimeoutError of the handler's own is taken for that of the future.
FinishAttempt(t) ==
    /\ threads[t].phase = "executing"
    /\ \E outcome \in {"succeeded", "failed", "timed_out"} :
          threads' = [threads EXCEPT ![t].phase = outcome]
    /\ UNCHANGED <<jobs, job_attempts, dead_letters, executed>>

\* WHERE id = ? AND status = 'running' AND locked_by = ?
HoldsLease(t) ==
    /\ jobs[threads[t].job].status = "running"
    /\ jobs[threads[t].job].locked_by = WorkerId[t]

AttemptRow(t, status) == [worker_id |-> WorkerId[t], status |-> status]

\* mark_succeeded.  Any exception, a violated unique index and a commit whose
\* acknowledgement is lost included, sends process_one to _record_failure.
MarkSucceeded(t) ==
    LET j == threads[t].job
        n == threads[t].attempt_no
    IN  /\ threads[t].phase = "succeeded"
        /\ \/ /\ HoldsLease(t)
              /\ IndexAccepts(j, n)
              /\ jobs' = [jobs EXCEPT ![j] = AfterSuccess(j, n)]
              /\ job_attempts' =
                    Upsert(job_attempts, [key \in {<<j, n>>} |-> AttemptRow(t, "succeeded")])
              /\ \/ threads' = [threads EXCEPT ![t] = NoClaim("idle")]
                 \/ threads' = [threads EXCEPT ![t].phase = "failed"]
           \/ /\ ~HoldsLease(t)
              /\ threads' = [threads EXCEPT ![t] = NoClaim("idle")]
              /\ UNCHANGED <<jobs, job_attempts>>
           \/ /\ threads' = [threads EXCEPT ![t].phase = "failed"]
              /\ UNCHANGED <<jobs, job_attempts>>
        /\ UNCHANGED <<dead_letters, executed>>

\* _record_failure and mark_failed_attempt.  An exception escapes process_one and
\* _worker_loop, so the thread dies with it.
MarkFailed(t) ==
    LET j == threads[t].job
        n == threads[t].attempt_no
    IN  /\ threads[t].phase \in {"failed", "timed_out"}
        /\ \/ /\ HoldsLease(t)
              /\ IndexAccepts(j, n)
              /\ \E config \in BackoffConfigs, time \in Readings :
                    jobs' = [jobs EXCEPT ![j] = AfterFailure(j, n, time, Backoff(config, n))]
              /\ job_attempts' =
                    Upsert(job_attempts,
                           [key \in {<<j, n>>} |-> AttemptRow(t, threads[t].phase)])
              /\ dead_letters' = IF WillRetry(j, n) THEN dead_letters
                                 ELSE Upsert(dead_letters, [k \in {j} |-> n])
              /\ \E phase \in {"idle", "stopped"} :
                    threads' = [threads EXCEPT ![t] = NoClaim(phase)]
           \/ /\ ~HoldsLease(t)
              /\ threads' = [threads EXCEPT ![t] = NoClaim("idle")]
              /\ UNCHANGED tables
           \/ /\ threads' = [threads EXCEPT ![t] = NoClaim("stopped")]
              /\ UNCHANGED tables
        /\ UNCHANGED executed

\* The rows recover_stale_jobs selects: leases older than timeout + grace.
StaleJobs_OnlyRetried(time) ==
    {j \in JobsIn("running") :
        /\ jobs[j].attempt_count < jobs[j].max_retries
        /\ time - jobs[j].locked_at > jobs[j].timeout_seconds + Grace}
StaleJobs(time) ==
    {j \in JobsIn("running") :
        /\ jobs[j].locked_at # NoTime
        /\ time - jobs[j].locked_at > jobs[j].timeout_seconds + Grace}

\* recover_stale_jobs: one transaction for all stale leases, run by an idle thread
\* for the leases of every worker; one violated unique index rolls all of it back.
RecoverStaleJobs(t) ==
    /\ threads[t].phase = "idle"
    /\ \E time \in Readings :
          LET stale == StaleJobs(time)
              attempt_no(j) == jobs[j].attempt_count + 1
              exhausted == {j \in stale : ~WillRetry(j, attempt_no(j))}
              rows == {<<j, attempt_no(j)>> : j \in stale}
          IN  /\ stale # {}
              /\ \A j \in stale : IndexAccepts(j, attempt_no(j))
              /\ jobs' = [j \in Jobs |-> IF j \in stale
                                         THEN AfterFailure(j, attempt_no(j), time, 0)
                                         ELSE jobs[j]]
              /\ job_attempts' =
                    Upsert(job_attempts,
                           [key \in rows |-> [worker_id |-> jobs[key[1]].locked_by,
                                              status |-> "abandoned"]])
              /\ dead_letters' = Upsert(dead_letters, [j \in exhausted |-> attempt_no(j)])
    /\ UNCHANGED <<threads, executed>>

-----------------------------------------------------------------------------
(* Time *)

Aged(time) == IF time > 0 THEN time - 1 ELSE time

Tick ==
    /\ jobs' = [j \in Jobs |-> [jobs[j] EXCEPT !.run_at = Aged(@),
                                               !.created_at = Aged(@),
                                               !.locked_at = Aged(@)]]
    /\ UNCHANGED <<job_attempts, dead_letters, threads, executed>>

-----------------------------------------------------------------------------

ApiStep ==
    \/ \E j \in Jobs : CreateJob(j) \/ CancelJob(j)
    \/ CreateJobsBatch
    \/ DrainQueue

\* What a live thread does, one step at a time.
WorkStep(t) ==
    \/ ClaimNextJob(t)
    \/ BeginAttempt(t)
    \/ FinishAttempt(t)
    \/ MarkSucceeded(t)
    \/ MarkFailed(t)

Next ==
    \/ ApiStep
    \/ \E t \in Threads : \/ WorkStep(t)
                          \/ RecoverStaleJobs(t)
                          \/ StartThread(t)
                          \/ CrashThread(t)
    \/ Tick

Spec == Init /\ [][Next]_vars

\* The operating system runs live threads and time passes; nothing obliges a client
\* to call, a dead thread to be replaced, or a thread to survive.
FairSpec ==
    /\ Spec
    /\ WF_vars(Tick)
    /\ \A t \in Threads : WF_vars(WorkStep(t)) /\ WF_vars(RecoverStaleJobs(t))

-----------------------------------------------------------------------------
(* Properties *)

\* Type correctness of the tables and of the threads' local variables.
TypeOK ==
    /\ jobs \in [Jobs -> Row]
    /\ DOMAIN job_attempts \subseteq AttemptKey
    /\ \A key \in DOMAIN job_attempts : job_attempts[key] \in AttemptRecord
    /\ DOMAIN dead_letters \subseteq Jobs
    /\ \A j \in DOMAIN dead_letters : dead_letters[j] \in Nat
    /\ threads \in [Threads -> Thread]
    /\ executed \subseteq AttemptKey

\* The attempt history of a job has no hole and no surplus: its rows are numbered
\* 1 to attempt_count, whoever wrote them (a worker, late or not, or the reaper).
AttemptLedger ==
    DOMAIN job_attempts = UNION {{j} \X (1..jobs[j].attempt_count) : j \in Jobs}

\* Exactly the running jobs are leased, with an owner and a time: a running job
\* without locked_at is skipped by recover_stale_jobs and would run forever.
LeaseIffRunning ==
    \A j \in Jobs :
        /\ jobs[j].status = "running" <=> jobs[j].locked_by # NoWorker
        /\ jobs[j].status = "running" <=> jobs[j].locked_at # NoTime

\* dead_letters and jobs.status agree, a dead letter was attempted exactly
\* max_retries + 1 times, and no other job has used up its budget, except by
\* succeeding with its last attempt.
DeadLetterExact ==
    \A j \in Jobs :
        /\ j \in DOMAIN dead_letters <=> jobs[j].status = "dead_lettered"
        /\ jobs[j].status = "dead_lettered" =>
              dead_letters[j] = jobs[j].attempt_count
              /\ jobs[j].attempt_count = jobs[j].max_retries + 1
        /\ jobs[j].status \in {"queued", "running", "cancelled"} =>
              jobs[j].attempt_count <= jobs[j].max_retries

\* A stored result is the result of the last attempt of a succeeded job, an attempt
\* whose handler really ran and that the history shows as the only success.
ResultIsOfLastSuccess ==
    \A j \in Jobs :
        /\ jobs[j].result # NoResult <=> jobs[j].status = "succeeded"
        /\ jobs[j].status = "succeeded" =>
              /\ jobs[j].result = jobs[j].attempt_count
              /\ <<j, jobs[j].result>> \in executed
        /\ \A n \in 1..jobs[j].attempt_count :
              job_attempts[<<j, n>>].status = "succeeded" <=> jobs[j].result = n

Holds(t, j, n) ==
    /\ threads[t].phase \notin {"stopped", "idle"}
    /\ threads[t].job = j
    /\ threads[t].attempt_no = n

\* A thread between its claim and its commit either still owns the attempt, the
\* next one of a job leased to its worker id, or somebody else has already recorded
\* that attempt: a lost lease can only reach rows its attempt number conflicts with.
ClaimCurrentOrRecorded ==
    \A t \in Threads, j \in Jobs :
        \A n \in {threads[t].attempt_no} :
            Holds(t, j, n) /\ ~Recorded(j, n) =>
                /\ n = jobs[j].attempt_count + 1
                /\ HoldsLease(t)

\* No two threads work on the same attempt of a job, even when they share a worker id.
SingleOwner ==
    \A t, u \in Threads, j \in Jobs :
        \A n \in {threads[t].attempt_no} :
            Holds(t, j, n) /\ Holds(u, j, n) => t = u

\* A handler is started at most once with a given attempt number of a job, over all
\* crashes, recoveries and late threads.
NoSecondExecution ==
    [][\A t \in Threads :
          threads[t].phase = "claimed" /\ threads'[t].phase = "executing" =>
              <<threads[t].job, threads[t].attempt_no>> \notin executed]_vars

\* A running job leaves that status only with the outcome of the very attempt it is
\* leased for, committed by the thread that holds it, or when the lease is older than
\* timeout and grace together: no late thread, cancellation or drain ends it before.
LeaseRespected ==
    [][\A j \in Jobs :
          jobs[j].status = "running" /\ jobs'[j].status # "running" =>
              \/ Now - jobs[j].locked_at > jobs[j].timeout_seconds + Grace
              \/ \E t \in Threads :
                    /\ Holds(t, j, jobs[j].attempt_count + 1)
                    /\ threads[t].phase \in {"succeeded", "failed", "timed_out"}
                    /\ jobs[j].locked_by = WorkerId[t]]_vars

\* What the proofs need besides the properties above: claims are well formed and
\* belong to handlers started or not yet started as the phase says.
ClaimsWellFormed ==
    \A t \in Threads : threads[t].phase \notin {"stopped", "idle"} =>
        /\ threads[t].job \in Jobs
        /\ threads[t].attempt_no > 0
        /\ jobs[threads[t].job].status # "absent"
        /\ IF threads[t].phase = "claimed"
           THEN <<threads[t].job, threads[t].attempt_no>> \notin executed
           ELSE <<threads[t].job, threads[t].attempt_no>> \in executed

\* A handler was only ever started for an attempt in the history or for the current one.
ExecutedAttempts ==
    \A j \in Jobs : \A n \in {e[2] : e \in executed} :
        <<j, n>> \in executed =>
            \/ n <= jobs[j].attempt_count
            \/ n = jobs[j].attempt_count + 1 /\ jobs[j].status = "running"

BudgetsRequested ==
    \A j \in Jobs :
        /\ jobs[j].status # "absent" => jobs[j].max_retries \in RetryLimits
        /\ jobs[j].status = "absent" => jobs[j].attempt_count = 0

\* The inductive invariant behind the safety properties.
IInv ==
    /\ TypeOK
    /\ AttemptLedger
    /\ LeaseIffRunning
    /\ DeadLetterExact
    /\ ResultIsOfLastSuccess
    /\ ClaimCurrentOrRecorded
    /\ SingleOwner
    /\ ClaimsWellFormed
    /\ ExecutedAttempts
    /\ BudgetsRequested

\* The job table keeps the promise of JobContract to every client.
Ledger(j) == [n \in 1..jobs[j].attempt_count |-> job_attempts[<<j, n>>].status]

Contract == INSTANCE JobContract WITH
                state <- [j \in Jobs |-> jobs[j].status],
                budget <- [j \in Jobs |-> jobs[j].max_retries],
                ledger <- [j \in Jobs |-> Ledger(j)]

ImplementsContract == Contract!Spec

\* As long as one thread of the installation eventually stays up, every queued job
\* ends: leases of dead threads expire and are recovered, retries fall due, and the
\* budget bounds them.
EveryJobSettles ==
    (\E t \in Threads : <>[](threads[t].phase # "stopped")) =>
        \A j \in Jobs : (jobs[j].status = "queued") ~> (jobs[j].status \in Terminal)

=============================================================================
