----------------------------- MODULE PgJobQueue -----------------------------
(***************************************************************************)
(* The job operations of app/postgres_repository.py, statement by          *)
(* statement under READ COMMITTED: no global write lock orders them, only  *)
(* row locks do.                                                           *)
(*                                                                         *)
(* A transaction reads the clock, then locks rows with its statements, and *)
(* its writes appear when it commits; jobs, job_attempts and dead_letters  *)
(* are the committed tables.  A locked row does not change until the lock  *)
(* is gone, so a write is computed at the commit from the row that was     *)
(* locked.  Statements differ in what they do about a row somebody else    *)
(* has locked: the claim and the lease reaper skip it, every UPDATE waits  *)
(* for it and evaluates its WHERE clause again.                            *)
(*                                                                         *)
(* The claim and commit cycle of the workers and what a late, killed or    *)
(* failing session does are as in JobQueue.  Of its columns priority,      *)
(* created_at and result are left out, and a timed out attempt is a failed *)
(* one: they only differ in the text of the attempt row.  ORDER BY prefers *)
(* one due row to another, but skipped rows and the age of a statement's   *)
(* snapshot make any due row a possible choice.                            *)
(***************************************************************************)
EXTENDS Integers, FiniteSets

CONSTANTS
    Jobs,           \* identities (uuid4) a job can get
    Workers,        \* worker threads, over all processes
    Clients,        \* requests of the API, over all processes
    WorkerIds,      \* the strings f"{instance_id}-{slot}"
    WorkerId,       \* [Workers -> WorkerIds]; two threads may share an id
    NoWorker,       \* NULL of jobs.locked_by
    NoJob,          \* a session that is at no row
    NoSession,      \* the holder of a lock nobody holds
    RetryLimits,    \* max_retries requested or defaulted
    Timeouts,       \* timeout_seconds requested or defaulted
    RunAts,         \* run_at requested
    Backoffs,       \* what min(base * 2 ** (attempt_no - 1), max) may be
    Grace,          \* lease_grace_seconds
    Horizon         \* bound: the clock stops here

Sessions == Workers \cup Clients

ASSUME PgSessionsAssumption ==
    /\ Workers \cap Clients = {}
    /\ NoSession \notin Sessions
    /\ IsFiniteSet(Sessions)
    /\ WorkerId \in [Workers -> WorkerIds]
    /\ NoWorker \notin WorkerIds

ASSUME PgRequestAssumption ==
    /\ NoJob \notin Jobs
    /\ IsFiniteSet(Jobs)
    /\ RetryLimits \subseteq Nat
    /\ Timeouts \subseteq Nat
    /\ RunAts \subseteq Nat
    /\ Backoffs \subseteq Nat
    /\ Grace \in Nat
    /\ Horizon \in Nat

VARIABLES
    jobs,           \* table jobs, keyed by id; status "absent" is no row
    job_attempts,   \* table job_attempts, keyed by its unique index: status
    dead_letters,   \* table dead_letters, keyed by job_id: attempt_count
    locks,          \* the session that has locked each row of jobs
    sessions,       \* where each worker and each request is
    clock

tables == <<jobs, job_attempts, dead_letters>>
vars == <<jobs, job_attempts, dead_letters, locks, sessions, clock>>

Terminal == {"succeeded", "dead_lettered", "cancelled"}
JobStatus == {"absent", "queued", "running"} \cup Terminal
Outcomes == {"succeeded", "failed"}
AttemptStatus == Outcomes \cup {"abandoned"}

\* What a session is busy with: "claim" and the outcomes are transactions that lock
\* one row, "run" is the handler, between two transactions; "recover" has read the
\* clock, "reap" and "drain" go through the rows their first statement found.
Tasks == {"idle", "claim", "run", "recover", "reap", "cancel", "drain"}
            \cup Outcomes

NoTime == -1        \* NULL of jobs.locked_at

NoRow ==
    [status |-> "absent", max_retries |-> 0, timeout_seconds |-> 0, attempt_count |-> 0,
     run_at |-> 0, locked_by |-> NoWorker, locked_at |-> NoTime]

Row ==
    [status : JobStatus, max_retries : Nat, timeout_seconds : Nat, attempt_count : Nat,
     run_at : Nat, locked_by : WorkerIds \cup {NoWorker}, locked_at : Nat \cup {NoTime}]

\* job: the row a session is at; rest: the rows it will visit after that one;
\* now: the clock as its transaction has read it.
Session ==
    [task : Tasks, job : Jobs \cup {NoJob}, attempt_no : Nat,
     rest : SUBSET Jobs, now : 0..Horizon]

At(task) == [task |-> task, job |-> NoJob, attempt_no |-> 0, rest |-> {}, now |-> 0]

Init ==
    /\ jobs = [j \in Jobs |-> NoRow]
    /\ job_attempts = << >>
    /\ dead_letters = << >>
    /\ locks = [j \in Jobs |-> NoSession]
    /\ sessions = [s \in Sessions |-> At("idle")]
    /\ clock = 0

-----------------------------------------------------------------------------
(* Tables and locks.  As in JobQueue, no action uses a definition named X_Slip. *)

Upsert(f, g) ==
    [k \in DOMAIN f \cup DOMAIN g |-> IF k \in DOMAIN g THEN g[k] ELSE f[k]]

Recorded(j, n) == <<j, n>> \in DOMAIN job_attempts

\* The unique index (job_id, attempt_no) of job_attempts lets the row in.
IndexAccepts_NoIndex(j, n) == TRUE
IndexAccepts(j, n) == ~Recorded(j, n)

JobsIn(status) == {j \in Jobs : jobs[j].status = status}

Free(j) == locks[j] = NoSession
LockedBy(s) == {j \in Jobs : locks[j] = s}

\* The statements with FOR UPDATE SKIP LOCKED.
SkipsLocked_OnlyClaim(s) == sessions[s].task = "claim"
SkipsLocked(s) == sessions[s].task \in {"claim", "reap"}

Lock(s, j) == locks' = [locks EXCEPT ![j] = s]
Release(s) == locks' = [j \in Jobs |-> IF locks[j] = s THEN NoSession ELSE locks[j]]

WillRetry_OffByOne(j, n) == n < jobs[j].max_retries
WillRetry(j, n) == n <= jobs[j].max_retries

AfterSuccess(j, n) ==
    [jobs[j] EXCEPT !.status = "succeeded", !.attempt_count = n,
                    !.locked_by = NoWorker, !.locked_at = NoTime]

\* run_at is that of the retry; without one it is the present.
AfterFailure_Failed(j, n, now, run_at) ==
    [jobs[j] EXCEPT !.status = IF WillRetry(j, n) THEN "queued" ELSE "failed",
                    !.attempt_count = n, !.locked_by = NoWorker, !.locked_at = NoTime]
AfterFailure(j, n, now, run_at) ==
    [jobs[j] EXCEPT !.status = IF WillRetry(j, n) THEN "queued" ELSE "dead_lettered",
                    !.attempt_count = n,
                    !.run_at = IF WillRetry(j, n) THEN run_at ELSE now,
                    !.locked_by = NoWorker,
                    !.locked_at = NoTime]

\* COMMIT of a transaction of s: its writes, and the end of its locks.
Commit(s, rows, attempts, dead) ==
    /\ jobs' = [j \in Jobs |-> IF j \in DOMAIN rows THEN rows[j] ELSE jobs[j]]
    /\ job_attempts' = Upsert(job_attempts, attempts)
    /\ dead_letters' = Upsert(dead_letters, dead)
    /\ Release(s)

Become(s, session) == sessions' = [sessions EXCEPT ![s] = session]

-----------------------------------------------------------------------------
(* Requests of the API *)

NewRow(max_retries, timeout_seconds, run_at) ==
    [NoRow EXCEPT !.status = "queued", !.max_retries = max_retries,
                  !.timeout_seconds = timeout_seconds, !.run_at = run_at]

\* POST /jobs and POST /load-test: rows nobody sees, or waits for, before the commit.
InsertJobs(batch) ==
    /\ batch \subseteq JobsIn("absent")
    /\ \E r \in RetryLimits, d \in Timeouts : \E at \in [batch -> RunAts] :
          jobs' = [j \in Jobs |-> IF j \in batch THEN NewRow(r, d, at[j]) ELSE jobs[j]]
    /\ UNCHANGED <<job_attempts, dead_letters, locks, sessions, clock>>

CreateJob(j) == InsertJobs({j})
CreateJobsBatch == \E batch \in SUBSET JobsIn("absent") \ {{}} : InsertJobs(batch)

RequestCancel(c, j) ==
    /\ sessions[c].task = "idle"
    /\ jobs[j].status # "absent"
    /\ Become(c, [At("cancel") EXCEPT !.job = j])
    /\ UNCHANGED <<tables, locks, clock>>

\* UPDATE ... WHERE id AND status = 'queued': no row, or the row as soon as it is free.
CancelRow(c) ==
    LET j == sessions[c].job
    IN  /\ sessions[c].task = "cancel"
        /\ locks[j] # c
        /\ \/ /\ jobs[j].status # "queued"
              /\ Become(c, At("idle"))
              /\ UNCHANGED locks
           \/ /\ jobs[j].status = "queued"
              /\ Free(j)
              /\ Lock(c, j)
              /\ UNCHANGED sessions
        /\ UNCHANGED <<tables, clock>>

\* Where a statement goes after a row: to any of those left, in the order of its plan.
Visit(s, task, left) ==
    \/ /\ left = {}
       /\ Become(s, [sessions[s] EXCEPT !.task = task, !.job = NoJob, !.rest = {}])
    \/ \E j \in left :
          Become(s, [sessions[s] EXCEPT !.task = task, !.job = j, !.rest = left \ {j}])

RequestDrain(c) ==
    /\ sessions[c].task = "idle"
    /\ Visit(c, "drain", JobsIn("queued"))
    /\ UNCHANGED <<tables, locks, clock>>

\* The UPDATE of drain_queue waits for a locked row.  It keeps the lock of a row it
\* finds no longer queued, and does not write it.
DrainRow(c) ==
    /\ sessions[c].task = "drain"
    /\ sessions[c].job # NoJob
    /\ Free(sessions[c].job)
    /\ Lock(c, sessions[c].job)
    /\ Visit(c, "drain", sessions[c].rest)
    /\ UNCHANGED <<tables, clock>>

Cancelled_Locked(c) == LockedBy(c)
Cancelled(c) == {j \in LockedBy(c) : jobs[j].status = "queued"}

\* COMMIT of cancel_job or drain_queue.
CommitRequest(c) ==
    /\ \/ sessions[c].task = "cancel" /\ locks[sessions[c].job] = c
       \/ sessions[c].task = "drain" /\ sessions[c].job = NoJob
    /\ Commit(c, [j \in Cancelled(c) |-> [jobs[j] EXCEPT !.status = "cancelled"]],
              << >>, << >>)
    /\ Become(c, At("idle"))
    /\ UNCHANGED clock

\* The connection or the process is lost, or PostgreSQL breaks a deadlock.
RollBackRequest(c) ==
    /\ sessions[c].task # "idle"
    /\ Release(c)
    /\ Become(c, At("idle"))
    /\ UNCHANGED <<tables, clock>>

-----------------------------------------------------------------------------
(* The cycle of a worker thread *)

\* The transaction of a worker is rolled back and its work forgotten: its process is
\* killed, or the database raises where nothing catches it but the loop's end.  A
\* worker that has died is an idle one that takes no step.
CrashWorker(t) ==
    /\ sessions[t].task # "idle"
    /\ Release(t)
    /\ Become(t, At("idle"))
    /\ UNCHANGED <<tables, clock>>

\* claim_next_job reads the clock before it connects.
BeginClaim(t) ==
    /\ sessions[t].task = "idle"
    /\ Become(t, [At("claim") EXCEPT !.now = clock])
    /\ UNCHANGED <<tables, locks, clock>>

Claimable_NoLock(t) ==
    {j \in JobsIn("queued") : jobs[j].run_at <= sessions[t].now}
Claimable(t) ==
    {j \in JobsIn("queued") : jobs[j].run_at <= sessions[t].now /\ Free(j)}

\* SELECT ... LIMIT 1 FOR UPDATE SKIP LOCKED.
SelectNextJob(t) ==
    /\ sessions[t].task = "claim"
    /\ sessions[t].job = NoJob
    /\ \/ /\ Claimable(t) = {}
          /\ Become(t, At("idle"))
          /\ UNCHANGED locks
       \/ \E j \in Claimable(t) :
             /\ Lock(t, j)
             /\ Become(t, [sessions[t] EXCEPT !.job = j])
    /\ UNCHANGED <<tables, clock>>

\* UPDATE and COMMIT of the claim; the thread dies when the commit raises.
CommitClaim(t) ==
    LET j == sessions[t].job
        lease == [jobs[j] EXCEPT !.status = "running",
                                 !.locked_by = WorkerId[t],
                                 !.locked_at = sessions[t].now]
    IN  /\ sessions[t].task = "claim"
        /\ j # NoJob
        /\ Commit(t, [k \in {j} |-> lease], << >>, << >>)
        /\ \/ Become(t, [At("run") EXCEPT !.job = j,
                                          !.attempt_no = jobs[j].attempt_count + 1])
           \/ Become(t, At("idle"))
        /\ UNCHANGED clock

\* The handler has ended or overrun, at any time; a failure reads the clock for
\* the time of the retry.
FinishAttempt(t) ==
    /\ sessions[t].task = "run"
    /\ \/ Become(t, [sessions[t] EXCEPT !.task = "succeeded"])
       \/ Become(t, [sessions[t] EXCEPT !.task = "failed", !.now = clock])
    /\ UNCHANGED <<tables, locks, clock>>

\* WHERE id = ... AND status = 'running' AND locked_by = worker_id
HoldsLease(t) ==
    /\ jobs[sessions[t].job].status = "running"
    /\ jobs[sessions[t].job].locked_by = WorkerId[t]

\* The UPDATE of mark_succeeded or mark_failed_attempt: the thread goes on to its next
\* job when the row is not its own, also after it has waited for the row.
UpdateOwnedJob(t) ==
    LET j == sessions[t].job
    IN  /\ sessions[t].task \in Outcomes
        /\ locks[j] # t
        /\ \/ /\ ~HoldsLease(t)
              /\ Become(t, At("idle"))
              /\ UNCHANGED locks
           \/ /\ HoldsLease(t)
              /\ Free(j)
              /\ Lock(t, j)
              /\ UNCHANGED sessions
        /\ UNCHANGED <<tables, clock>>

\* What a thread does when the transaction of its outcome has raised: process_one
\* records a failure after mark_succeeded, and nothing catches _record_failure.
AfterException(t) ==
    IF sessions[t].task = "succeeded"
    THEN [sessions[t] EXCEPT !.task = "failed", !.now = clock]
    ELSE At("idle")

\* INSERT of the attempt and COMMIT, of which the thread may not hear.
CommitOutcome(t) ==
    LET j == sessions[t].job
        n == sessions[t].attempt_no
        outcome == sessions[t].task
        now == sessions[t].now
        dead == IF outcome = "succeeded" \/ WillRetry(j, n) THEN {} ELSE {j}
    IN  /\ outcome \in Outcomes
        /\ locks[j] = t
        /\ IndexAccepts(j, n)
        /\ \E backoff \in Backoffs :
              Commit(t,
                     [k \in {j} |-> IF outcome = "succeeded" THEN AfterSuccess(j, n)
                                    ELSE AfterFailure(j, n, now, now + backoff)],
                     [key \in {<<j, n>>} |-> outcome],
                     [k \in dead |-> n])
        /\ Become(t, At("idle")) \/ Become(t, AfterException(t))
        /\ UNCHANGED clock

\* The transaction of an outcome raises: a lost connection, or the unique index.
RollBackOutcome(t) ==
    /\ sessions[t].task \in Outcomes
    /\ Release(t)
    /\ Become(t, AfterException(t))
    /\ UNCHANGED <<tables, clock>>

-----------------------------------------------------------------------------
(* The lease reaper, run by an idle thread *)

BeginRecovery(t) ==
    /\ sessions[t].task = "idle"
    /\ Become(t, [At("recover") EXCEPT !.now = clock])
    /\ UNCHANGED <<tables, locks, clock>>

\* SELECT ... FOR UPDATE SKIP LOCKED of every running job, stale or not.
SelectRunning(t) ==
    /\ sessions[t].task = "recover"
    /\ Visit(t, "reap", JobsIn("running"))
    /\ UNCHANGED <<tables, locks, clock>>

ReapRow(t) ==
    /\ sessions[t].task = "reap"
    /\ sessions[t].job # NoJob
    /\ \/ Free(sessions[t].job) /\ Lock(t, sessions[t].job)
       \/ ~Free(sessions[t].job) /\ SkipsLocked(t) /\ UNCHANGED locks
    /\ Visit(t, "reap", sessions[t].rest)
    /\ UNCHANGED <<tables, clock>>

\* A locked row that is no longer running was not returned by the SELECT.
StaleJobs_AsSelected(t) ==
    {j \in LockedBy(t) :
        sessions[t].now - jobs[j].locked_at > jobs[j].timeout_seconds + Grace}
StaleJobs(t) ==
    {j \in LockedBy(t) :
        /\ jobs[j].status = "running"
        /\ sessions[t].now - jobs[j].locked_at > jobs[j].timeout_seconds + Grace}

\* The UPDATEs and INSERTs for all stale leases, and COMMIT; an exception is logged.
CommitRecovery(t) ==
    LET attempt_no(j) == jobs[j].attempt_count + 1
        now == sessions[t].now
        exhausted == {j \in StaleJobs(t) : ~WillRetry(j, attempt_no(j))}
        abandoned == {<<j, attempt_no(j)>> : j \in StaleJobs(t)}
    IN  /\ sessions[t].task = "reap"
        /\ sessions[t].job = NoJob
        /\ \A j \in StaleJobs(t) : IndexAccepts(j, attempt_no(j))
        /\ Commit(t,
                  [j \in StaleJobs(t) |-> AfterFailure(j, attempt_no(j), now, now)],
                  [key \in abandoned |-> "abandoned"],
                  [j \in exhausted |-> attempt_no(j)])
        /\ Become(t, At("idle"))
        /\ UNCHANGED clock

-----------------------------------------------------------------------------

Tick ==
    /\ clock < Horizon
    /\ clock' = clock + 1
    /\ UNCHANGED <<tables, locks, sessions>>

RequestStep(c) ==
    \/ \E j \in Jobs : RequestCancel(c, j)
    \/ RequestDrain(c)
    \/ CancelRow(c)
    \/ DrainRow(c)
    \/ CommitRequest(c)
    \/ RollBackRequest(c)

WorkerStep(t) ==
    \/ BeginClaim(t)
    \/ SelectNextJob(t)
    \/ CommitClaim(t)
    \/ FinishAttempt(t)
    \/ UpdateOwnedJob(t)
    \/ CommitOutcome(t)
    \/ RollBackOutcome(t)
    \/ BeginRecovery(t)
    \/ SelectRunning(t)
    \/ ReapRow(t)
    \/ CommitRecovery(t)
    \/ CrashWorker(t)

Next ==
    \/ \E j \in Jobs : CreateJob(j)
    \/ CreateJobsBatch
    \/ \E c \in Clients : RequestStep(c)
    \/ \E t \in Workers : WorkerStep(t)
    \/ Tick

Spec == Init /\ [][Next]_vars

-----------------------------------------------------------------------------
(* Properties *)

\* Type correctness of the tables, the locks and the sessions.
TypeOK ==
    /\ jobs \in [Jobs -> Row]
    /\ DOMAIN job_attempts \subseteq Jobs \X Nat
    /\ \A key \in DOMAIN job_attempts : job_attempts[key] \in AttemptStatus
    /\ DOMAIN dead_letters \subseteq Jobs
    /\ \A j \in DOMAIN dead_letters : dead_letters[j] \in Nat
    /\ locks \in [Jobs -> Sessions \cup {NoSession}]
    /\ sessions \in [Sessions -> Session]
    /\ clock \in 0..Horizon

Holds(t, j, n) ==
    /\ sessions[t].task \in {"run"} \cup Outcomes
    /\ sessions[t].job = j
    /\ sessions[t].attempt_no = n

\* The attempt a worker has claimed is the current one of a job leased to its worker
\* id, or is already in the history, so that the fence or the index turns it away.
ClaimCurrentOrRecorded ==
    \A t \in Workers, j \in Jobs :
        \A n \in {sessions[t].attempt_no} :
            Holds(t, j, n) /\ ~Recorded(j, n) =>
                n = jobs[j].attempt_count + 1 /\ HoldsLease(t)

\* No two workers are at the same attempt of a job, whichever rows they skipped or
\* waited for.
SingleOwner ==
    \A t, u \in Workers, j \in Jobs :
        \A n \in {sessions[t].attempt_no} :
            Holds(t, j, n) /\ Holds(u, j, n) => t = u

\* A running job leaves that status only with the outcome of the attempt it is leased
\* for, committed by the worker that holds it, or when the lease has really expired,
\* although the reaper reads the clock before it finds, and locks, the rows.
LeaseRespected ==
    [][\A j \in Jobs :
          jobs[j].status = "running" /\ jobs'[j].status # "running" =>
              \/ clock - jobs[j].locked_at > jobs[j].timeout_seconds + Grace
              \/ \E t \in Workers :
                    /\ Holds(t, j, jobs[j].attempt_count + 1)
                    /\ sessions[t].task \in Outcomes
                    /\ jobs[j].locked_by = WorkerId[t]]_vars

\* dead_letters lists exactly the dead-lettered jobs, each with max_retries + 1
\* attempts, although the two tables are written by different statements.
DeadLetterExact ==
    \A j \in Jobs :
        /\ j \in DOMAIN dead_letters <=> jobs[j].status = "dead_lettered"
        /\ jobs[j].status = "dead_lettered" =>
              dead_letters[j] = jobs[j].attempt_count
              /\ jobs[j].attempt_count = jobs[j].max_retries + 1

\* What these invariants rest on: the attempts of a job are numbered 1 to attempt_count,
\* whichever transactions recorded them, ...
AttemptLedger ==
    /\ \A key \in DOMAIN job_attempts : key[2] \in 1..jobs[key[1]].attempt_count
    /\ \A j \in Jobs : \A n \in 1..jobs[j].attempt_count : Recorded(j, n)

\* ... a job that may run again has budget left, ...
RowsInBudget ==
    \A j \in Jobs :
        /\ jobs[j].status = "absent" => jobs[j].attempt_count = 0
        /\ jobs[j].status \in {"queued", "running"} =>
              jobs[j].attempt_count <= jobs[j].max_retries

\* ... and what a worker has found true of the row it locked remains true until it
\* commits: so the statements of a transaction work on one state of the row.
LocksOf(t) ==
    LET j == sessions[t].job
    IN  /\ sessions[t].task \in {"idle", "run"} => LockedBy(t) = {}
        /\ sessions[t].task \in {"claim"} \cup Outcomes => LockedBy(t) \subseteq {j}
        /\ sessions[t].task = "claim" /\ j # NoJob =>
              locks[j] = t /\ jobs[j].status = "queued"
        /\ sessions[t].task \in {"run"} \cup Outcomes => j # NoJob
        /\ sessions[t].task \in Outcomes /\ locks[j] = t => HoldsLease(t)
LocksProtect == \A t \in Workers : LocksOf(t)

TableInv ==
    /\ TypeOK
    /\ AttemptLedger
    /\ RowsInBudget
    /\ DeadLetterExact
    /\ LocksProtect
    /\ ClaimCurrentOrRecorded
    /\ SingleOwner

\* s has come to a row that u has locked, with a statement that waits.
WaitsFor(s, u) ==
    /\ sessions[s].task # "run"
    /\ sessions[s].job # NoJob
    /\ ~SkipsLocked(s)
    /\ u # s
    /\ locks[sessions[s].job] = u

\* Everyone in the set waits for one of it, and is waited for by one of it.
Deadlocked(set) ==
    \A s \in set : /\ \E u \in set : WaitsFor(s, u)
                   /\ \E u \in set : WaitsFor(u, s)

\* A deadlock needs two drains: workers, reapers and cancellations may wait, but no
\* one of them waits while others wait for it, so PostgreSQL never has to abort one.
OnlyDrainsDeadlock ==
    \A set \in SUBSET Sessions \ {{}} :
        Deadlocked(set) => \A s \in set : sessions[s].task = "drain"

\* What that rests on: every session but a drain is at its first row when it waits.
OneRowAtATime ==
    \A s \in Sessions :
        /\ sessions[s].task \in IF s \in Clients THEN {"idle", "cancel", "drain"}
                                                 ELSE Tasks \ {"cancel", "drain"}
        /\ sessions[s].task \in {"idle", "recover"} => sessions[s].job = NoJob
        /\ sessions[s].task = "idle" => LockedBy(s) = {}
        /\ sessions[s].task = "cancel" => LockedBy(s) \subseteq {sessions[s].job}

\* A transaction knows the time as it was when it began.
ReadingsArePast == \A s \in Sessions : sessions[s].now <= clock

IInv == TableInv /\ OneRowAtATime /\ ReadingsArePast

\* The committed tables keep the promise of JobContract to every client.
Ledger(j) == [n \in 1..jobs[j].attempt_count |-> job_attempts[<<j, n>>]]

Contract == INSTANCE JobContract WITH
                state <- [j \in Jobs |-> jobs[j].status],
                budget <- [j \in Jobs |-> jobs[j].max_retries],
                ledger <- [j \in Jobs |-> Ledger(j)]

ImplementsContract == Contract!Spec

=============================================================================
