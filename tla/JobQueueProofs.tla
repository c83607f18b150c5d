--------------------------- MODULE JobQueueProofs ---------------------------
(***************************************************************************)
(* Theorems about JobQueue, for every set of jobs and threads, every       *)
(* assignment of worker ids to threads, and every request.                 *)
(***************************************************************************)
EXTENDS JobQueue, SequenceTheorems, TLAPS

USE DEF JobStatus, Terminal, Phases, AttemptStatus, NoTime, NoResult

-----------------------------------------------------------------------------
(* Tables *)

\* What an upsert does to the keys and the rows of a table.
LEMMA UpsertRows ==
    ASSUME NEW f, NEW g
    PROVE  /\ DOMAIN Upsert(f, g) = DOMAIN f \cup DOMAIN g
           /\ \A k \in DOMAIN g : Upsert(f, g)[k] = g[k]
           /\ \A k \in DOMAIN f : k \notin DOMAIN g => Upsert(f, g)[k] = f[k]
  BY DEF Upsert

\* Two sets of pairs are equal when they have the same pairs.
LEMMA EqualPairSets ==
    ASSUME NEW S, NEW T, NEW A, NEW B, A \subseteq S \X T, B \subseteq S \X T
    PROVE  A = B <=> \A x \in S, y \in T : <<x, y>> \in A <=> <<x, y>> \in B
  <1>1. ASSUME \A x \in S, y \in T : <<x, y>> \in A <=> <<x, y>> \in B, NEW e
        PROVE  e \in A <=> e \in B
    <2>1. CASE e \in S \X T
      <3>1. PICK x \in S, y \in T : e = <<x, y>>
        BY <2>1
      <3> QED
        BY <1>1, <3>1
    <2>2. CASE e \notin S \X T
      BY <2>2
    <2> QED
      BY <2>1, <2>2
  <1> QED
    BY <1>1

\* The attempt history, one attempt at a time, for any job table and any set of keys.
LEMMA LedgerByAttempt ==
    ASSUME NEW rows \in [Jobs -> Row], NEW keys, keys \subseteq Jobs \X Nat
    PROVE  keys = UNION {{j} \X (1..rows[j].attempt_count) : j \in Jobs} <=>
             \A j \in Jobs, n \in Nat :
                <<j, n>> \in keys <=> (1 <= n /\ n <= rows[j].attempt_count)
  <1> DEFINE Numbered == UNION {{j} \X (1..rows[j].attempt_count) : j \in Jobs}
  <1>1. \A j \in Jobs : rows[j].attempt_count \in Nat
    BY DEF Row
  <1>2. \A j \in Jobs, n \in Nat :
           <<j, n>> \in Numbered <=> (1 <= n /\ n <= rows[j].attempt_count)
    BY <1>1
  <1>3. Numbered \subseteq Jobs \X Nat
    BY <1>1
  <1> HIDE DEF Numbered
  <1>4. keys = Numbered <=>
           \A j \in Jobs, n \in Nat : <<j, n>> \in keys <=> <<j, n>> \in Numbered
    BY <1>3, EqualPairSets
  <1>5. keys = Numbered <=>
             \A j \in Jobs, n \in Nat :
                <<j, n>> \in keys <=> (1 <= n /\ n <= rows[j].attempt_count)
    BY <1>2, <1>4
  <1> QED
    BY <1>5 DEF Numbered

-----------------------------------------------------------------------------
(* Rows *)

\* A clock reading is a point in time, and none is ahead of the clock.
LEMMA ReadingTyped ==
    ASSUME NEW time \in Readings
    PROVE  time \in Nat /\ time # NoTime /\ time <= Now
  BY TimeAssumption DEF Readings

\* The rows that a commit, a failure and a submission write are rows.
LEMMA RowsWritten ==
    ASSUME TypeOK, NEW j \in Jobs
    PROVE  /\ \A n \in Nat : AfterSuccess(j, n) \in Row
           /\ \A n \in Nat, time \in Nat : \A backoff :
                 (WillRetry(j, n) => backoff \in Nat) => AfterFailure(j, n, time, backoff) \in Row
           /\ \A p \in Priorities, r \in RetryLimits, d \in Timeouts, time \in Readings :
                 \A at \in RunAts \cup {time} : NewRow(p, r, d, at, time) \in Row
  <1>1. jobs[j] \in Row /\ NoRow \in Row
    BY DEF TypeOK, NoRow, Row
  <1>2. \A n \in Nat : AfterSuccess(j, n) \in Row
    BY <1>1 DEF AfterSuccess, Row
  <1>3. ASSUME NEW n \in Nat, NEW time \in Nat, NEW backoff,
               WillRetry(j, n) => backoff \in Nat
        PROVE  AfterFailure(j, n, time, backoff) \in Row
    <2>1. (IF WillRetry(j, n) THEN time + backoff ELSE time) \in Nat
      BY <1>3
    <2> QED
      BY <1>1, <2>1, ZenonT(60) DEF AfterFailure, Row
  <1>4. ASSUME NEW p \in Priorities, NEW r \in RetryLimits, NEW d \in Timeouts,
               NEW time \in Readings, NEW at \in RunAts \cup {time}
        PROVE  NewRow(p, r, d, at, time) \in Row
    <2>1. p \in Nat /\ r \in Nat /\ d \in Nat /\ at \in Nat /\ time \in Nat
      BY RequestAssumption, ReadingTyped
    <2> QED
      BY <1>1, <2>1, ZenonT(60) DEF NewRow, NoRow, Row
  <1> QED
    BY <1>2, <1>3, <1>4

\* The columns of the row a failed attempt leaves behind.
LEMMA AfterFailureColumns ==
    ASSUME TypeOK, NEW j \in Jobs, NEW n \in Nat, NEW time, NEW backoff
    PROVE  LET r == AfterFailure(j, n, time, backoff)
           IN  /\ r.status = IF n <= jobs[j].max_retries THEN "queued" ELSE "dead_lettered"
               /\ r.attempt_count = n
               /\ r.max_retries = jobs[j].max_retries
               /\ r.locked_by = NoWorker
               /\ r.locked_at = NoTime
               /\ r.result = jobs[j].result
  <1>1. jobs[j] \in Row
    BY DEF TypeOK
  <1> QED
    BY <1>1 DEF AfterFailure, WillRetry, Row

\* The columns of the row a committed success leaves behind.
LEMMA AfterSuccessColumns ==
    ASSUME TypeOK, NEW j \in Jobs, NEW n \in Nat
    PROVE  LET r == AfterSuccess(j, n)
           IN  /\ r.status = "succeeded"
               /\ r.attempt_count = n
               /\ r.max_retries = jobs[j].max_retries
               /\ r.locked_by = NoWorker
               /\ r.locked_at = NoTime
               /\ r.result = n
  <1>1. jobs[j] \in Row
    BY DEF TypeOK
  <1> QED
    BY <1>1 DEF AfterSuccess, Row

-----------------------------------------------------------------------------
(* Type correctness of every step *)

\* An upsert of well-typed rows into a well-typed table.
LEMMA UpsertTyped ==
    ASSUME NEW f, NEW g, NEW K, NEW V,
           DOMAIN f \subseteq K, \A k \in DOMAIN f : f[k] \in V,
           DOMAIN g \subseteq K, \A k \in DOMAIN g : g[k] \in V
    PROVE  /\ DOMAIN Upsert(f, g) \subseteq K
           /\ \A k \in DOMAIN Upsert(f, g) : Upsert(f, g)[k] \in V
  <1>1. DOMAIN Upsert(f, g) = DOMAIN f \cup DOMAIN g
    BY UpsertRows
  <1>2. ASSUME NEW k \in DOMAIN f \cup DOMAIN g
        PROVE  Upsert(f, g)[k] \in V
    <2>1. Upsert(f, g)[k] = IF k \in DOMAIN g THEN g[k] ELSE f[k]
      BY <1>2 DEF Upsert
    <2> QED
      BY <1>2, <2>1
  <1> QED
    BY <1>1, <1>2

\* A thread without a claim is well typed.
LEMMA NoClaimTyped ==
    \A phase \in Phases : NoClaim(phase) \in Thread
  BY DEF NoClaim, Thread

\* The delay of a retry is defined.
LEMMA RetryDelay ==
    ASSUME NEW limit \in RetryLimits, NEW n \in Nat, n > 0, n <= limit,
           NEW config \in BackoffConfigs
    PROVE  Backoff(config, n) \in Nat
  <1>1. limit \in Nat
    BY RequestAssumption
  <1>2. n \in 1..(limit + 1)
    BY <1>1
  <1> QED
    BY <1>2, BackoffAssumption

\* Submission, batch submission, cancellation and drain write well-typed rows.
LEMMA ApiStepTyped ==
    ASSUME TypeOK, ApiStep
    PROVE  TypeOK'
  <1>1. /\ jobs \in [Jobs -> Row]
        /\ UNCHANGED <<job_attempts, dead_letters, threads, executed>>
    BY DEF TypeOK, ApiStep, CreateJob, CancelJob, CreateJobsBatch, DrainQueue
  <1>2. \A j \in Jobs : [jobs[j] EXCEPT !.status = "cancelled"] \in Row
    BY <1>1 DEF Row
  <1>3. ASSUME NEW j \in Jobs, CreateJob(j)
        PROVE  jobs' \in [Jobs -> Row]
    BY <1>1, <1>3, RowsWritten DEF CreateJob
  <1>4. ASSUME NEW j \in Jobs, CancelJob(j)
        PROVE  jobs' \in [Jobs -> Row]
    BY <1>1, <1>2, <1>4 DEF CancelJob
  <1>5. ASSUME CreateJobsBatch
        PROVE  jobs' \in [Jobs -> Row]
    <2>1. PICK batch \in SUBSET JobsIn("absent"),
               r \in RetryLimits, d \in Timeouts, time \in Readings :
              \E p \in [batch -> Priorities], at \in [batch -> RunAts \cup {time}] :
                 jobs' = [j \in Jobs |-> IF j \in batch THEN NewRow(p[j], r, d, at[j], time)
                                         ELSE jobs[j]]
      BY <1>5 DEF CreateJobsBatch
    <2>2. PICK p \in [batch -> Priorities], at \in [batch -> RunAts \cup {time}] :
              jobs' = [j \in Jobs |-> IF j \in batch THEN NewRow(p[j], r, d, at[j], time)
                                      ELSE jobs[j]]
      BY <2>1
    <2>3. \A j \in batch : NewRow(p[j], r, d, at[j], time) \in Row
      BY RowsWritten DEF JobsIn
    <2> QED
      BY <1>1, <2>2, <2>3
  <1>6. ASSUME DrainQueue
        PROVE  jobs' \in [Jobs -> Row]
    BY <1>1, <1>2, <1>6 DEF DrainQueue
  <1>7. jobs' \in [Jobs -> Row]
    BY <1>3, <1>4, <1>5, <1>6 DEF ApiStep
  <1> QED
    BY <1>1, <1>7 DEF TypeOK

\* Steps of a thread that touch no table.
LEMMA ThreadOnlyTyped ==
    ASSUME TypeOK, NEW t \in Threads, NEW r \in Thread,
           threads' = [threads EXCEPT ![t] = r],
           UNCHANGED tables, executed' \subseteq AttemptKey
    PROVE  TypeOK'
  BY DEF TypeOK, tables

\* A thread between claim and commit has a job and the number of an attempt.
LEMMA ClaimTyped ==
    ASSUME TypeOK, ClaimsWellFormed, NEW t \in Threads,
           threads[t].phase \notin {"stopped", "idle"}
    PROVE  /\ threads[t].job \in Jobs
           /\ threads[t].attempt_no \in Nat
           /\ threads[t].attempt_no > 0
           /\ jobs[threads[t].job].status # "absent"
           /\ threads[t] \in Thread
           /\ \A phase \in Phases : [threads[t] EXCEPT !.phase = phase] \in Thread
  <1>1. threads[t] \in Thread
    BY DEF TypeOK
  <1>2. \A phase \in Phases : [threads[t] EXCEPT !.phase = phase] \in Thread
    BY <1>1, SMTT(30) DEF Thread
  <1>3. threads[t].attempt_no \in Nat
    BY <1>1 DEF Thread
  <1>4. /\ threads[t].job \in Jobs
        /\ threads[t].attempt_no > 0
        /\ jobs[threads[t].job].status # "absent"
    BY DEF ClaimsWellFormed
  <1> QED
    BY <1>1, <1>2, <1>3, <1>4

\* The steps of a thread that write no table keep it well typed.
LEMMA LifeStepTyped ==
    ASSUME TypeOK, ClaimsWellFormed, NEW t \in Threads,
           StartThread(t) \/ CrashThread(t) \/ BeginAttempt(t) \/ FinishAttempt(t)
    PROVE  TypeOK'
  <1>1. CASE StartThread(t) \/ CrashThread(t)
    BY <1>1, NoClaimTyped, ThreadOnlyTyped DEF StartThread, CrashThread, TypeOK, tables
  <1>2. CASE BeginAttempt(t)
    <2> DEFINE r == [threads[t] EXCEPT !.phase = "executing"]
    <2>0. threads[t].phase \notin {"stopped", "idle"} /\ threads[t] \in Thread
      BY <1>2 DEF BeginAttempt, TypeOK
    <2>1. r \in Thread
      BY <2>0 DEF Thread
    <2>2. threads' = [threads EXCEPT ![t] = r]
      BY <1>2 DEF BeginAttempt, TypeOK
    <2>3. executed' \subseteq AttemptKey
      <3>1. threads[t].job \in Jobs /\ threads[t].attempt_no \in Nat
        BY <2>0, ClaimTyped
      <3> QED
        BY <1>2, <3>1 DEF BeginAttempt, TypeOK, AttemptKey
    <2> QED
      BY <1>2, <2>1, <2>2, <2>3, ThreadOnlyTyped DEF BeginAttempt
  <1>3. CASE FinishAttempt(t)
    <2>1. PICK outcome \in {"succeeded", "failed", "timed_out"} :
              threads' = [threads EXCEPT ![t].phase = outcome]
      BY <1>3 DEF FinishAttempt
    <2>2. [threads[t] EXCEPT !.phase = outcome] \in Thread
      BY <1>3, ClaimTyped DEF FinishAttempt
    <2>3. threads' = [threads EXCEPT ![t] = [threads[t] EXCEPT !.phase = outcome]]
      BY <2>1 DEF TypeOK
    <2> QED
      BY <1>3, <2>2, <2>3, ThreadOnlyTyped DEF FinishAttempt, TypeOK, tables
  <1> QED
    BY <1>1, <1>2, <1>3

\* claim_next_job leases a row to an existing worker id at a point in time.
LEMMA ClaimNextJobTyped ==
    ASSUME TypeOK, NEW t \in Threads, ClaimNextJob(t)
    PROVE  TypeOK'
  <1>1. PICK time \in Readings, j \in Jobs :
          /\ j \in NextJobs(time)
          /\ jobs' = [jobs EXCEPT ![j].status = "running",
                                  ![j].locked_by = WorkerId[t],
                                  ![j].locked_at = time]
          /\ \/ threads' = [threads EXCEPT ![t] =
                               [phase |-> "claimed", job |-> j,
                                attempt_no |-> jobs[j].attempt_count + 1]]
             \/ threads' = [threads EXCEPT ![t] = NoClaim("stopped")]
    BY DEF ClaimNextJob, NextJobs, DueJobs, JobsIn
  <1>2. j \in Jobs /\ jobs[j] \in Row
    BY <1>1 DEF TypeOK
  <1>3. jobs' \in [Jobs -> Row]
    <2>1. [jobs[j] EXCEPT !.status = "running", !.locked_by = WorkerId[t], !.locked_at = time] \in Row
      BY <1>2, WorkerIdAssumption, ReadingTyped DEF Row
    <2>2. jobs' = [jobs EXCEPT ![j] = [jobs[j] EXCEPT !.status = "running",
                                                      !.locked_by = WorkerId[t],
                                                      !.locked_at = time]]
      BY <1>1, <1>2 DEF TypeOK
    <2> QED
      BY <2>1, <2>2 DEF TypeOK
  <1>4. [phase |-> "claimed", job |-> j,
         attempt_no |-> jobs[j].attempt_count + 1] \in Thread
    BY <1>2 DEF Row, Thread
  <1>5. threads' \in [Threads -> Thread]
    BY <1>1, <1>4, NoClaimTyped DEF TypeOK
  <1> QED
    BY <1>3, <1>5 DEF TypeOK, ClaimNextJob

\* Ageing turns no timestamp into something else, and NULL stays NULL.
LEMMA TickTyped ==
    ASSUME TypeOK, Tick
    PROVE  TypeOK'
  <1>1. \A time \in Nat \cup {NoTime} : Aged(time) \in Nat \cup {NoTime}
    BY DEF Aged
  <1>2. \A time \in Nat : Aged(time) \in Nat
    BY DEF Aged
  <1>3. ASSUME NEW r \in Row
        PROVE  [r EXCEPT !.run_at = Aged(@), !.created_at = Aged(@), !.locked_at = Aged(@)] \in Row
    BY <1>1, <1>2 DEF Row
  <1>4. jobs' \in [Jobs -> Row]
    BY <1>3 DEF Tick, TypeOK
  <1> QED
    BY <1>4 DEF Tick, TypeOK

\* mark_succeeded writes a well-typed row and a well-typed attempt.
LEMMA MarkSucceededTyped ==
    ASSUME TypeOK, ClaimsWellFormed, NEW t \in Threads, MarkSucceeded(t)
    PROVE  TypeOK'
  <1> DEFINE j == threads[t].job
             n == threads[t].attempt_no
             row == [key \in {<<j, n>>} |-> AttemptRow(t, "succeeded")]
  <1>1. /\ threads[t].phase \notin {"stopped", "idle"}
        /\ UNCHANGED <<dead_letters, executed>>
    BY DEF MarkSucceeded
  <1>2. j \in Jobs /\ n \in Nat
    BY <1>1, ClaimTyped
  <1>3. threads' \in [Threads -> Thread]
    <2>1. [threads[t] EXCEPT !.phase = "failed"] \in Thread
      BY <1>1, ClaimTyped
    <2>2. threads' = [threads EXCEPT ![t] = NoClaim("idle")]
          \/ threads' = [threads EXCEPT ![t] = [threads[t] EXCEPT !.phase = "failed"]]
      BY DEF MarkSucceeded, TypeOK
    <2> QED
      BY <2>1, <2>2, NoClaimTyped DEF TypeOK
  <1>4. CASE UNCHANGED <<jobs, job_attempts>>
    BY <1>1, <1>3, <1>4 DEF TypeOK
  <1>5. CASE /\ jobs' = [jobs EXCEPT ![j] = AfterSuccess(j, n)]
             /\ job_attempts' = Upsert(job_attempts, row)
    <2>1. jobs' \in [Jobs -> Row]
      BY <1>2, <1>5, RowsWritten DEF TypeOK
    <2>2. AttemptRow(t, "succeeded") \in AttemptRecord
      BY WorkerIdAssumption DEF AttemptRow, AttemptRecord
    <2>3. /\ DOMAIN row \subseteq AttemptKey
          /\ \A k \in DOMAIN row : row[k] \in AttemptRecord
      BY <1>2, <2>2 DEF AttemptKey
    <2> HIDE DEF row
    <2>4. /\ DOMAIN job_attempts' \subseteq AttemptKey
          /\ \A k \in DOMAIN job_attempts' :
                job_attempts'[k] \in AttemptRecord
      BY <1>5, <2>3, UpsertTyped DEF TypeOK
    <2> QED
      BY <1>1, <1>3, <2>1, <2>4 DEF TypeOK
  <1> QED
    BY <1>4, <1>5 DEF MarkSucceeded

\* mark_failed_attempt does so too; the retry falls due at a point in time because
\* the budget bounds the exponent of the backoff.
LEMMA MarkFailedTyped ==
    ASSUME TypeOK, ClaimsWellFormed, BudgetsRequested, NEW t \in Threads, MarkFailed(t)
    PROVE  TypeOK'
  <1> DEFINE j == threads[t].job
             n == threads[t].attempt_no
             row == [key \in {<<j, n>>} |-> AttemptRow(t, threads[t].phase)]
             letter == [k \in {j} |-> n]
  <1>1. /\ threads[t].phase \in {"failed", "timed_out"}
        /\ UNCHANGED executed
    BY DEF MarkFailed
  <1>2. j \in Jobs /\ n \in Nat /\ n > 0 /\ jobs[j].status # "absent"
    BY <1>1, ClaimTyped
  <1>3. threads' \in [Threads -> Thread]
    <2>1. PICK phase \in {"idle", "stopped"} : threads' = [threads EXCEPT ![t] = NoClaim(phase)]
      BY DEF MarkFailed
    <2> QED
      BY <2>1, NoClaimTyped DEF TypeOK
  <1>4. CASE UNCHANGED tables
    BY <1>1, <1>3, <1>4 DEF TypeOK, tables
  <1>5. ASSUME NEW config \in BackoffConfigs, NEW time \in Readings,
               jobs' = [jobs EXCEPT ![j] = AfterFailure(j, n, time, Backoff(config, n))],
               job_attempts' = Upsert(job_attempts, row),
               dead_letters' = IF WillRetry(j, n) THEN dead_letters
                               ELSE Upsert(dead_letters, letter)
        PROVE  TypeOK'
    <2>1. jobs' \in [Jobs -> Row]
      <3>1. jobs[j].max_retries \in RetryLimits
        BY <1>2 DEF BudgetsRequested
      <3>2. WillRetry(j, n) => Backoff(config, n) \in Nat
        BY <1>2, <3>1, RetryDelay DEF WillRetry
      <3>3. AfterFailure(j, n, time, Backoff(config, n)) \in Row
        BY <1>2, <1>5, <3>2, RowsWritten, ReadingTyped
      <3> QED
        BY <1>5, <3>3 DEF TypeOK
    <2>2. AttemptRow(t, threads[t].phase) \in AttemptRecord
      BY <1>1, WorkerIdAssumption DEF AttemptRow, AttemptRecord
    <2>3. /\ DOMAIN row \subseteq AttemptKey
          /\ \A k \in DOMAIN row : row[k] \in AttemptRecord
      BY <1>2, <2>2 DEF AttemptKey
    <2>4. DOMAIN letter \subseteq Jobs /\ \A k \in DOMAIN letter : letter[k] \in Nat
      BY <1>2
    <2> HIDE DEF row, letter
    <2>5. /\ DOMAIN job_attempts' \subseteq AttemptKey
          /\ \A k \in DOMAIN job_attempts' :
                job_attempts'[k] \in AttemptRecord
      BY <1>5, <2>3, UpsertTyped DEF TypeOK
    <2>6. DOMAIN dead_letters' \subseteq Jobs /\ \A k \in DOMAIN dead_letters' : dead_letters'[k] \in Nat
      <3>1. CASE WillRetry(j, n)
        BY <1>5, <3>1 DEF TypeOK
      <3>2. CASE ~WillRetry(j, n)
        BY <1>5, <2>4, <3>2, UpsertTyped DEF TypeOK
      <3> QED
        BY <3>1, <3>2
    <2> QED
      BY <1>1, <1>3, <2>1, <2>5, <2>6 DEF TypeOK
  <1> QED
    BY <1>4, <1>5 DEF MarkFailed, tables

\* The reaper's attempts carry a worker id because every stale row is leased.
LEMMA RecoverStaleJobsTyped ==
    ASSUME TypeOK, LeaseIffRunning, NEW t \in Threads, RecoverStaleJobs(t)
    PROVE  TypeOK'
  <1>0. PICK time \in Readings :
           LET stale == StaleJobs(time)
               attempt_no(j) == jobs[j].attempt_count + 1
               exhausted == {j \in stale : ~WillRetry(j, attempt_no(j))}
               rows == {<<j, attempt_no(j)>> : j \in stale}
           IN  /\ \A j \in stale : IndexAccepts(j, attempt_no(j))
               /\ jobs' = [j \in Jobs |-> IF j \in stale
                                          THEN AfterFailure(j, attempt_no(j), time, 0)
                                          ELSE jobs[j]]
               /\ job_attempts' =
                     Upsert(job_attempts,
                            [key \in rows |-> [worker_id |-> jobs[key[1]].locked_by,
                                               status |-> "abandoned"]])
               /\ dead_letters' = Upsert(dead_letters, [j \in exhausted |-> attempt_no(j)])
    BY DEF RecoverStaleJobs
  <1> DEFINE stale == StaleJobs(time)
             attempt_no(j) == jobs[j].attempt_count + 1
             exhausted == {j \in stale : ~WillRetry(j, attempt_no(j))}
             keys == {<<j, attempt_no(j)>> : j \in stale}
             rows == [key \in keys |-> [worker_id |-> jobs[key[1]].locked_by,
                                        status |-> "abandoned"]]
             letters == [j \in exhausted |-> attempt_no(j)]
  <1>1. /\ jobs' = [j \in Jobs |-> IF j \in stale THEN AfterFailure(j, attempt_no(j), time, 0)
                                   ELSE jobs[j]]
        /\ job_attempts' = Upsert(job_attempts, rows)
        /\ dead_letters' = Upsert(dead_letters, letters)
        /\ UNCHANGED <<threads, executed>>
    BY <1>0 DEF RecoverStaleJobs
  <1>2. \A j \in Jobs : jobs[j] \in Row /\ attempt_no(j) \in Nat
    BY DEF TypeOK, Row
  <1>3. \A j \in stale : j \in Jobs /\ jobs[j].status = "running"
    BY DEF StaleJobs, JobsIn
  <1>4. \A j \in stale : jobs[j].locked_by \in WorkerIds
    BY <1>2, <1>3 DEF LeaseIffRunning, Row
  <1>5. jobs' \in [Jobs -> Row]
    BY <1>1, <1>2, <1>3, RowsWritten, ReadingTyped DEF TypeOK
  <1>6. /\ DOMAIN rows \subseteq AttemptKey
        /\ \A k \in DOMAIN rows : rows[k] \in AttemptRecord
    BY <1>2, <1>3, <1>4 DEF AttemptKey, AttemptRecord
  <1>7. DOMAIN letters \subseteq Jobs /\ \A k \in DOMAIN letters : letters[k] \in Nat
    BY <1>2, <1>3
  <1> HIDE DEF rows, letters
  <1>8. /\ DOMAIN job_attempts' \subseteq AttemptKey
        /\ \A k \in DOMAIN job_attempts' :
              job_attempts'[k] \in AttemptRecord
    BY <1>1, <1>6, UpsertTyped DEF TypeOK
  <1>9. DOMAIN dead_letters' \subseteq Jobs /\ \A k \in DOMAIN dead_letters' : dead_letters'[k] \in Nat
    BY <1>1, <1>7, UpsertTyped DEF TypeOK
  <1> QED
    BY <1>1, <1>5, <1>8, <1>9 DEF TypeOK

-----------------------------------------------------------------------------
(* What a step does to one job.  Every step of the system moves every job in one *)
(* of six ways; the invariants about rows, and the contract, follow from that.   *)

KeepsAttempts(j) ==
    \A m \in Nat :
        /\ Recorded(j, m)' <=> Recorded(j, m)
        /\ Recorded(j, m) => job_attempts'[<<j, m>>] = job_attempts[<<j, m>>]

AddsAttempt(j, n, status) ==
    /\ \A m \in Nat :
          /\ Recorded(j, m)' <=> Recorded(j, m) \/ m = n
          /\ Recorded(j, m) => job_attempts'[<<j, m>>] = job_attempts[<<j, m>>]
    /\ ~Recorded(j, n)
    /\ job_attempts'[<<j, n>>].status = status

KeepsLetter(j) ==
    /\ j \in DOMAIN dead_letters' <=> j \in DOMAIN dead_letters
    /\ j \in DOMAIN dead_letters => dead_letters'[j] = dead_letters[j]

Unleased(j) == jobs'[j].locked_by = NoWorker /\ jobs'[j].locked_at = NoTime

Stays(j) ==
    /\ jobs'[j].status = jobs[j].status
    /\ jobs'[j].max_retries = jobs[j].max_retries
    /\ jobs'[j].attempt_count = jobs[j].attempt_count
    /\ jobs'[j].result = jobs[j].result
    /\ jobs'[j].locked_by = jobs[j].locked_by
    /\ jobs'[j].locked_at = NoTime <=> jobs[j].locked_at = NoTime
    /\ KeepsAttempts(j)
    /\ KeepsLetter(j)

Accepted(j) ==
    /\ jobs[j].status = "absent"
    /\ jobs'[j].status = "queued"
    /\ jobs'[j].max_retries \in RetryLimits
    /\ jobs'[j].attempt_count = 0
    /\ jobs'[j].result = NoResult
    /\ Unleased(j)
    /\ KeepsAttempts(j)
    /\ KeepsLetter(j)

Withdrawn(j) ==
    /\ jobs[j].status = "queued"
    /\ jobs'[j].status = "cancelled"
    /\ jobs'[j].max_retries = jobs[j].max_retries
    /\ jobs'[j].attempt_count = jobs[j].attempt_count
    /\ jobs'[j].result = jobs[j].result
    /\ Unleased(j)
    /\ KeepsAttempts(j)
    /\ KeepsLetter(j)

Leased(j) ==
    /\ jobs[j].status = "queued"
    /\ jobs'[j].status = "running"
    /\ jobs'[j].max_retries = jobs[j].max_retries
    /\ jobs'[j].attempt_count = jobs[j].attempt_count
    /\ jobs'[j].result = jobs[j].result
    /\ jobs'[j].locked_by # NoWorker
    /\ jobs'[j].locked_at # NoTime
    /\ KeepsAttempts(j)
    /\ KeepsLetter(j)

Completed(j) ==
    LET n == jobs[j].attempt_count + 1
    IN  /\ jobs[j].status = "running"
        /\ jobs'[j].status = "succeeded"
        /\ jobs'[j].max_retries = jobs[j].max_retries
        /\ jobs'[j].attempt_count = n
        /\ jobs'[j].result = n
        /\ Unleased(j)
        /\ AddsAttempt(j, n, "succeeded")
        /\ <<j, n>> \in executed
        /\ KeepsLetter(j)

Failed(j) ==
    LET n == jobs[j].attempt_count + 1
    IN  /\ jobs[j].status = "running"
        /\ jobs'[j].status = IF n <= jobs[j].max_retries THEN "queued" ELSE "dead_lettered"
        /\ jobs'[j].max_retries = jobs[j].max_retries
        /\ jobs'[j].attempt_count = n
        /\ jobs'[j].result = jobs[j].result
        /\ Unleased(j)
        /\ \E status \in {"failed", "timed_out", "abandoned"} : AddsAttempt(j, n, status)
        /\ IF n <= jobs[j].max_retries
           THEN KeepsLetter(j)
           ELSE j \in DOMAIN dead_letters' /\ dead_letters'[j] = n

RowMove(j) ==
    Stays(j) \/ Accepted(j) \/ Withdrawn(j) \/ Leased(j) \/ Completed(j) \/ Failed(j)

\* A step that writes none of the three tables.
LEMMA UntouchedStays ==
    ASSUME NEW j \in Jobs, jobs'[j] = jobs[j], UNCHANGED <<job_attempts, dead_letters>>
    PROVE  Stays(j)
  BY DEF Stays, KeepsAttempts, KeepsLetter, Recorded

\* An upsert of other jobs' rows leaves the history of this job alone.
LEMMA OtherAttempts ==
    ASSUME NEW g, NEW j \in Jobs, \A m \in Nat : <<j, m>> \notin DOMAIN g,
           job_attempts' = Upsert(job_attempts, g)
    PROVE  KeepsAttempts(j)
  BY DEF Upsert, KeepsAttempts, Recorded

\* An upsert with one new row for this job.
LEMMA OneMoreAttempt ==
    ASSUME NEW g, NEW j \in Jobs, NEW n \in Nat, NEW status, ~Recorded(j, n),
           \A m \in Nat : <<j, m>> \in DOMAIN g <=> m = n,
           g[<<j, n>>].status = status,
           job_attempts' = Upsert(job_attempts, g)
    PROVE  AddsAttempt(j, n, status)
  BY DEF Upsert, AddsAttempt, Recorded

\* An upsert of other jobs' dead letters leaves this job's alone.
LEMMA OtherLetters ==
    ASSUME NEW g, NEW j \in Jobs, j \notin DOMAIN g,
           dead_letters' = Upsert(dead_letters, g)
    PROVE  KeepsLetter(j)
  BY DEF Upsert, KeepsLetter

\* An upsert with a dead letter for this job.
LEMMA OneMoreLetter ==
    ASSUME NEW g, NEW j \in Jobs, j \in DOMAIN g,
           dead_letters' = Upsert(dead_letters, g)
    PROVE  j \in DOMAIN dead_letters' /\ dead_letters'[j] = g[j]
  BY DEF Upsert

\* What the API does is an acceptance, a withdrawal or nothing to each job.
LEMMA ApiStepMoves ==
    ASSUME IInv, ApiStep, NEW j \in Jobs
    PROVE  RowMove(j)
  <1>1. /\ jobs \in [Jobs -> Row]
        /\ UNCHANGED <<job_attempts, dead_letters>>
    BY DEF IInv, TypeOK, ApiStep, CreateJob, CancelJob, CreateJobsBatch, DrainQueue
  <1>2. KeepsAttempts(j) /\ KeepsLetter(j)
    BY <1>1 DEF KeepsAttempts, KeepsLetter, Recorded
  <1>3. CASE jobs'[j] = jobs[j]
    BY <1>1, <1>3, UntouchedStays DEF RowMove
  <1>4. ASSUME jobs[j].status = "absent",
               NEW p \in Priorities, NEW r \in RetryLimits, NEW d \in Timeouts,
               NEW time \in Readings, NEW at \in RunAts \cup {time},
               jobs'[j] = NewRow(p, r, d, at, time)
        PROVE  RowMove(j)
    <2>1. Accepted(j)
      BY <1>2, <1>4 DEF Accepted, Unleased, NewRow, NoRow
    <2> QED
      BY <2>1 DEF RowMove
  <1>5. ASSUME jobs[j].status = "queued",
               jobs'[j] = [jobs[j] EXCEPT !.status = "cancelled"]
        PROVE  RowMove(j)
    <2>1. jobs[j] \in Row
      BY <1>1
    <2>2. jobs[j].locked_by = NoWorker /\ jobs[j].locked_at = NoTime
      BY <1>5 DEF IInv, LeaseIffRunning
    <2>3. Withdrawn(j)
      BY <1>2, <1>5, <2>1, <2>2 DEF Withdrawn, Unleased, Row
    <2> QED
      BY <2>3 DEF RowMove
  <1>6. ASSUME NEW k \in Jobs, CreateJob(k)
        PROVE  RowMove(j)
    BY <1>1, <1>3, <1>4, <1>6 DEF CreateJob
  <1>7. ASSUME NEW k \in Jobs, CancelJob(k)
        PROVE  RowMove(j)
    BY <1>1, <1>3, <1>5, <1>7 DEF CancelJob
  <1>8. ASSUME CreateJobsBatch
        PROVE  RowMove(j)
    <2>1. PICK batch \in SUBSET JobsIn("absent"),
               r \in RetryLimits, d \in Timeouts, time \in Readings :
              \E p \in [batch -> Priorities], at \in [batch -> RunAts \cup {time}] :
                 jobs' = [k \in Jobs |-> IF k \in batch THEN NewRow(p[k], r, d, at[k], time)
                                         ELSE jobs[k]]
      BY <1>8 DEF CreateJobsBatch
    <2>2. PICK p \in [batch -> Priorities], at \in [batch -> RunAts \cup {time}] :
              jobs' = [k \in Jobs |-> IF k \in batch THEN NewRow(p[k], r, d, at[k], time)
                                      ELSE jobs[k]]
      BY <2>1
    <2>3. CASE j \in batch
      BY <1>4, <2>2, <2>3 DEF JobsIn
    <2>4. CASE j \notin batch
      BY <1>3, <2>2, <2>4
    <2> QED
      BY <2>3, <2>4
  <1>9. ASSUME DrainQueue
        PROVE  RowMove(j)
    BY <1>1, <1>3, <1>5, <1>9 DEF DrainQueue
  <1> QED
    BY <1>6, <1>7, <1>8, <1>9 DEF ApiStep

\* A claim leases one job.
LEMMA ClaimNextJobMoves ==
    ASSUME IInv, NEW t \in Threads, ClaimNextJob(t), NEW j \in Jobs
    PROVE  RowMove(j)
  <1>1. PICK time \in Readings, k \in Jobs :
          /\ k \in NextJobs(time)
          /\ jobs' = [jobs EXCEPT ![k].status = "running",
                                  ![k].locked_by = WorkerId[t],
                                  ![k].locked_at = time]
    BY DEF ClaimNextJob, NextJobs, DueJobs, JobsIn
  <1>2. /\ UNCHANGED <<job_attempts, dead_letters>>
        /\ k \in Jobs /\ jobs[k].status = "queued"
        /\ jobs \in [Jobs -> Row]
    BY <1>1 DEF ClaimNextJob, NextJobs, DueJobs, JobsIn, IInv, TypeOK
  <1>3. CASE j # k
    BY <1>1, <1>2, <1>3, UntouchedStays DEF RowMove
  <1>4. CASE j = k
    <2>1. jobs[j] \in Row /\ WorkerId[t] # NoWorker /\ time # NoTime
      BY <1>2, WorkerIdAssumption, ReadingTyped
    <2>2. jobs'[j] = [jobs[j] EXCEPT !.status = "running",
                                     !.locked_by = WorkerId[t],
                                     !.locked_at = time]
      BY <1>1, <1>2, <1>4
    <2>3. KeepsAttempts(j) /\ KeepsLetter(j)
      BY <1>2 DEF KeepsAttempts, KeepsLetter, Recorded
    <2>4. Leased(j)
      BY <1>2, <1>4, <2>1, <2>2, <2>3 DEF Leased, Row
    <2> QED
      BY <2>4 DEF RowMove
  <1> QED
    BY <1>3, <1>4

\* Time changes no column the row moves speak of.
LEMMA TickMoves ==
    ASSUME IInv, Tick, NEW j \in Jobs
    PROVE  RowMove(j)
  <1>1. jobs[j] \in Row
    BY DEF IInv, TypeOK
  <1>2. jobs'[j] = [jobs[j] EXCEPT !.run_at = Aged(jobs[j].run_at),
                                   !.created_at = Aged(jobs[j].created_at),
                                   !.locked_at = Aged(jobs[j].locked_at)]
    BY DEF Tick
  <1>3. Aged(jobs[j].locked_at) = NoTime <=> jobs[j].locked_at = NoTime
    BY <1>1 DEF Aged, Row
  <1>4. KeepsAttempts(j) /\ KeepsLetter(j)
    BY DEF Tick, KeepsAttempts, KeepsLetter, Recorded
  <1>5. Stays(j)
    BY <1>1, <1>2, <1>3, <1>4 DEF Stays, Row
  <1> QED
    BY <1>5 DEF RowMove

\* A thread whose commit passes the fence and the index commits the current attempt.
LEMMA CommitIsCurrent ==
    ASSUME IInv, NEW t \in Threads, threads[t].phase \notin {"stopped", "idle"},
           ~Recorded(threads[t].job, threads[t].attempt_no)
    PROVE  /\ threads[t].attempt_no = jobs[threads[t].job].attempt_count + 1
           /\ HoldsLease(t)
  <1>1. threads[t].job \in Jobs
    BY ClaimTyped DEF IInv
  <1>2. Holds(t, threads[t].job, threads[t].attempt_no)
    BY DEF Holds
  <1> QED
    BY <1>1, <1>2 DEF IInv, ClaimCurrentOrRecorded

\* A commit of a success completes one job or touches none.
LEMMA MarkSucceededMoves ==
    ASSUME IInv, NEW t \in Threads, MarkSucceeded(t), NEW j \in Jobs
    PROVE  RowMove(j)
  <1>1. /\ threads[t].phase = "succeeded"
        /\ UNCHANGED dead_letters
        /\ jobs \in [Jobs -> Row]
    BY DEF MarkSucceeded, IInv, TypeOK
  <1>2. PICK k \in Jobs, n \in Nat : k = threads[t].job /\ n = threads[t].attempt_no
    BY <1>1, ClaimTyped DEF IInv
  <1> DEFINE row == [key \in {<<k, n>>} |-> AttemptRow(t, "succeeded")]
  <1>3. CASE UNCHANGED <<jobs, job_attempts>>
    BY <1>1, <1>3, UntouchedStays DEF RowMove
  <1>4. CASE /\ HoldsLease(t)
             /\ ~Recorded(k, n)
             /\ jobs' = [jobs EXCEPT ![k] = AfterSuccess(k, n)]
             /\ job_attempts' = Upsert(job_attempts, row)
    <2>1. KeepsLetter(j)
      BY <1>1 DEF KeepsLetter
    <2>2. CASE j # k
      <3>1. jobs'[j] = jobs[j]
        BY <1>1, <1>4, <2>2
      <3>2. \A m \in Nat : <<j, m>> \notin DOMAIN row
        BY <2>2
      <3> HIDE DEF row
      <3>3. KeepsAttempts(j)
        BY <1>4, <3>2, OtherAttempts
      <3> QED
        BY <2>1, <3>1, <3>3 DEF RowMove, Stays
    <2>3. CASE j = k
      <3>1. n = jobs[k].attempt_count + 1 /\ jobs[k].status = "running"
        BY <1>1, <1>2, <1>4, CommitIsCurrent DEF HoldsLease
      <3>2. jobs'[k] = AfterSuccess(k, n)
        BY <1>1, <1>2, <1>4
      <3>3. AttemptRow(t, "succeeded").status = "succeeded"
        BY DEF AttemptRow
      <3>4. /\ \A m \in Nat : <<k, m>> \in DOMAIN row <=> m = n
            /\ row[<<k, n>>].status = "succeeded"
        BY <1>2, <3>3
      <3>5. <<k, n>> \in executed
        BY <1>1, <1>2 DEF IInv, ClaimsWellFormed
      <3> HIDE DEF row
      <3>6. AddsAttempt(k, n, "succeeded")
        BY <1>2, <1>4, <3>4, OneMoreAttempt
      <3>7. Completed(k)
        BY <1>2, <2>1, <2>3, <3>1, <3>2, <3>5, <3>6, AfterSuccessColumns
           DEF Completed, Unleased, IInv
      <3> QED
        BY <2>3, <3>7 DEF RowMove
    <2> QED
      BY <2>2, <2>3
  <1> QED
    BY <1>2, <1>3, <1>4 DEF MarkSucceeded, IndexAccepts

\* A commit of a failure fails one job or touches none.
LEMMA MarkFailedMoves ==
    ASSUME IInv, NEW t \in Threads, MarkFailed(t), NEW j \in Jobs
    PROVE  RowMove(j)
  <1>1. /\ threads[t].phase \in {"failed", "timed_out"}
        /\ jobs \in [Jobs -> Row]
    BY DEF MarkFailed, IInv, TypeOK
  <1>2. PICK k \in Jobs, n \in Nat, status \in {"failed", "timed_out"} :
            /\ k = threads[t].job /\ n = threads[t].attempt_no /\ status = threads[t].phase
            /\ n > 0 /\ jobs[k].status # "absent"
    BY <1>1, ClaimTyped DEF IInv
  <1> DEFINE row == [key \in {<<k, n>>} |-> AttemptRow(t, status)]
             letter == [x \in {k} |-> n]
  <1>3. CASE UNCHANGED tables
    BY <1>3, UntouchedStays DEF RowMove, tables
  <1>4. ASSUME NEW config \in BackoffConfigs, NEW time \in Readings,
               HoldsLease(t),
               ~Recorded(k, n),
               jobs' = [jobs EXCEPT ![k] = AfterFailure(k, n, time, Backoff(config, n))],
               job_attempts' = Upsert(job_attempts, row),
               dead_letters' = IF WillRetry(k, n) THEN dead_letters
                               ELSE Upsert(dead_letters, letter)
        PROVE  RowMove(j)
    <2>1. CASE j # k
      <3>1. jobs'[j] = jobs[j]
        BY <1>1, <1>4, <2>1
      <3>2. (\A m \in Nat : <<j, m>> \notin DOMAIN row) /\ j \notin DOMAIN letter
        BY <2>1
      <3> HIDE DEF row, letter
      <3>3. KeepsAttempts(j)
        BY <1>4, <3>2, OtherAttempts
      <3>4. KeepsLetter(j)
        <4>1. CASE WillRetry(k, n)
          BY <1>4, <4>1 DEF KeepsLetter
        <4>2. CASE ~WillRetry(k, n)
          BY <1>4, <3>2, <4>2, OtherLetters
        <4> QED
          BY <4>1, <4>2
      <3> QED
        BY <3>1, <3>3, <3>4 DEF RowMove, Stays
    <2>2. CASE j = k
      <3>1. n = jobs[k].attempt_count + 1 /\ jobs[k].status = "running"
        BY <1>1, <1>2, <1>4, CommitIsCurrent DEF HoldsLease
      <3>2. jobs'[k] = AfterFailure(k, n, time, Backoff(config, n))
        BY <1>1, <1>2, <1>4
      <3>3. AttemptRow(t, status).status = status
        BY DEF AttemptRow
      <3>4. /\ \A m \in Nat : <<k, m>> \in DOMAIN row <=> m = n
            /\ row[<<k, n>>].status = status
        BY <1>2, <3>3
      <3>5. k \in DOMAIN letter /\ letter[k] = n
        OBVIOUS
      <3> HIDE DEF row, letter
      <3>6. AddsAttempt(k, n, status)
        BY <1>2, <1>4, <3>4, OneMoreAttempt
      <3>7. status \in {"failed", "timed_out", "abandoned"}
        BY <1>2
      <3>8. CASE WillRetry(k, n)
        <4>1. KeepsLetter(k)
          BY <1>4, <3>8 DEF KeepsLetter
        <4>2. Failed(k)
          BY <1>2, <3>1, <3>2, <3>6, <3>7, <3>8, <4>1, AfterFailureColumns
             DEF Failed, Unleased, WillRetry, IInv
        <4> QED
          BY <2>2, <4>2 DEF RowMove
      <3>9. CASE ~WillRetry(k, n)
        <4>1. k \in DOMAIN dead_letters' /\ dead_letters'[k] = n
          BY <1>2, <1>4, <3>5, <3>9, OneMoreLetter
        <4>2. Failed(k)
          BY <1>2, <3>1, <3>2, <3>6, <3>7, <3>9, <4>1, AfterFailureColumns
             DEF Failed, Unleased, WillRetry, IInv
        <4> QED
          BY <2>2, <4>2 DEF RowMove
      <3> QED
        BY <3>8, <3>9
    <2> QED
      BY <2>1, <2>2
  <1> QED
    BY <1>2, <1>3, <1>4 DEF MarkFailed, IndexAccepts

\* The reaper fails each stale job once, in whatever state the others are.
LEMMA RecoverStaleJobsMoves ==
    ASSUME IInv, NEW t \in Threads, RecoverStaleJobs(t), NEW j \in Jobs
    PROVE  RowMove(j)
  <1>0. PICK time \in Readings :
           LET stale == StaleJobs(time)
               attempt_no(x) == jobs[x].attempt_count + 1
               exhausted == {x \in stale : ~WillRetry(x, attempt_no(x))}
               rows == {<<x, attempt_no(x)>> : x \in stale}
           IN  /\ \A x \in stale : IndexAccepts(x, attempt_no(x))
               /\ jobs' = [x \in Jobs |-> IF x \in stale
                                          THEN AfterFailure(x, attempt_no(x), time, 0)
                                          ELSE jobs[x]]
               /\ job_attempts' =
                     Upsert(job_attempts,
                            [key \in rows |-> [worker_id |-> jobs[key[1]].locked_by,
                                               status |-> "abandoned"]])
               /\ dead_letters' = Upsert(dead_letters, [x \in exhausted |-> attempt_no(x)])
    BY DEF RecoverStaleJobs
  <1> DEFINE stale == StaleJobs(time)
             attempt_no(x) == jobs[x].attempt_count + 1
             exhausted == {x \in stale : ~WillRetry(x, attempt_no(x))}
             keys == {<<x, attempt_no(x)>> : x \in stale}
             rows == [key \in keys |-> [worker_id |-> jobs[key[1]].locked_by,
                                        status |-> "abandoned"]]
             letters == [x \in exhausted |-> attempt_no(x)]
  <1>1. /\ \A x \in stale : ~Recorded(x, attempt_no(x))
        /\ jobs' = [x \in Jobs |-> IF x \in stale THEN AfterFailure(x, attempt_no(x), time, 0)
                                   ELSE jobs[x]]
        /\ job_attempts' = Upsert(job_attempts, rows)
        /\ dead_letters' = Upsert(dead_letters, letters)
    BY <1>0 DEF IndexAccepts
  <1>2. jobs[j] \in Row /\ attempt_no(j) \in Nat
    BY DEF IInv, TypeOK, Row
  <1>3. CASE j \notin stale
    <2>1. jobs'[j] = jobs[j]
      BY <1>1, <1>3
    <2>2. (\A m \in Nat : <<j, m>> \notin DOMAIN rows) /\ j \notin DOMAIN letters
      BY <1>3
    <2> HIDE DEF rows, letters
    <2>3. KeepsAttempts(j) /\ KeepsLetter(j)
      BY <1>1, <2>2, OtherAttempts, OtherLetters
    <2> QED
      BY <2>1, <2>3 DEF RowMove, Stays
  <1>4. CASE j \in stale
    <2>0. PICK n \in Nat : n = attempt_no(j)
      BY <1>2
    <2>1. jobs[j].status = "running"
      BY <1>4 DEF StaleJobs, JobsIn
    <2>2. jobs'[j] = AfterFailure(j, n, time, 0)
      BY <1>1, <1>4, <2>0
    <2>3. /\ \A m \in Nat : <<j, m>> \in DOMAIN rows <=> m = n
          /\ rows[<<j, n>>].status = "abandoned"
      BY <1>2, <1>4, <2>0
    <2>4. /\ j \in DOMAIN letters <=> ~WillRetry(j, n)
          /\ j \in DOMAIN letters => letters[j] = n
      BY <1>4, <2>0
    <2>5. ~Recorded(j, n)
      BY <1>1, <1>4, <2>0
    <2>6. n = jobs[j].attempt_count + 1 /\ n \in Nat
      BY <2>0
    <2> HIDE DEF rows, letters
    <2>7. AddsAttempt(j, n, "abandoned")
      BY <1>1, <2>3, <2>5, <2>6, OneMoreAttempt
    <2>8. /\ ~WillRetry(j, n) => j \in DOMAIN dead_letters' /\ dead_letters'[j] = n
          /\ WillRetry(j, n) => KeepsLetter(j)
      BY <1>1, <2>4, OneMoreLetter, OtherLetters
    <2>9. Failed(j)
      BY <2>1, <2>2, <2>6, <2>7, <2>8, AfterFailureColumns
         DEF Failed, Unleased, WillRetry, IInv
    <2> QED
      BY <2>9 DEF RowMove
  <1> QED
    BY <1>3, <1>4

\* Every step moves every job in one of the six ways.
LEMMA StepMoves ==
    ASSUME IInv, [Next]_vars, NEW j \in Jobs
    PROVE  RowMove(j)
  <1>1. CASE UNCHANGED vars
    BY <1>1, UntouchedStays DEF vars, RowMove
  <1>2. CASE ApiStep
    BY <1>2, ApiStepMoves
  <1>3. ASSUME NEW t \in Threads,
               StartThread(t) \/ CrashThread(t) \/ BeginAttempt(t) \/ FinishAttempt(t)
        PROVE  RowMove(j)
    BY <1>3, UntouchedStays
       DEF RowMove, StartThread, CrashThread, BeginAttempt, FinishAttempt, tables
  <1>4. ASSUME NEW t \in Threads,
               ClaimNextJob(t) \/ MarkSucceeded(t) \/ MarkFailed(t) \/ RecoverStaleJobs(t)
        PROVE  RowMove(j)
    BY <1>4, ClaimNextJobMoves, MarkSucceededMoves, MarkFailedMoves, RecoverStaleJobsMoves
  <1>5. CASE Tick
    BY <1>5, TickMoves
  <1> QED
    BY <1>1, <1>2, <1>3, <1>4, <1>5 DEF Next, WorkStep

-----------------------------------------------------------------------------
(* The invariants about rows, from what a step does to one job *)

\* An attempt is in the history exactly when its number is not above attempt_count.
LEMMA RecordedByCount ==
    ASSUME IInv, NEW j \in Jobs, NEW n \in Nat
    PROVE  /\ jobs[j].attempt_count \in Nat
           /\ Recorded(j, n) <=> (1 <= n /\ n <= jobs[j].attempt_count)
  <1>1. jobs \in [Jobs -> Row] /\ DOMAIN job_attempts \subseteq Jobs \X Nat
    BY DEF IInv, TypeOK, AttemptKey
  <1>2. \A k \in Jobs, m \in Nat :
           <<k, m>> \in DOMAIN job_attempts <=> (1 <= m /\ m <= jobs[k].attempt_count)
    BY <1>1, LedgerByAttempt DEF IInv, AttemptLedger
  <1> QED
    BY <1>1, <1>2 DEF Recorded, Row

\* Every row move keeps the history complete.
LEMMA AttemptLedgerStep ==
    ASSUME IInv, TypeOK', \A j \in Jobs : RowMove(j)
    PROVE  AttemptLedger'
  <1>1. ASSUME NEW j \in Jobs, NEW n \in Nat
        PROVE  Recorded(j, n)' <=> (1 <= n /\ n <= jobs'[j].attempt_count)
    <2>1. /\ jobs[j].attempt_count \in Nat
          /\ Recorded(j, n) <=> (1 <= n /\ n <= jobs[j].attempt_count)
      BY <1>1, RecordedByCount
    <2>2. CASE Stays(j) \/ Withdrawn(j) \/ Leased(j)
      BY <2>1, <2>2 DEF Stays, Withdrawn, Leased, KeepsAttempts
    <2>3. CASE Accepted(j)
      <3>1. jobs[j].attempt_count = 0
        BY <2>3 DEF Accepted, IInv, BudgetsRequested
      <3> QED
        BY <2>1, <2>3, <3>1 DEF Accepted, KeepsAttempts
    <2>4. CASE Completed(j) \/ Failed(j)
      <3>1. /\ Recorded(j, n)' <=> Recorded(j, n) \/ n = jobs[j].attempt_count + 1
            /\ jobs'[j].attempt_count = jobs[j].attempt_count + 1
        BY <2>4 DEF Completed, Failed, AddsAttempt
      <3> QED
        BY <2>1, <3>1
    <2> QED
      BY <1>1, <2>2, <2>3, <2>4 DEF RowMove
  <1>2. jobs' \in [Jobs -> Row] /\ DOMAIN job_attempts' \subseteq Jobs \X Nat
    BY DEF TypeOK, AttemptKey
  <1>3. DOMAIN job_attempts' = UNION {{j} \X (1..jobs'[j].attempt_count) : j \in Jobs} <=>
             \A j \in Jobs, n \in Nat :
                <<j, n>> \in DOMAIN job_attempts' <=> (1 <= n /\ n <= jobs'[j].attempt_count)
    BY <1>2, LedgerByAttempt
  <1> QED
    BY <1>1, <1>3 DEF AttemptLedger, Recorded

\* Every row move keeps leases, dead letters and budgets consistent.
LEMMA RowInvariantsStep ==
    ASSUME IInv, TypeOK', \A j \in Jobs : RowMove(j)
    PROVE  LeaseIffRunning' /\ DeadLetterExact' /\ BudgetsRequested'
  <1>1. ASSUME NEW j \in Jobs
        PROVE  /\ jobs'[j].status = "running" <=> jobs'[j].locked_by # NoWorker
               /\ jobs'[j].status = "running" <=> jobs'[j].locked_at # NoTime
    <2>1. RowMove(j)
      OBVIOUS
    <2> QED
      BY <2>1 DEF RowMove, Stays, Accepted, Withdrawn, Leased, Completed, Failed, Unleased,
                  IInv, LeaseIffRunning
  <1>2. ASSUME NEW j \in Jobs
        PROVE  /\ j \in DOMAIN dead_letters' <=> jobs'[j].status = "dead_lettered"
               /\ jobs'[j].status = "dead_lettered" =>
                     dead_letters'[j] = jobs'[j].attempt_count
                     /\ jobs'[j].attempt_count = jobs'[j].max_retries + 1
               /\ jobs'[j].status \in {"queued", "running", "cancelled"} =>
                     jobs'[j].attempt_count <= jobs'[j].max_retries
    <2>1. /\ j \in DOMAIN dead_letters <=> jobs[j].status = "dead_lettered"
          /\ jobs[j].status = "dead_lettered" =>
                dead_letters[j] = jobs[j].attempt_count
                /\ jobs[j].attempt_count = jobs[j].max_retries + 1
          /\ jobs[j].status \in {"queued", "running", "cancelled"} =>
                jobs[j].attempt_count <= jobs[j].max_retries
          /\ jobs[j].attempt_count \in Nat /\ jobs[j].max_retries \in Nat
      BY DEF IInv, DeadLetterExact, TypeOK, Row
    <2>2. CASE Stays(j) \/ Withdrawn(j) \/ Leased(j)
      BY <2>1, <2>2 DEF Stays, Withdrawn, Leased, KeepsLetter
    <2>3. CASE Accepted(j)
      <3>1. jobs'[j].max_retries \in Nat
        BY <2>3, RequestAssumption DEF Accepted
      <3>2. 0 <= jobs'[j].max_retries
        BY <3>1
      <3> QED
        BY <2>1, <2>3, <3>2 DEF Accepted, KeepsLetter
    <2>4. CASE Completed(j)
      BY <2>1, <2>4 DEF Completed, KeepsLetter
    <2>5. CASE Failed(j)
      <3>1. jobs[j].attempt_count <= jobs[j].max_retries
        BY <2>1, <2>5 DEF Failed
      <3>2. CASE jobs[j].attempt_count + 1 <= jobs[j].max_retries
        BY <2>1, <2>5, <3>2 DEF Failed, KeepsLetter
      <3>3. CASE ~(jobs[j].attempt_count + 1 <= jobs[j].max_retries)
        <4>1. jobs[j].attempt_count + 1 = jobs[j].max_retries + 1
          BY <2>1, <3>1, <3>3
        <4> QED
          BY <2>1, <2>5, <3>3, <4>1 DEF Failed
      <3> QED
        BY <3>2, <3>3
    <2> QED
      BY <1>2, <2>2, <2>3, <2>4, <2>5 DEF RowMove
  <1>3. ASSUME NEW j \in Jobs
        PROVE  /\ jobs'[j].status # "absent" => jobs'[j].max_retries \in RetryLimits
               /\ jobs'[j].status = "absent" => jobs'[j].attempt_count = 0
    <2>1. RowMove(j)
      OBVIOUS
    <2> QED
      BY <2>1 DEF RowMove, Stays, Accepted, Withdrawn, Leased, Completed, Failed,
                  IInv, BudgetsRequested
  <1> QED
    BY <1>1, <1>2, <1>3 DEF LeaseIffRunning, DeadLetterExact, BudgetsRequested

\* Every row move keeps the stored result the only recorded success.
LEMMA ResultStep ==
    ASSUME IInv, TypeOK', \A j \in Jobs : RowMove(j), executed \subseteq executed'
    PROVE  ResultIsOfLastSuccess'
  <1> SUFFICES ASSUME NEW j \in Jobs
               PROVE  /\ jobs'[j].result # NoResult <=> jobs'[j].status = "succeeded"
                      /\ jobs'[j].status = "succeeded" =>
                            /\ jobs'[j].result = jobs'[j].attempt_count
                            /\ <<j, jobs'[j].result>> \in executed'
                      /\ \A n \in 1..jobs'[j].attempt_count :
                            job_attempts'[<<j, n>>].status = "succeeded" <=> jobs'[j].result = n
    BY DEF ResultIsOfLastSuccess
  <1>1. /\ jobs[j].result # NoResult <=> jobs[j].status = "succeeded"
        /\ jobs[j].status = "succeeded" =>
              /\ jobs[j].result = jobs[j].attempt_count
              /\ <<j, jobs[j].result>> \in executed
        /\ \A n \in 1..jobs[j].attempt_count :
              job_attempts[<<j, n>>].status = "succeeded" <=> jobs[j].result = n
    BY DEF IInv, ResultIsOfLastSuccess
  <1>2. /\ jobs[j].attempt_count \in Nat /\ jobs[j].result \in Nat
        /\ \A n \in 1..jobs[j].attempt_count : n \in Nat /\ Recorded(j, n)
    BY RecordedByCount DEF IInv, TypeOK, Row
  <1>3. CASE Stays(j) \/ Withdrawn(j) \/ Leased(j)
    BY <1>1, <1>2, <1>3 DEF Stays, Withdrawn, Leased, KeepsAttempts
  <1>4. CASE Accepted(j)
    BY <1>4 DEF Accepted
  <1>5. CASE Completed(j)
    <2> DEFINE n == jobs[j].attempt_count + 1
    <2>1. /\ jobs'[j].status = "succeeded" /\ jobs'[j].result = n
          /\ jobs'[j].attempt_count = n /\ <<j, n>> \in executed
          /\ job_attempts'[<<j, n>>].status = "succeeded"
          /\ jobs[j].result = NoResult
          /\ \A m \in Nat : Recorded(j, m) => job_attempts'[<<j, m>>] = job_attempts[<<j, m>>]
      BY <1>1, <1>5 DEF Completed, AddsAttempt
    <2>2. \A m \in 1..n : m = n \/ m \in 1..jobs[j].attempt_count
      BY <1>2
    <2>3. \A m \in 1..jobs[j].attempt_count :
             m # n /\ m # 0 /\ job_attempts'[<<j, m>>] = job_attempts[<<j, m>>]
      BY <1>2, <2>1
    <2>4. \A m \in 1..n : job_attempts'[<<j, m>>].status = "succeeded" <=> n = m
      BY <1>1, <2>1, <2>2, <2>3
    <2>5. n # 0
      BY <1>2
    <2> HIDE DEF n
    <2> QED
      BY <2>1, <2>4, <2>5
  <1>6. CASE Failed(j)
    <2> DEFINE n == jobs[j].attempt_count + 1
    <2>1. /\ jobs'[j].status # "succeeded" /\ jobs'[j].result = NoResult
          /\ jobs'[j].attempt_count = n
          /\ job_attempts'[<<j, n>>].status # "succeeded"
          /\ jobs[j].result = NoResult
          /\ \A m \in Nat : Recorded(j, m) => job_attempts'[<<j, m>>] = job_attempts[<<j, m>>]
      BY <1>1, <1>6 DEF Failed, AddsAttempt
    <2>2. \A m \in 1..n : m = n \/ m \in 1..jobs[j].attempt_count
      BY <1>2
    <2>3. \A m \in 1..jobs[j].attempt_count :
             m # 0 /\ job_attempts'[<<j, m>>] = job_attempts[<<j, m>>]
      BY <1>2, <2>1
    <2>4. \A m \in 1..n : job_attempts'[<<j, m>>].status # "succeeded" /\ m # 0
      BY <1>1, <1>2, <2>1, <2>2, <2>3
    <2> HIDE DEF n
    <2> QED
      BY <2>1, <2>4
  <1> QED
    BY <1>3, <1>4, <1>5, <1>6 DEF RowMove

-----------------------------------------------------------------------------
(* What a step does to one thread's claim *)

Free(u) == threads[u].phase \in {"stopped", "idle"}

Releases(u) == Free(u)'

SameClaim(u) ==
    /\ ~Free(u)
    /\ threads'[u].job = threads[u].job
    /\ threads'[u].attempt_no = threads[u].attempt_no

Continues(u) ==
    /\ SameClaim(u)
    /\ ~Free(u)'
    /\ threads'[u].phase = "claimed" <=> threads[u].phase = "claimed"

Begins(u) ==
    /\ SameClaim(u)
    /\ threads[u].phase = "claimed"
    /\ threads'[u].phase = "executing"
    /\ executed' = executed \cup {<<threads[u].job, threads[u].attempt_no>>}

Claims(u) ==
    /\ threads'[u].phase = "claimed"
    /\ threads'[u].job \in Jobs
    /\ jobs[threads'[u].job].status = "queued"
    /\ threads'[u].attempt_no = jobs[threads'[u].job].attempt_count + 1
    /\ jobs'[threads'[u].job].status = "running"
    /\ jobs'[threads'[u].job].locked_by = WorkerId[u]
    /\ jobs'[threads'[u].job].attempt_count = jobs[threads'[u].job].attempt_count
    /\ executed' = executed
    /\ \A v \in Threads : v # u => threads'[v] = threads[v]

ThreadMove(u) == Releases(u) \/ Continues(u) \/ Begins(u) \/ Claims(u)

\* A thread a step does not mention.
LEMMA UntouchedThread ==
    ASSUME NEW u \in Threads, threads'[u] = threads[u]
    PROVE  ThreadMove(u)
  BY DEF ThreadMove, Releases, Continues, SameClaim, Free

\* A thread that goes idle or dies gives its claim up; the others keep theirs.
LEMMA ReleasedThread ==
    ASSUME TypeOK, NEW t \in Threads, NEW phase \in {"stopped", "idle"},
           threads' = [threads EXCEPT ![t] = NoClaim(phase)],
           NEW u \in Threads
    PROVE  ThreadMove(u)
  <1>1. CASE u = t
    BY <1>1 DEF TypeOK, NoClaim, ThreadMove, Releases, Free
  <1>2. CASE u # t
    BY <1>2, UntouchedThread DEF TypeOK
  <1> QED
    BY <1>1, <1>2

\* A thread that learns an outcome keeps its claim.
LEMMA AdvancedThread ==
    ASSUME TypeOK, NEW t \in Threads,
           threads[t].phase \notin {"stopped", "idle", "claimed"},
           NEW phase \in {"succeeded", "failed", "timed_out"},
           threads' = [threads EXCEPT ![t].phase = phase],
           NEW u \in Threads
    PROVE  ThreadMove(u)
  <1>1. CASE u = t
    <2>1. threads[t] \in Thread /\ threads'[t] = [threads[t] EXCEPT !.phase = phase]
      BY DEF TypeOK
    <2>2. /\ threads'[t].phase = phase
          /\ threads'[t].job = threads[t].job
          /\ threads'[t].attempt_no = threads[t].attempt_no
      BY <2>1 DEF Thread
    <2> QED
      BY <1>1, <2>2 DEF ThreadMove, Continues, SameClaim, Free
  <1>2. CASE u # t
    BY <1>2, UntouchedThread DEF TypeOK
  <1> QED
    BY <1>1, <1>2

\* The submission of a handler is the start of its attempt.
LEMMA BeginAttemptThreads ==
    ASSUME IInv, NEW t \in Threads, BeginAttempt(t)
    PROVE  (\A u \in Threads : ThreadMove(u)) /\ Begins(t)
  <1>1. threads[t] \in Thread /\ threads \in [Threads -> Thread]
    BY DEF IInv, TypeOK
  <1>2. threads'[t] = [threads[t] EXCEPT !.phase = "executing"]
    BY <1>1 DEF BeginAttempt
  <1>3. Begins(t)
    <2>1. /\ threads'[t].phase = "executing"
          /\ threads'[t].job = threads[t].job
          /\ threads'[t].attempt_no = threads[t].attempt_no
      BY <1>1, <1>2 DEF Thread
    <2> QED
      BY <2>1 DEF BeginAttempt, Begins, SameClaim, Free
  <1>4. \A u \in Threads : u # t => threads'[u] = threads[u]
    BY <1>1 DEF BeginAttempt
  <1> QED
    BY <1>3, <1>4, UntouchedThread DEF ThreadMove

\* The claiming thread holds a claim afterwards, or died with the claim committed.
LEMMA ClaimNextJobThreads ==
    ASSUME IInv, NEW t \in Threads, ClaimNextJob(t), NEW u \in Threads
    PROVE  ThreadMove(u)
  <1>1. PICK time \in Readings, j \in Jobs :
          /\ j \in NextJobs(time)
          /\ jobs' = [jobs EXCEPT ![j].status = "running",
                                  ![j].locked_by = WorkerId[t],
                                  ![j].locked_at = time]
          /\ \/ threads' = [threads EXCEPT ![t] =
                               [phase |-> "claimed", job |-> j,
                                attempt_no |-> jobs[j].attempt_count + 1]]
             \/ threads' = [threads EXCEPT ![t] = NoClaim("stopped")]
    BY DEF ClaimNextJob, NextJobs, DueJobs, JobsIn
  <1>2. /\ j \in Jobs /\ jobs[j].status = "queued" /\ jobs[j] \in Row
        /\ threads \in [Threads -> Thread] /\ jobs \in [Jobs -> Row]
        /\ executed' = executed
    BY <1>1 DEF ClaimNextJob, NextJobs, DueJobs, JobsIn, IInv, TypeOK
  <1>3. CASE threads' = [threads EXCEPT ![t] = NoClaim("stopped")]
    BY <1>3, ReleasedThread DEF IInv
  <1>4. CASE threads' = [threads EXCEPT ![t] =
                           [phase |-> "claimed", job |-> j,
                            attempt_no |-> jobs[j].attempt_count + 1]]
    <2>1. jobs'[j] = [jobs[j] EXCEPT !.status = "running", !.locked_by = WorkerId[t],
                                     !.locked_at = time]
      BY <1>1, <1>2
    <2>2. /\ jobs'[j].status = "running"
          /\ jobs'[j].locked_by = WorkerId[t]
          /\ jobs'[j].attempt_count = jobs[j].attempt_count
      BY <1>2, <2>1 DEF Row
    <2>3. /\ threads'[t].phase = "claimed" /\ threads'[t].job = j
          /\ threads'[t].attempt_no = jobs[j].attempt_count + 1
          /\ \A v \in Threads : v # t => threads'[v] = threads[v]
      BY <1>2, <1>4
    <2>4. Claims(t)
      BY <1>2, <2>2, <2>3 DEF Claims
    <2> QED
      BY <2>3, <2>4, UntouchedThread DEF ThreadMove
  <1> QED
    BY <1>1, <1>3, <1>4

\* Time takes no claim away.
LEMMA TickThreads ==
    ASSUME Tick, NEW u \in Threads
    PROVE  ThreadMove(u)
  BY UntouchedThread DEF Tick

\* Every step moves every thread's claim in one of four ways, and only the start of
\* a handler adds to the executed attempts.
LEMMA StepThreads ==
    ASSUME IInv, [Next]_vars
    PROVE  /\ \A u \in Threads : ThreadMove(u)
           /\ executed' = executed \/ \E t \in Threads : Begins(t)
  <1>1. CASE UNCHANGED vars
    BY <1>1, UntouchedThread DEF vars
  <1>2. CASE ApiStep
    BY <1>2, UntouchedThread DEF ApiStep, CreateJob, CancelJob, CreateJobsBatch, DrainQueue
  <1>3. ASSUME NEW t \in Threads, StartThread(t) \/ CrashThread(t)
        PROVE  executed' = executed /\ \A u \in Threads : ThreadMove(u)
    BY <1>3, ReleasedThread DEF StartThread, CrashThread, IInv
  <1>4. ASSUME NEW t \in Threads, ClaimNextJob(t)
        PROVE  executed' = executed /\ \A u \in Threads : ThreadMove(u)
    BY <1>4, ClaimNextJobThreads DEF ClaimNextJob
  <1>5. ASSUME NEW t \in Threads, FinishAttempt(t)
        PROVE  executed' = executed /\ \A u \in Threads : ThreadMove(u)
    BY <1>5, AdvancedThread DEF FinishAttempt, IInv
  <1>6. ASSUME NEW t \in Threads, MarkSucceeded(t)
        PROVE  executed' = executed /\ \A u \in Threads : ThreadMove(u)
    <2>1. threads' = [threads EXCEPT ![t] = NoClaim("idle")]
          \/ threads' = [threads EXCEPT ![t].phase = "failed"]
      BY <1>6 DEF MarkSucceeded
    <2> QED
      BY <1>6, <2>1, ReleasedThread, AdvancedThread DEF MarkSucceeded, IInv
  <1>7. ASSUME NEW t \in Threads, MarkFailed(t)
        PROVE  executed' = executed /\ \A u \in Threads : ThreadMove(u)
    <2>1. PICK phase \in {"stopped", "idle"} : threads' = [threads EXCEPT ![t] = NoClaim(phase)]
      BY <1>7 DEF MarkFailed
    <2> QED
      BY <1>7, <2>1, ReleasedThread DEF MarkFailed, IInv
  <1>8. ASSUME NEW t \in Threads, RecoverStaleJobs(t)
        PROVE  executed' = executed /\ \A u \in Threads : ThreadMove(u)
    BY <1>8, UntouchedThread DEF RecoverStaleJobs
  <1>9. ASSUME NEW t \in Threads, BeginAttempt(t)
        PROVE  Begins(t) /\ \A u \in Threads : ThreadMove(u)
    BY <1>9, BeginAttemptThreads
  <1>10. CASE Tick
    BY <1>10, TickThreads DEF Tick
  <1> QED
    BY <1>1, <1>2, <1>3, <1>4, <1>5, <1>6, <1>7, <1>8, <1>9, <1>10 DEF Next, WorkStep

-----------------------------------------------------------------------------
(* The invariants about claims *)

\* A claim whose attempt nobody has recorded survives a step with its lease, or the
\* step records the attempt.
LEMMA ClaimSurvives ==
    ASSUME IInv, NEW u \in Threads, SameClaim(u),
           NEW j \in Jobs, NEW n \in Nat,
           threads[u].job = j, threads[u].attempt_no = n, RowMove(j)
    PROVE  \/ Recorded(j, n)'
           \/ /\ n = jobs'[j].attempt_count + 1
              /\ jobs'[j].status = "running"
              /\ jobs'[j].locked_by = WorkerId[u]
  <1>1. CASE Recorded(j, n)
    <2>1. KeepsAttempts(j) \/ \E m \in Nat, status \in AttemptStatus : AddsAttempt(j, m, status)
      BY RecordedByCount
         DEF RowMove, Stays, Accepted, Withdrawn, Leased, Completed, Failed
    <2> QED
      BY <1>1, <2>1 DEF KeepsAttempts, AddsAttempt
  <1>2. CASE ~Recorded(j, n)
    <2>1. /\ n = jobs[j].attempt_count + 1
          /\ jobs[j].status = "running"
          /\ jobs[j].locked_by = WorkerId[u]
      BY <1>2, CommitIsCurrent DEF SameClaim, Free, HoldsLease
    <2>2. Stays(j) \/ Completed(j) \/ Failed(j)
      BY <2>1 DEF RowMove, Accepted, Withdrawn, Leased
    <2>3. CASE Stays(j)
      BY <2>1, <2>3 DEF Stays
    <2>4. CASE Completed(j) \/ Failed(j)
      <3>1. \E status \in AttemptStatus : AddsAttempt(j, n, status)
        BY <2>1, <2>4 DEF Completed, Failed
      <3> QED
        BY <3>1 DEF AddsAttempt
    <2> QED
      BY <2>2, <2>3, <2>4
  <1> QED
    BY <1>1, <1>2

\* ClaimCurrentOrRecorded is preserved: a surviving claim by ClaimSurvives, a fresh
\* one because its job was queued.
LEMMA ClaimCurrentStep ==
    ASSUME IInv, [Next]_vars
    PROVE  ClaimCurrentOrRecorded'
  <1> SUFFICES ASSUME NEW u \in Threads, NEW j \in Jobs, NEW n, ~Free(u)',
                      threads'[u].job = j, threads'[u].attempt_no = n, ~Recorded(j, n)'
               PROVE  /\ n = jobs'[j].attempt_count + 1
                      /\ jobs'[j].status = "running"
                      /\ jobs'[j].locked_by = WorkerId[u]
    BY DEF ClaimCurrentOrRecorded, Holds, HoldsLease, Free
  <1>1. ThreadMove(u)
    BY StepThreads
  <1>2. CASE SameClaim(u)
    <2>1. threads[u].job = j /\ threads[u].attempt_no = n /\ n \in Nat
      BY <1>2, ClaimTyped DEF SameClaim, Free, IInv
    <2>2. RowMove(j)
      BY StepMoves
    <2> QED
      BY <1>2, <2>1, <2>2, ClaimSurvives
  <1>3. CASE Claims(u)
    BY <1>3 DEF Claims
  <1> QED
    BY <1>1, <1>2, <1>3 DEF ThreadMove, Releases, Continues, Begins

\* A fresh claim is for an attempt no other thread holds.
LEMMA FreshClaim ==
    ASSUME IInv, NEW t \in Threads, Claims(t), NEW u \in Threads, ~Free(u)
    PROVE  ~(threads[u].job = threads'[t].job /\ threads[u].attempt_no = threads'[t].attempt_no)
  <1> SUFFICES ASSUME threads[u].job = threads'[t].job,
                      threads[u].attempt_no = threads'[t].attempt_no
               PROVE  FALSE
    OBVIOUS
  <1>1. /\ threads[u].job \in Jobs /\ threads[u].attempt_no \in Nat
        /\ jobs[threads[u].job].status = "queued"
        /\ threads[u].attempt_no = jobs[threads[u].job].attempt_count + 1
    BY ClaimTyped DEF Claims, IInv, Free
  <1>2. ~Recorded(threads[u].job, threads[u].attempt_no)
    BY <1>1, RecordedByCount
  <1> QED
    BY <1>1, <1>2, CommitIsCurrent DEF HoldsLease, Free

\* SingleOwner is preserved: claims only appear where FreshClaim allows.
LEMMA SingleOwnerStep ==
    ASSUME IInv, [Next]_vars
    PROVE  SingleOwner'
  <1> SUFFICES ASSUME NEW t \in Threads, NEW u \in Threads, t # u,
                      ~Free(t)', ~Free(u)',
                      threads'[t].job = threads'[u].job,
                      threads'[t].attempt_no = threads'[u].attempt_no,
                      threads'[t].job \in Jobs
               PROVE  FALSE
    BY DEF SingleOwner, Holds, Free
  <1>1. ThreadMove(t) /\ ThreadMove(u)
    BY StepThreads
  <1>2. CASE SameClaim(t) /\ SameClaim(u)
    BY <1>2 DEF SameClaim, Free, IInv, SingleOwner, Holds
  <1>3. CASE Claims(t)
    <2>1. threads'[u] = threads[u]
      BY <1>3 DEF Claims
    <2> QED
      BY <1>3, <2>1, FreshClaim DEF Free
  <1>4. CASE Claims(u)
    <2>1. threads'[t] = threads[t]
      BY <1>4 DEF Claims
    <2> QED
      BY <1>4, <2>1, FreshClaim DEF Free
  <1> QED
    BY <1>1, <1>2, <1>3, <1>4 DEF ThreadMove, Releases, Continues, Begins

\* The attempts of a job that were started, before and after a step.
LEMMA StartedAttempt ==
    ASSUME IInv, NEW j \in Jobs, NEW n \in Nat, <<j, n>> \in executed
    PROVE  \/ n <= jobs[j].attempt_count
           \/ n = jobs[j].attempt_count + 1 /\ jobs[j].status = "running"
  BY DEF IInv, ExecutedAttempts

\* ClaimsWellFormed is preserved.
LEMMA ClaimsWellFormedStep ==
    ASSUME IInv, [Next]_vars
    PROVE  ClaimsWellFormed'
  <1> SUFFICES ASSUME NEW u \in Threads, ~Free(u)'
               PROVE  /\ threads'[u].job \in Jobs
                      /\ threads'[u].attempt_no > 0
                      /\ jobs'[threads'[u].job].status # "absent"
                      /\ IF threads'[u].phase = "claimed"
                         THEN <<threads'[u].job, threads'[u].attempt_no>> \notin executed'
                         ELSE <<threads'[u].job, threads'[u].attempt_no>> \in executed'
    BY DEF ClaimsWellFormed, Free
  <1>1. /\ ThreadMove(u)
        /\ executed' = executed \/ \E t \in Threads : Begins(t)
    BY StepThreads
  <1>2. CASE SameClaim(u)
    <2>1. PICK j \in Jobs, n \in Nat :
              /\ threads[u].job = j /\ threads[u].attempt_no = n
              /\ threads'[u].job = j /\ threads'[u].attempt_no = n
              /\ n > 0 /\ jobs[j].status # "absent"
      BY <1>2, ClaimTyped DEF SameClaim, Free, IInv
    <2>2. jobs'[j].status # "absent"
      BY <2>1, StepMoves DEF RowMove, Stays, Accepted, Withdrawn, Leased, Completed, Failed
    <2>3. CASE threads[u].phase = "claimed" /\ threads'[u].phase = "claimed"
      <3>1. <<j, n>> \notin executed
        BY <2>1, <2>3 DEF IInv, ClaimsWellFormed
      <3>2. ASSUME NEW t \in Threads, Begins(t)
            PROVE  <<threads[t].job, threads[t].attempt_no>> # <<j, n>>
        <4>1. t # u
          BY <2>3, <3>2 DEF Begins
        <4> QED
          BY <1>2, <2>1, <3>2, <4>1 DEF Begins, SameClaim, Free, IInv, SingleOwner, Holds
      <3>3. <<j, n>> \notin executed'
        BY <1>1, <3>1, <3>2 DEF Begins
      <3> QED
        BY <2>1, <2>2, <2>3, <3>3
    <2>4. CASE threads[u].phase # "claimed" /\ threads'[u].phase # "claimed"
      <3>1. <<j, n>> \in executed
        BY <1>2, <2>1, <2>4 DEF IInv, ClaimsWellFormed, SameClaim, Free
      <3>2. <<j, n>> \in executed'
        BY <1>1, <3>1 DEF Begins
      <3> QED
        BY <2>1, <2>2, <2>4, <3>2
    <2>5. CASE Begins(u)
      BY <2>1, <2>2, <2>5 DEF Begins
    <2>6. CASE Claims(u)
      BY <1>2, <2>1, <2>6, FreshClaim DEF SameClaim
    <2> QED
      BY <1>1, <2>3, <2>4, <2>5, <2>6 DEF ThreadMove, Releases, Continues
  <1>3. CASE Claims(u)
    <2>1. PICK k \in Jobs :
          /\ k = threads'[u].job /\ jobs[k].status = "queued" /\ jobs[k].attempt_count \in Nat
          /\ threads'[u].attempt_no = jobs[k].attempt_count + 1
          /\ jobs'[k].status = "running" /\ executed' = executed
          /\ threads'[u].phase = "claimed"
      BY <1>3 DEF Claims, IInv, TypeOK, Row
    <2>2. <<k, jobs[k].attempt_count + 1>> \notin executed
      BY <2>1, StartedAttempt
    <2> QED
      BY <2>1, <2>2
  <1> QED
    BY <1>1, <1>2, <1>3 DEF ThreadMove, Releases, Continues, Begins

\* ExecutedAttempts is preserved: a started attempt stays current until it is recorded.
LEMMA ExecutedAttemptsStep ==
    ASSUME IInv, TypeOK', [Next]_vars
    PROVE  ExecutedAttempts'
  <1> SUFFICES ASSUME NEW j \in Jobs, NEW n \in Nat, <<j, n>> \in executed'
               PROVE  \/ n <= jobs'[j].attempt_count
                      \/ n = jobs'[j].attempt_count + 1 /\ jobs'[j].status = "running"
    <2>1. \A e \in executed' : e[2] \in Nat
      BY DEF TypeOK, AttemptKey
    <2> QED
      BY <2>1 DEF ExecutedAttempts
  <1>1. \/ n <= jobs[j].attempt_count
        \/ n = jobs[j].attempt_count + 1 /\ jobs[j].status = "running"
    <2>1. CASE <<j, n>> \in executed
      BY <2>1, StartedAttempt
    <2>2. CASE <<j, n>> \notin executed
      <3>1. PICK t \in Threads : /\ ~Free(t)
                                 /\ threads[t].job = j
                                 /\ threads[t].attempt_no = n
        BY <2>2, StepThreads DEF Begins, SameClaim
      <3>2. Recorded(j, n) => n <= jobs[j].attempt_count
        BY RecordedByCount
      <3> QED
        BY <3>1, <3>2, CommitIsCurrent DEF Free, HoldsLease
    <2> QED
      BY <2>1, <2>2
  <1>2. RowMove(j) /\ jobs[j].attempt_count \in Nat
    BY StepMoves DEF IInv, TypeOK, Row
  <1>3. CASE Stays(j)
    BY <1>1, <1>3 DEF Stays
  <1>4. CASE Withdrawn(j) \/ Leased(j)
    BY <1>1, <1>2, <1>4 DEF Withdrawn, Leased
  <1>5. CASE Accepted(j)
    <2>1. jobs[j].attempt_count = 0
      BY <1>5 DEF Accepted, IInv, BudgetsRequested
    <2> QED
      BY <1>1, <1>5, <2>1 DEF Accepted
  <1>6. CASE Completed(j) \/ Failed(j)
    <2>1. jobs'[j].attempt_count = jobs[j].attempt_count + 1
      BY <1>6 DEF Completed, Failed
    <2> QED
      BY <1>1, <1>2, <2>1
  <1> QED
    BY <1>2, <1>3, <1>4, <1>5, <1>6 DEF RowMove

-----------------------------------------------------------------------------
(* The inductive invariant *)

\* Every step keeps the tables and threads well typed.
LEMMA NextTyped ==
    ASSUME IInv, [Next]_vars
    PROVE  TypeOK'
  <1>1. TypeOK /\ ClaimsWellFormed /\ BudgetsRequested /\ LeaseIffRunning
    BY DEF IInv
  <1>2. CASE UNCHANGED vars
    BY <1>1, <1>2 DEF vars, TypeOK
  <1>3. CASE ApiStep
    BY <1>1, <1>3, ApiStepTyped
  <1>4. ASSUME NEW t \in Threads,
               StartThread(t) \/ CrashThread(t) \/ BeginAttempt(t) \/ FinishAttempt(t)
        PROVE  TypeOK'
    BY <1>1, <1>4, LifeStepTyped
  <1>5. ASSUME NEW t \in Threads,
               ClaimNextJob(t) \/ MarkSucceeded(t) \/ MarkFailed(t) \/ RecoverStaleJobs(t)
        PROVE  TypeOK'
    BY <1>1, <1>5, ClaimNextJobTyped, MarkSucceededTyped, MarkFailedTyped, RecoverStaleJobsTyped
  <1>6. CASE Tick
    BY <1>1, <1>6, TickTyped
  <1> QED
    BY <1>2, <1>3, <1>4, <1>5, <1>6 DEF Next, WorkStep

\* The empty database satisfies the inductive invariant.
LEMMA InitIInv ==
    Init => IInv
  <1> SUFFICES ASSUME Init PROVE IInv
    OBVIOUS
  <1>1. /\ \A j \in Jobs : /\ jobs[j].status = "absent"
                           /\ jobs[j].attempt_count = 0
                           /\ jobs[j].locked_by = NoWorker
                           /\ jobs[j].locked_at = NoTime
                           /\ jobs[j].result = NoResult
        /\ DOMAIN job_attempts = {} /\ DOMAIN dead_letters = {}
        /\ \A t \in Threads : threads[t].phase = "stopped"
        /\ executed = {}
    BY DEF Init, NoRow, NoClaim
  <1>2. NoRow \in Row /\ NoClaim("stopped") \in Thread
    BY NoClaimTyped DEF NoRow, Row
  <1>3. TypeOK
    BY <1>1, <1>2 DEF Init, TypeOK
  <1>4. AttemptLedger
    <2>1. jobs \in [Jobs -> Row] /\ DOMAIN job_attempts \subseteq Jobs \X Nat
      BY <1>3 DEF TypeOK, AttemptKey
    <2>2. \A j \in Jobs, n \in Nat :
             <<j, n>> \in DOMAIN job_attempts <=> (1 <= n /\ n <= jobs[j].attempt_count)
      BY <1>1
    <2> QED
      BY <2>1, <2>2, LedgerByAttempt DEF AttemptLedger
  <1>5. LeaseIffRunning /\ DeadLetterExact /\ ResultIsOfLastSuccess /\ BudgetsRequested
    BY <1>1 DEF LeaseIffRunning, DeadLetterExact, ResultIsOfLastSuccess, BudgetsRequested
  <1>6. ClaimCurrentOrRecorded /\ SingleOwner /\ ClaimsWellFormed /\ ExecutedAttempts
    BY <1>1 DEF ClaimCurrentOrRecorded, SingleOwner, ClaimsWellFormed, ExecutedAttempts, Holds
  <1> QED
    BY <1>3, <1>4, <1>5, <1>6 DEF IInv

\* Every step preserves the inductive invariant.
LEMMA NextIInv ==
    IInv /\ [Next]_vars => IInv'
  <1> SUFFICES ASSUME IInv, [Next]_vars PROVE IInv'
    OBVIOUS
  <1>1. TypeOK'
    BY NextTyped
  <1>2. \A j \in Jobs : RowMove(j)
    BY StepMoves
  <1>3. executed \subseteq executed'
    BY StepThreads DEF Begins
  <1>4. AttemptLedger'
    BY <1>1, <1>2, AttemptLedgerStep
  <1>5. LeaseIffRunning' /\ DeadLetterExact' /\ BudgetsRequested'
    BY <1>1, <1>2, RowInvariantsStep
  <1>6. ResultIsOfLastSuccess'
    BY <1>1, <1>2, <1>3, ResultStep
  <1>7. ClaimCurrentOrRecorded' /\ SingleOwner' /\ ClaimsWellFormed' /\ ExecutedAttempts'
    BY <1>1, ClaimCurrentStep, SingleOwnerStep, ClaimsWellFormedStep, ExecutedAttemptsStep
  <1> QED
    BY <1>1, <1>4, <1>5, <1>6, <1>7 DEF IInv

\* IInv is an invariant of the job queue.
THEOREM Invariance ==
    Spec => []IInv
  BY InitIInv, NextIInv, PTL DEF Spec

\* The tables and the threads stay well typed (repository.py, worker.py process_one).
THEOREM TypeCorrectness ==
    Spec => []TypeOK
  <1>1. IInv => TypeOK
    BY DEF IInv
  <1> QED
    BY <1>1, Invariance, PTL

\* Attempts are numbered 1 to attempt_count without hole or duplicate, however
\* worker commits, late commits and the reaper interleave.
THEOREM AttemptLedgerTheorem ==
    Spec => []AttemptLedger
  <1>1. IInv => AttemptLedger
    BY DEF IInv
  <1> QED
    BY <1>1, Invariance, PTL

\* Exactly the running jobs carry a lease, so the reaper can see every running job.
THEOREM LeaseTheorem ==
    Spec => []LeaseIffRunning
  <1>1. IInv => LeaseIffRunning
    BY DEF IInv
  <1> QED
    BY <1>1, Invariance, PTL

\* A job is dead-lettered exactly when its budget of max_retries + 1 attempts is spent.
THEOREM DeadLetterTheorem ==
    Spec => []DeadLetterExact
  <1>1. IInv => DeadLetterExact
    BY DEF IInv
  <1> QED
    BY <1>1, Invariance, PTL

\* A stored result belongs to the one recorded success, the last attempt of its job.
THEOREM ResultTheorem ==
    Spec => []ResultIsOfLastSuccess
  <1>1. IInv => ResultIsOfLastSuccess
    BY DEF IInv
  <1> QED
    BY <1>1, Invariance, PTL

\* A thread's claim is the current attempt of a job leased to its worker id, or it is
\* already in the history; no assumption is made that worker ids are unique.
THEOREM ClaimTheorem ==
    Spec => []ClaimCurrentOrRecorded
  <1>1. IInv => ClaimCurrentOrRecorded
    BY DEF IInv
  <1> QED
    BY <1>1, Invariance, PTL

\* No two threads hold the same attempt, for any assignment of worker ids.
THEOREM SingleOwnerTheorem ==
    Spec => []SingleOwner
  <1>1. IInv => SingleOwner
    BY DEF IInv
  <1> QED
    BY <1>1, Invariance, PTL

\* The handler is started at most once for each attempt number of a job.
THEOREM NoSecondExecutionTheorem ==
    Spec => NoSecondExecution
  <1>1. IInv =>
          \A t \in Threads :
             threads[t].phase = "claimed" =>
                <<threads[t].job, threads[t].attempt_no>> \notin executed
    BY DEF IInv, ClaimsWellFormed
  <1>2. IInv /\ [Next]_vars =>
          [\A t \in Threads :
              threads[t].phase = "claimed" /\ threads'[t].phase = "executing" =>
                  <<threads[t].job, threads[t].attempt_no>> \notin executed]_vars
    BY <1>1
  <1> QED
    BY <1>2, Invariance, PTL DEF Spec, NoSecondExecution

-----------------------------------------------------------------------------
(* Nobody ends a lease before its time *)

\* The lease of j has expired, or a thread is about to commit the attempt it is for.
MayEnd(j) ==
    \/ Now - jobs[j].locked_at > jobs[j].timeout_seconds + Grace
    \/ \E t \in Threads :
          /\ Holds(t, j, jobs[j].attempt_count + 1)
          /\ threads[t].phase \in {"succeeded", "failed", "timed_out"}
          /\ jobs[j].locked_by = WorkerId[t]

\* A commit of thread t touches no row but that of the attempt t holds.
LEMMA CommitEndsOwn ==
    ASSUME IInv, NEW t \in Threads, MarkSucceeded(t) \/ MarkFailed(t),
           NEW j \in Jobs, jobs[j].status = "running", jobs'[j].status # "running"
    PROVE  MayEnd(j)
  <1>1. threads[t].phase \in {"succeeded", "failed", "timed_out"} /\ jobs \in [Jobs -> Row]
    BY DEF MarkSucceeded, MarkFailed, IInv, TypeOK
  <1>2. PICK k \in Jobs, n \in Nat : k = threads[t].job /\ n = threads[t].attempt_no
    BY <1>1, ClaimTyped DEF IInv
  <1>3. UNCHANGED jobs \/ (~Recorded(k, n) /\ \E row : jobs' = [jobs EXCEPT ![k] = row])
    BY <1>2 DEF MarkSucceeded, MarkFailed, IndexAccepts, tables
  <1>4. j = k /\ ~Recorded(k, n)
    BY <1>1, <1>3
  <1>5. n = jobs[j].attempt_count + 1 /\ HoldsLease(t)
    BY <1>1, <1>2, <1>4, CommitIsCurrent
  <1>6. Holds(t, j, jobs[j].attempt_count + 1)
    BY <1>1, <1>2, <1>4, <1>5 DEF Holds
  <1> QED
    BY <1>1, <1>2, <1>4, <1>5, <1>6 DEF MayEnd, HoldsLease

\* The reaper touches no row whose lease has not expired.
LEMMA RecoveryEndsStale ==
    ASSUME IInv, NEW t \in Threads, RecoverStaleJobs(t),
           NEW j \in Jobs, jobs'[j].status # jobs[j].status
    PROVE  MayEnd(j)
  <1>1. PICK time \in Readings :
           jobs' = [i \in Jobs |-> IF i \in StaleJobs(time)
                                   THEN AfterFailure(i, jobs[i].attempt_count + 1, time, 0)
                                   ELSE jobs[i]]
    BY DEF RecoverStaleJobs
  <1>2. j \in StaleJobs(time) /\ j \in Jobs /\ jobs[j] \in Row
    BY <1>1 DEF IInv, TypeOK
  <1>3. jobs[j].status = "running"
    BY <1>2 DEF StaleJobs, JobsIn
  <1>4. time - jobs[j].locked_at > jobs[j].timeout_seconds + Grace
    BY <1>2 DEF StaleJobs
  <1>5. /\ jobs[j].locked_at \in Int /\ jobs[j].timeout_seconds \in Nat
        /\ Now \in Nat /\ Grace \in Nat
    BY <1>2, TimeAssumption DEF Row, NoTime
  <1> QED
    BY <1>4, <1>5, ReadingTyped DEF MayEnd

\* No other step touches a running row's status.
LEMMA OthersEndNone ==
    ASSUME IInv, [Next]_vars, NEW j \in Jobs,
           jobs[j].status = "running", jobs'[j].status # "running",
           \A t \in Threads : ~MarkSucceeded(t) /\ ~MarkFailed(t) /\ ~RecoverStaleJobs(t)
    PROVE  FALSE
  <1>1. jobs \in [Jobs -> Row]
    BY DEF IInv, TypeOK
  <1>2. CASE UNCHANGED jobs
    BY <1>2
  <1>3. CASE \E i \in Jobs : CreateJob(i) \/ CancelJob(i)
    BY <1>1, <1>3 DEF CreateJob, CancelJob
  <1>4. CASE CreateJobsBatch
    BY <1>4 DEF CreateJobsBatch, JobsIn
  <1>5. CASE DrainQueue
    BY <1>5 DEF DrainQueue
  <1>6. CASE \E t \in Threads : ClaimNextJob(t)
    BY <1>1, <1>6 DEF ClaimNextJob, Row
  <1>7. CASE Tick
    <2>1. jobs'[j] = [jobs[j] EXCEPT !.run_at = Aged(jobs[j].run_at),
                                     !.created_at = Aged(jobs[j].created_at),
                                     !.locked_at = Aged(jobs[j].locked_at)]
      BY <1>7 DEF Tick
    <2> QED
      BY <1>1, <2>1 DEF Row
  <1> QED
    BY <1>2, <1>3, <1>4, <1>5, <1>6, <1>7
       DEF Next, ApiStep, WorkStep, StartThread, CrashThread, BeginAttempt, FinishAttempt,
           vars, tables

\* A running job is never taken from the thread that holds its attempt before its lease
\* is older than timeout and grace, by whatever late commits and however ids are shared.
THEOREM LeaseRespectedTheorem ==
    Spec => LeaseRespected
  <1>1. ASSUME IInv, [Next]_vars, NEW j \in Jobs,
               jobs[j].status = "running", jobs'[j].status # "running"
        PROVE  MayEnd(j)
    BY <1>1, CommitEndsOwn, RecoveryEndsStale, OthersEndNone
  <1>2. IInv /\ [Next]_vars =>
          [\A j \in Jobs :
              jobs[j].status = "running" /\ jobs'[j].status # "running" => MayEnd(j)]_vars
    BY <1>1
  <1> QED
    BY <1>2, Invariance, PTL DEF Spec, LeaseRespected, MayEnd

-----------------------------------------------------------------------------
(* The job queue implements the contract *)

\* Outcomes of attempts 1 to n form a sequence.
LEMMA LedgerIsSeq ==
    ASSUME NEW n \in Nat, NEW outcomes \in [1..n -> AttemptStatus]
    PROVE  outcomes \in Seq(AttemptStatus) /\ Len(outcomes) = n
  OBVIOUS

\* Every attempt the ledger of a job lists is in the history.
LEMMA LedgerTyped ==
    ASSUME IInv, NEW j \in Jobs
    PROVE  /\ jobs[j].attempt_count \in Nat
           /\ \A m \in 1..jobs[j].attempt_count :
                 m \in Nat /\ Recorded(j, m) /\ job_attempts[<<j, m>>].status \in AttemptStatus
  <1>1. jobs[j].attempt_count \in Nat
    BY DEF IInv, TypeOK, Row
  <1>2. \A m \in 1..jobs[j].attempt_count : m \in Nat /\ Recorded(j, m)
    BY <1>1, RecordedByCount
  <1>3. \A m \in 1..jobs[j].attempt_count : job_attempts[<<j, m>>] \in AttemptRecord
    BY <1>2 DEF IInv, TypeOK, Recorded
  <1> QED
    BY <1>1, <1>2, <1>3 DEF AttemptRecord

\* A move that adds no attempt leaves the job's ledger as it was.
LEMMA LedgerKept ==
    ASSUME IInv, NEW j \in Jobs, KeepsAttempts(j),
           jobs'[j].attempt_count = jobs[j].attempt_count
    PROVE  Ledger(j)' = Ledger(j)
  <1>1. \A m \in 1..jobs[j].attempt_count :
           job_attempts'[<<j, m>>].status = job_attempts[<<j, m>>].status
    BY LedgerTyped DEF KeepsAttempts
  <1> QED
    BY <1>1 DEF Ledger

\* A move that adds an attempt appends its outcome to the job's ledger.
LEMMA LedgerGrows ==
    ASSUME IInv, NEW j \in Jobs, NEW n \in Nat, NEW status \in AttemptStatus,
           n = jobs[j].attempt_count + 1, jobs'[j].attempt_count = n,
           AddsAttempt(j, n, status)
    PROVE  /\ Ledger(j)' = Append(Ledger(j), status)
           /\ Len(Ledger(j)') = n
  <1> DEFINE c == jobs[j].attempt_count
             s == [m \in 1..c |-> job_attempts[<<j, m>>].status]
             s2 == [m \in 1..n |-> job_attempts'[<<j, m>>].status]
  <1>1. c \in Nat /\ n = c + 1
    BY LedgerTyped
  <1>2. /\ s \in Seq(AttemptStatus) /\ Len(s) = c
        /\ \A m \in 1..c : s[m] = job_attempts[<<j, m>>].status
    <2>1. \A m \in 1..c : job_attempts[<<j, m>>].status \in AttemptStatus
      BY LedgerTyped
    <2>2. s \in [1..c -> AttemptStatus]
      BY <2>1
    <2>3. \A m \in 1..c : s[m] = job_attempts[<<j, m>>].status
      OBVIOUS
    <2> HIDE DEF c, s
    <2> QED
      BY <1>1, <2>2, <2>3, LedgerIsSeq
  <1>3. \A m \in 1..c : job_attempts'[<<j, m>>] = job_attempts[<<j, m>>]
    BY LedgerTyped DEF AddsAttempt
  <1>4. job_attempts'[<<j, n>>].status = status
    BY DEF AddsAttempt
  <1>5. \A m \in 1..n : m \in 1..c \/ m = n
    BY <1>1
  <1>6. \A m \in 1..n : job_attempts'[<<j, m>>].status \in AttemptStatus
    BY <1>3, <1>4, <1>5, LedgerTyped
  <1>7. /\ s2 \in Seq(AttemptStatus) /\ Len(s2) = n
        /\ \A m \in 1..n : s2[m] = job_attempts'[<<j, m>>].status
    <2>1. s2 \in [1..n -> AttemptStatus]
      BY <1>6
    <2>2. \A m \in 1..n : s2[m] = job_attempts'[<<j, m>>].status
      OBVIOUS
    <2> HIDE DEF s2
    <2> QED
      BY <2>1, <2>2, LedgerIsSeq
  <1>8. Ledger(j)' = s2 /\ Ledger(j) = s
    BY DEF Ledger
  <1> HIDE DEF s, s2, c
  <1>9. /\ Append(s, status) \in Seq(AttemptStatus)
        /\ Len(Append(s, status)) = c + 1
        /\ \A m \in 1..c : Append(s, status)[m] = s[m]
        /\ Append(s, status)[c + 1] = status
    BY <1>2, AppendProperties
  <1>10. \A m \in 1..n : s2[m] = Append(s, status)[m]
    BY <1>1, <1>2, <1>3, <1>4, <1>5, <1>7, <1>9
  <1>11. s2 = Append(s, status)
    BY <1>1, <1>7, <1>9, <1>10, SeqEqual
  <1> QED
    BY <1>7, <1>8, <1>11

\* What a step does to a job is a move of the contract.
LEMMA MoveOfContract ==
    ASSUME IInv, NEW j \in Jobs, RowMove(j)
    PROVE  Contract!Move(j)
  <1> USE DEF Contract!Move, Contract!Waiting, Contract!Attempting
  <1>1. CASE Stays(j)
    BY <1>1, LedgerKept DEF Stays, Contract!Keep
  <1>2. CASE Accepted(j)
    <2>1. jobs[j].attempt_count = 0
      BY <1>2 DEF Accepted, IInv, BudgetsRequested
    <2> QED
      BY <1>2, <2>1, LedgerKept DEF Accepted, Contract!Accept
  <1>3. CASE Withdrawn(j)
    BY <1>3, LedgerKept DEF Withdrawn, Contract!Cancel
  <1>4. CASE Leased(j)
    BY <1>4, LedgerKept DEF Leased, Contract!Start
  <1>5. CASE Completed(j)
    <2>1. PICK n \in Nat : n = jobs[j].attempt_count + 1
      BY LedgerTyped
    <2>2. Ledger(j)' = Append(Ledger(j), "succeeded")
      BY <1>5, <2>1, LedgerGrows DEF Completed
    <2> QED
      BY <1>5, <2>2 DEF Completed, Contract!Succeed
  <1>6. CASE Failed(j)
    <2>1. PICK n \in Nat : n = jobs[j].attempt_count + 1
      BY LedgerTyped
    <2>2. PICK outcome \in {"failed", "timed_out", "abandoned"} : AddsAttempt(j, n, outcome)
      BY <1>6, <2>1 DEF Failed
    <2>3. Ledger(j)' = Append(Ledger(j), outcome) /\ Len(Ledger(j)') = n
      BY <1>6, <2>1, <2>2, LedgerGrows DEF Failed
    <2> QED
      BY <1>6, <2>1, <2>3 DEF Failed, Contract!Fail
  <1> QED
    BY <1>1, <1>2, <1>3, <1>4, <1>5, <1>6 DEF RowMove

\* The job queue keeps the contract with every client: it refines JobContract.
THEOREM Refinement ==
    Spec => ImplementsContract
  <1>1. Init => Contract!Init
    <2> SUFFICES ASSUME Init PROVE Contract!Init
      OBVIOUS
    <2>1. \A j \in Jobs : /\ jobs[j].status = "absent"
                          /\ jobs[j].max_retries = 0
                          /\ jobs[j].attempt_count = 0
      BY DEF Init, NoRow
    <2>2. \A j \in Jobs : Ledger(j) = << >>
      BY <2>1 DEF Ledger
    <2> QED
      BY <2>1, <2>2 DEF Contract!Init
  <1>2. IInv /\ [Next]_vars => [Contract!Next]_(Contract!vars)
    <2> SUFFICES ASSUME IInv, [Next]_vars PROVE Contract!Next
      OBVIOUS
    <2>1. \A j \in Jobs : Contract!Move(j)
      BY StepMoves, MoveOfContract
    <2> QED
      BY <2>1 DEF Contract!Next
  <1> QED
    BY <1>1, <1>2, Invariance, PTL DEF Spec, ImplementsContract, Contract!Spec

-----------------------------------------------------------------------------
(* What the contract gives a client holds of the tables *)

Client == INSTANCE JobContractProofs WITH
              state <- [j \in Jobs |-> jobs[j].status],
              budget <- [j \in Jobs |-> jobs[j].max_retries],
              ledger <- [j \in Jobs |-> Ledger(j)]

\* The theorems about the contract apply.
LEMMA ContractApplies ==
    Client!Numbers /\ (Spec => Client!Spec)
  <1>1. Client!Numbers
    BY RequestAssumption DEF Client!Numbers
  <1>2. Contract!Init => Client!Init
    BY DEF Contract!Init, Client!Init
  <1>3. [Contract!Next]_(Contract!vars) => [Client!Next]_(Client!vars)
    BY DEF Contract!Next, Client!Next, Contract!vars, Client!vars,
           Contract!Move, Client!Move, Contract!Accept, Client!Accept,
           Contract!Start, Client!Start, Contract!Succeed, Client!Succeed,
           Contract!Fail, Client!Fail, Contract!Cancel, Client!Cancel,
           Contract!Keep, Client!Keep, Contract!Waiting, Client!Waiting,
           Contract!Attempting, Client!Attempting
  <1> QED
    BY <1>1, <1>2, <1>3, Refinement, PTL DEF ImplementsContract, Contract!Spec, Client!Spec

\* The history of a job explains its status, and no job is attempted more often than its
\* budget allows, the attempt that is running included.
THEOREM LedgersTheorem ==
    Spec => [](Client!LedgersExplain /\ Client!AttemptsWithinBudget)
  BY ContractApplies, Client!LedgersExplainTheorem, Client!AttemptsWithinBudgetTheorem, PTL

\* No step takes back what a client has been told: a settled status, an outcome in the
\* history, an accepted job.
THEOREM NothingTakenBackTheorem ==
    Spec => Client!NothingTakenBack
  BY ContractApplies, Client!NothingTakenBackTheorem, PTL

=============================================================================
