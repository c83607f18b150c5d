-------------------------- MODULE PgJobQueueProofs --------------------------
(***************************************************************************)
(* Theorems about PgJobQueue, for every set of jobs, workers and requests, *)
(* every assignment of worker ids to workers, and every budget, timeout    *)
(* and backoff.                                                            *)
(***************************************************************************)
EXTENDS PgJobQueue, SequenceTheorems, TLAPS

USE DEF JobStatus, Terminal, Outcomes, AttemptStatus, Tasks, NoTime

-----------------------------------------------------------------------------
(* The rows that are written *)

\* The rows that commits, failures and submissions write, column by column.
LEMMA SuccessColumns ==
    ASSUME NEW j \in Jobs, jobs[j] \in Row, NEW n \in Nat
    PROVE  /\ AfterSuccess(j, n) \in Row
           /\ AfterSuccess(j, n).status = "succeeded"
           /\ AfterSuccess(j, n).attempt_count = n
           /\ AfterSuccess(j, n).max_retries = jobs[j].max_retries
  BY DEF AfterSuccess, Row

LEMMA FailureColumns ==
    ASSUME NEW j \in Jobs, jobs[j] \in Row, NEW n \in Nat, NEW now \in Nat, NEW at \in Nat
    PROVE  /\ AfterFailure(j, n, now, at) \in Row
           /\ AfterFailure(j, n, now, at).status =
                 IF WillRetry(j, n) THEN "queued" ELSE "dead_lettered"
           /\ AfterFailure(j, n, now, at).attempt_count = n
           /\ AfterFailure(j, n, now, at).max_retries = jobs[j].max_retries
  BY DEF AfterFailure, Row

LEMMA NewColumns ==
    ASSUME NEW r \in RetryLimits, NEW d \in Timeouts, NEW at \in RunAts
    PROVE  /\ NewRow(r, d, at) \in Row
           /\ NewRow(r, d, at).status = "queued"
           /\ NewRow(r, d, at).attempt_count = 0
           /\ NewRow(r, d, at).max_retries = r
  BY PgRequestAssumption DEF NewRow, NoRow, Row

-----------------------------------------------------------------------------
(* What a step does to one job *)

KeepsAttempts(j) ==
    \A m \in Nat :
        /\ Recorded(j, m)' <=> Recorded(j, m)
        /\ Recorded(j, m) => job_attempts'[<<j, m>>] = job_attempts[<<j, m>>]

AddsAttempt(j, n, outcome) ==
    /\ \A m \in Nat :
          /\ Recorded(j, m)' <=> Recorded(j, m) \/ m = n
          /\ Recorded(j, m) => job_attempts'[<<j, m>>] = job_attempts[<<j, m>>]
    /\ ~Recorded(j, n)
    /\ job_attempts'[<<j, n>>] = outcome

KeepsLetter(j) ==
    /\ j \in DOMAIN dead_letters' <=> j \in DOMAIN dead_letters
    /\ j \in DOMAIN dead_letters => dead_letters'[j] = dead_letters[j]

SameBudget(j) == jobs'[j].max_retries = jobs[j].max_retries
SameCount(j) == SameBudget(j) /\ jobs'[j].attempt_count = jobs[j].attempt_count

Stays(j) == jobs'[j] = jobs[j] /\ KeepsAttempts(j) /\ KeepsLetter(j)

Accepted(j) ==
    /\ jobs[j].status = "absent"
    /\ jobs'[j].status = "queued"
    /\ jobs'[j].max_retries \in RetryLimits
    /\ jobs'[j].attempt_count = 0
    /\ KeepsAttempts(j)
    /\ KeepsLetter(j)

Withdrawn(j) ==
    /\ jobs[j].status = "queued"
    /\ jobs'[j].status = "cancelled"
    /\ SameCount(j)
    /\ KeepsAttempts(j)
    /\ KeepsLetter(j)

Leased(j) ==
    /\ jobs[j].status = "queued"
    /\ jobs'[j].status = "running"
    /\ SameCount(j)
    /\ KeepsAttempts(j)
    /\ KeepsLetter(j)

Completed(j) ==
    LET n == jobs[j].attempt_count + 1
    IN  /\ jobs[j].status = "running"
        /\ jobs'[j].status = "succeeded"
        /\ SameBudget(j)
        /\ jobs'[j].attempt_count = n
        /\ AddsAttempt(j, n, "succeeded")
        /\ KeepsLetter(j)

Failed(j) ==
    LET n == jobs[j].attempt_count + 1
    IN  /\ jobs[j].status = "running"
        /\ jobs'[j].status = IF n <= jobs[j].max_retries THEN "queued" ELSE "dead_lettered"
        /\ SameBudget(j)
        /\ jobs'[j].attempt_count = n
        /\ \E outcome \in {"failed", "abandoned"} : AddsAttempt(j, n, outcome)
        /\ IF n <= jobs[j].max_retries
           THEN KeepsLetter(j)
           ELSE j \in DOMAIN dead_letters' /\ dead_letters'[j] = n

RowMove(j) ==
    Stays(j) \/ Accepted(j) \/ Withdrawn(j) \/ Leased(j) \/ Completed(j) \/ Failed(j)

LEMMA TablesUnchanged ==
    ASSUME UNCHANGED tables, NEW j \in Jobs
    PROVE  RowMove(j)
  BY DEF tables, RowMove, Stays, KeepsAttempts, KeepsLetter, Recorded

\* The invariants about rows, one job at a time.
RowInv(j) ==
    /\ \A n \in Nat : Recorded(j, n) <=> 1 <= n /\ n <= jobs[j].attempt_count
    /\ jobs[j].status = "absent" => jobs[j].attempt_count = 0
    /\ jobs[j].status \in {"queued", "running"} =>
          jobs[j].attempt_count <= jobs[j].max_retries
    /\ j \in DOMAIN dead_letters <=> jobs[j].status = "dead_lettered"
    /\ jobs[j].status = "dead_lettered" =>
          dead_letters[j] = jobs[j].attempt_count
          /\ jobs[j].attempt_count = jobs[j].max_retries + 1

AllRowsInv == \A j \in Jobs : RowInv(j)

LEMMA RowInvByJob ==
    TypeOK => (AttemptLedger /\ RowsInBudget /\ DeadLetterExact <=> AllRowsInv)
  <1> SUFFICES ASSUME TypeOK
               PROVE  AttemptLedger /\ RowsInBudget /\ DeadLetterExact <=> AllRowsInv
    OBVIOUS
  <1>1. \A j \in Jobs : jobs[j].attempt_count \in Nat
    BY DEF TypeOK, Row
  <1>2. ASSUME AttemptLedger, NEW j \in Jobs, NEW n \in Nat
        PROVE  Recorded(j, n) <=> 1 <= n /\ n <= jobs[j].attempt_count
    <2>1. ASSUME Recorded(j, n) PROVE 1 <= n /\ n <= jobs[j].attempt_count
      <3>1. n \in 1..jobs[j].attempt_count
        BY <1>2, <2>1 DEF Recorded, AttemptLedger
      <3> QED
        BY <1>1, <3>1
    <2>2. ASSUME 1 <= n, n <= jobs[j].attempt_count PROVE Recorded(j, n)
      BY <1>1, <1>2, <2>2 DEF AttemptLedger
    <2> QED
      BY <2>1, <2>2
  <1>3. ASSUME \A j \in Jobs : RowInv(j)
        PROVE  AttemptLedger
    <2>1. ASSUME NEW key \in DOMAIN job_attempts
          PROVE  key[2] \in 1..jobs[key[1]].attempt_count
      <3>1. PICK j \in Jobs, n \in Nat : key = <<j, n>>
        BY DEF TypeOK
      <3> QED
        BY <1>1, <1>3, <3>1 DEF RowInv, Recorded
    <2>2. ASSUME NEW j \in Jobs, NEW n \in 1..jobs[j].attempt_count
          PROVE  Recorded(j, n)
      BY <1>1, <1>3 DEF RowInv
    <2> QED
      BY <2>1, <2>2 DEF AttemptLedger
  <1> QED
    BY <1>2, <1>3 DEF AllRowsInv, RowInv, RowsInBudget, DeadLetterExact

\* The history after the attempt that follows the last one.
LEMMA OneMoreRecorded ==
    ASSUME NEW j \in Jobs, NEW c \in Nat, NEW outcome,
           \A n \in Nat : Recorded(j, n) <=> 1 <= n /\ n <= c,
           AddsAttempt(j, c + 1, outcome)
    PROVE  \A n \in Nat : Recorded(j, n)' <=> 1 <= n /\ n <= c + 1
  <1>1. \A n \in Nat : Recorded(j, n)' <=> Recorded(j, n) \/ n = c + 1
    BY DEF AddsAttempt
  <1>2. \A n \in Nat : (1 <= n /\ n <= c) \/ n = c + 1 <=> 1 <= n /\ n <= c + 1
    OBVIOUS
  <1> QED
    BY <1>1, <1>2

\* Every move preserves them.
LEMMA RowInvKept ==
    ASSUME TypeOK, TypeOK', NEW j \in Jobs, RowInv(j), RowMove(j)
    PROVE  RowInv(j)'
  <1>1. /\ jobs[j].attempt_count \in Nat /\ jobs[j].max_retries \in Nat
        /\ jobs'[j].attempt_count \in Nat /\ jobs'[j].max_retries \in Nat
    BY DEF TypeOK, Row
  <1>2. CASE Stays(j)
    BY <1>2 DEF Stays, KeepsAttempts, KeepsLetter, RowInv
  <1>3. CASE Accepted(j)
    <2>1. \A n \in Nat : Recorded(j, n)' <=> 1 <= n /\ n <= jobs'[j].attempt_count
      BY <1>1, <1>3 DEF Accepted, KeepsAttempts, RowInv
    <2>2. ~(j \in DOMAIN dead_letters')
      BY <1>3 DEF Accepted, KeepsLetter, RowInv
    <2>3. jobs'[j].status = "queued" /\ jobs'[j].attempt_count <= jobs'[j].max_retries
      BY <1>1, <1>3 DEF Accepted
    <2> QED
      BY <2>1, <2>2, <2>3 DEF RowInv
  <1>4. CASE Withdrawn(j)
    BY <1>4 DEF Withdrawn, SameCount, SameBudget, KeepsAttempts, KeepsLetter, RowInv
  <1>5. CASE Leased(j)
    BY <1>5 DEF Leased, SameCount, SameBudget, KeepsAttempts, KeepsLetter, RowInv
  <1>6. CASE Completed(j)
    <2>1. \A n \in Nat : Recorded(j, n)' <=> 1 <= n /\ n <= jobs'[j].attempt_count
      BY <1>1, <1>6, OneMoreRecorded DEF Completed, RowInv
    <2>2. ~(j \in DOMAIN dead_letters')
      BY <1>6 DEF Completed, KeepsLetter, RowInv
    <2> QED
      BY <1>6, <2>1, <2>2 DEF RowInv, Completed
  <1>7. CASE Failed(j)
    <2>1. \A n \in Nat : Recorded(j, n)' <=> 1 <= n /\ n <= jobs'[j].attempt_count
      BY <1>1, <1>7, OneMoreRecorded DEF Failed, RowInv
    <2>2. jobs[j].attempt_count <= jobs[j].max_retries /\ ~(j \in DOMAIN dead_letters)
      BY <1>7 DEF Failed, RowInv
    <2>3. CASE jobs[j].attempt_count + 1 <= jobs[j].max_retries
      <3>1. /\ jobs'[j].status = "queued"
            /\ jobs'[j].attempt_count <= jobs'[j].max_retries
            /\ ~(j \in DOMAIN dead_letters')
        BY <1>1, <1>7, <2>2, <2>3 DEF Failed, SameBudget, KeepsLetter
      <3> QED
        BY <2>1, <3>1 DEF RowInv
    <2>4. CASE ~(jobs[j].attempt_count + 1 <= jobs[j].max_retries)
      <3>1. /\ jobs'[j].status = "dead_lettered"
            /\ jobs'[j].attempt_count = jobs[j].attempt_count + 1
            /\ jobs'[j].max_retries = jobs[j].max_retries
            /\ j \in DOMAIN dead_letters'
            /\ dead_letters'[j] = jobs'[j].attempt_count
        BY <1>7, <2>4 DEF Failed, SameBudget
      <3>2. jobs'[j].attempt_count = jobs'[j].max_retries + 1
        BY <1>1, <2>2, <2>4, <3>1
      <3> QED
        BY <2>1, <3>1, <3>2 DEF RowInv
    <2> QED
      BY <2>3, <2>4
  <1> QED
    BY <1>2, <1>3, <1>4, <1>5, <1>6, <1>7 DEF RowMove

-----------------------------------------------------------------------------
(* What a step does to one worker *)

Attempting == {"run"} \cup Outcomes
Claims(u) == sessions[u].task \in Attempting

Forgets(u) == sessions'[u].task \notin Attempting

Continues(u) ==
    /\ Claims(u)
    /\ sessions'[u].job = sessions[u].job
    /\ sessions'[u].attempt_no = sessions[u].attempt_no

Begins(u, j) ==
    /\ locks[j] = u
    /\ jobs[j].status = "queued"
    /\ jobs'[j].status = "running"
    /\ jobs'[j].locked_by = WorkerId[u]
    /\ jobs'[j].attempt_count = jobs[j].attempt_count
    /\ sessions'[u].job = j
    /\ sessions'[u].attempt_no = jobs[j].attempt_count + 1

WorkerMove(u) == Forgets(u) \/ Continues(u) \/ \E j \in Jobs : Begins(u, j)

LEMMA ClaimTyped ==
    ASSUME TableInv, NEW t \in Workers, Claims(t)
    PROVE  sessions[t].job \in Jobs /\ sessions[t].attempt_no \in Nat
  BY PgSessionsAssumption DEF TableInv, TypeOK, Session, Sessions, LocksProtect, LocksOf, Claims, Attempting

\* A claim that is not in the history before a step and not after it is of a row the
\* step leaves alone: moves that touch a running row record its attempt.
LEMMA UnrecordedRowStays ==
    ASSUME TableInv, NEW t \in Workers, NEW j \in Jobs, NEW n \in Nat,
           Holds(t, j, n), RowMove(j), ~Recorded(j, n)'
    PROVE  /\ n = jobs[j].attempt_count + 1
           /\ jobs[j].status = "running" /\ jobs[j].locked_by = WorkerId[t]
           /\ jobs'[j] = jobs[j]
  <1>1. ~Recorded(j, n)
    BY DEF RowMove, Stays, Accepted, Withdrawn, Leased, Completed, Failed,
           KeepsAttempts, AddsAttempt
  <1>2. /\ n = jobs[j].attempt_count + 1
        /\ jobs[j].status = "running" /\ jobs[j].locked_by = WorkerId[t]
    BY <1>1 DEF TableInv, ClaimCurrentOrRecorded, Holds, HoldsLease
  <1>3. ~Completed(j) /\ ~Failed(j)
    BY <1>2 DEF Completed, Failed, AddsAttempt
  <1> QED
    BY <1>2, <1>3 DEF RowMove, Stays, Accepted, Withdrawn, Leased

LEMMA ClaimCurrentKept ==
    ASSUME TableInv, TypeOK', \A j \in Jobs : RowMove(j), \A u \in Workers : WorkerMove(u)
    PROVE  ClaimCurrentOrRecorded'
  <1> SUFFICES ASSUME NEW t \in Workers, NEW j \in Jobs, NEW n \in {sessions'[t].attempt_no},
                      Holds(t, j, n)', ~Recorded(j, n)'
               PROVE  /\ n = jobs'[j].attempt_count + 1
                      /\ jobs'[j].status = "running" /\ jobs'[j].locked_by = WorkerId[t]
    BY DEF ClaimCurrentOrRecorded, Holds, HoldsLease
  <1>1. /\ sessions'[t].task \in Attempting
        /\ sessions'[t].job = j
        /\ sessions'[t].attempt_no = n
    BY DEF Holds, Attempting
  <1>2. CASE Continues(t)
    <2>1. Holds(t, j, n) /\ n \in Nat
      BY <1>1, <1>2, ClaimTyped DEF Continues, Claims, Holds, Attempting
    <2> QED
      BY <2>1, UnrecordedRowStays
  <1>3. ASSUME NEW i \in Jobs, Begins(t, i)
        PROVE  /\ n = jobs'[j].attempt_count + 1
               /\ jobs'[j].status = "running" /\ jobs'[j].locked_by = WorkerId[t]
    BY <1>1, <1>3 DEF Begins
  <1> QED
    BY <1>1, <1>2, <1>3 DEF WorkerMove, Forgets

LEMMA SingleOwnerKept ==
    ASSUME TableInv, TypeOK', \A j \in Jobs : RowMove(j), \A u \in Workers : WorkerMove(u)
    PROVE  SingleOwner'
  <1> SUFFICES ASSUME NEW t \in Workers, NEW u \in Workers, NEW j \in Jobs,
                      NEW n \in {sessions'[t].attempt_no}, Holds(t, j, n)', Holds(u, j, n)'
               PROVE  t = u
    BY DEF SingleOwner
  <1>1. /\ sessions'[t].task \in Attempting /\ sessions'[u].task \in Attempting
        /\ sessions'[t].job = j /\ sessions'[u].job = j
        /\ sessions'[t].attempt_no = n /\ sessions'[u].attempt_no = n
    BY DEF Holds, Attempting
  <1>2. \A v \in {t, u} : Continues(v) => Holds(v, j, n) /\ n \in Nat
    BY <1>1, ClaimTyped DEF Continues, Claims, Holds, Attempting
  <1>3. \A v \in {t, u} : Continues(v) \/ Begins(v, j)
    BY <1>1 DEF WorkerMove, Forgets, Begins
  <1>4. CASE Continues(t) /\ Continues(u)
    <2>1. n = sessions[t].attempt_no
      BY <1>1, <1>4 DEF Continues
    <2> QED
      BY <1>2, <1>4, <2>1 DEF TableInv, SingleOwner
  <1>5. CASE Begins(t, j) /\ Begins(u, j)
    BY <1>5 DEF Begins
  <1>6. ASSUME NEW v \in {t, u}, NEW w \in {t, u}, Continues(v), Begins(w, j)
        PROVE  FALSE
    <2>1. n = jobs[j].attempt_count + 1 /\ jobs[j].status = "queued"
      BY <1>1, <1>6 DEF Begins
    <2>2. RowInv(j) /\ jobs[j].attempt_count \in Nat
      BY RowInvByJob DEF TableInv, AllRowsInv, TypeOK, Row
    <2>3. ~Recorded(j, n)
      BY <1>2, <1>6, <2>1, <2>2 DEF RowInv
    <2>4. Holds(v, j, n) /\ n = sessions[v].attempt_no
      BY <1>2, <1>6 DEF Holds
    <2> QED
      BY <2>1, <2>3, <2>4 DEF TableInv, ClaimCurrentOrRecorded, HoldsLease, Holds
  <1> QED
    BY <1>3, <1>4, <1>5, <1>6

-----------------------------------------------------------------------------
(* What a step of one session does to the others *)

\* Only s moves; the locks of the others stay where they are, and so do their rows.
LeavesOthers(s) ==
    /\ \A u \in Workers : u # s => sessions'[u] = sessions[u]
    /\ \A u \in Workers : u # s => \A j \in Jobs : locks'[j] = u <=> locks[j] = u
    /\ \A j \in Jobs : jobs'[j] = jobs[j] \/ jobs[j].status = "absent" \/ locks[j] = s

LEMMA LocksOfOthers ==
    ASSUME TableInv, NEW s, LeavesOthers(s), NEW u \in Workers, u # s
    PROVE  LocksOf(u)'
  <1> DEFINE j == sessions[u].job
  <1>1. sessions'[u] = sessions[u] /\ LocksOf(u) /\ j \in Jobs \cup {NoJob}
    BY DEF TableInv, LocksProtect, LeavesOthers, TypeOK, Session, Sessions
  <1>2. LockedBy(u)' = LockedBy(u)
    BY DEF LeavesOthers, LockedBy
  <1>3. ASSUME j # NoJob, locks[j] = u, jobs[j].status # "absent"
        PROVE  jobs'[j] = jobs[j] /\ locks'[j] = u
    BY <1>1, <1>3 DEF LeavesOthers
  <1>4. j # NoJob => (locks'[j] = u <=> locks[j] = u)
    BY <1>1 DEF LeavesOthers
  <1> QED
    BY <1>1, <1>2, <1>3, <1>4 DEF LocksOf, HoldsLease

\* So a step preserves the invariant if it preserves types, moves rows and workers as
\* above, and leaves the session that takes it with the locks it needs.
LEMMA StepKeeps ==
    ASSUME TableInv, TypeOK', \A j \in Jobs : RowMove(j),
           NEW s, LeavesOthers(s),
           s \in Workers => WorkerMove(s) /\ LocksOf(s)'
    PROVE  TableInv'
  <1>1. \A j \in Jobs : RowInv(j)'
    BY RowInvByJob, RowInvKept DEF TableInv, AllRowsInv
  <1>2. (AttemptLedger /\ RowsInBudget /\ DeadLetterExact)'
    <2>1. AllRowsInv'
      BY <1>1 DEF AllRowsInv
    <2> QED
      BY <2>1, RowInvByJob, PTL
  <1>3. \A u \in Workers : WorkerMove(u)
    <2> SUFFICES ASSUME NEW u \in Workers, u # s PROVE WorkerMove(u)
      OBVIOUS
    <2> QED
      BY DEF LeavesOthers, WorkerMove, Forgets, Continues, Claims
  <1>4. LocksProtect'
    BY LocksOfOthers DEF LocksProtect
  <1>5. ClaimCurrentOrRecorded' /\ SingleOwner'
    BY <1>3, ClaimCurrentKept, SingleOwnerKept
  <1> QED
    BY <1>2, <1>4, <1>5 DEF TableInv

-----------------------------------------------------------------------------
(* Steps that write no table *)

LEMMA AtFacts ==
    ASSUME NEW task \in Tasks
    PROVE  /\ At(task) \in Session
           /\ At(task).task = task
           /\ At(task).job = NoJob
  BY PgRequestAssumption DEF At, Session

\* Taking a free lock, and giving all locks back.
LEMMA LockEffect ==
    ASSUME TypeOK, NEW s \in Sessions, NEW j, j \in Jobs => Free(j), Lock(s, j)
    PROVE  /\ locks' \in [Jobs -> Sessions \cup {NoSession}]
           /\ j \in Jobs => locks'[j] = s
           /\ \A u \in Workers : u # s => \A i \in Jobs : locks'[i] = u <=> locks[i] = u
  BY PgSessionsAssumption DEF TypeOK, Lock, Free, Sessions

LEMMA ReleaseEffect ==
    ASSUME TypeOK, NEW s \in Sessions, Release(s)
    PROVE  /\ locks' \in [Jobs -> Sessions \cup {NoSession}]
           /\ \A i \in Jobs : locks'[i] # s
           /\ \A u \in Workers : u # s => \A i \in Jobs : locks'[i] = u <=> locks[i] = u
  BY PgSessionsAssumption DEF TypeOK, Release, Sessions

LEMMA QuietKeeps ==
    ASSUME TableInv, UNCHANGED <<tables, clock>>,
           NEW s \in Sessions, NEW x \in Session, Become(s, x),
           locks' \in [Jobs -> Sessions \cup {NoSession}],
           \A u \in Workers : u # s => \A i \in Jobs : locks'[i] = u <=> locks[i] = u,
           s \in Workers =>
              /\ \/ x.task \notin Attempting
                 \/ /\ Claims(s)
                    /\ x.job = sessions[s].job
                    /\ x.attempt_no = sessions[s].attempt_no
              /\ x.task \in {"idle", "run"} => \A i \in Jobs : locks'[i] # s
              /\ x.task \in {"claim"} \cup Outcomes =>
                    \A i \in Jobs : locks'[i] = s => i = x.job
              /\ x.task = "claim" /\ x.job # NoJob =>
                    locks'[x.job] = s /\ jobs[x.job].status = "queued"
              /\ x.task \in Attempting => x.job # NoJob
              /\ x.task \in Outcomes /\ locks'[x.job] = s =>
                    jobs[x.job].status = "running" /\ jobs[x.job].locked_by = WorkerId[s]
    PROVE  TableInv'
  <1>1. /\ sessions' \in [Sessions -> Session]
        /\ sessions'[s] = x
        /\ \A u \in Sessions : u # s => sessions'[u] = sessions[u]
    BY DEF TableInv, TypeOK, Become
  <1>2. TypeOK'
    BY <1>1 DEF TableInv, TypeOK, tables
  <1>3. \A j \in Jobs : RowMove(j)
    BY TablesUnchanged
  <1>4. LeavesOthers(s)
    BY <1>1 DEF LeavesOthers, Sessions, tables
  <1>5. ASSUME s \in Workers
        PROVE  WorkerMove(s) /\ LocksOf(s)'
    <2>1. WorkerMove(s)
      BY <1>1, <1>5 DEF WorkerMove, Forgets, Continues
    <2>2. jobs' = jobs
      BY DEF tables
    <2>3. LocksOf(s)'
      BY <1>1, <1>5, <2>2 DEF LocksOf, LockedBy, HoldsLease, Attempting
    <2> QED
      BY <2>1, <2>3
  <1> QED
    BY <1>2, <1>3, <1>4, <1>5, StepKeeps

\* A worker that has no claim, or forgets it, and no lock.
LEMMA ForgetKeeps ==
    ASSUME TableInv, UNCHANGED <<tables, clock>>,
           NEW t \in Sessions, Release(t) \/ (UNCHANGED locks /\ t \in Workers => LockedBy(t) = {}),
           NEW x \in Session, x.task \notin Attempting, x.job = NoJob, Become(t, x),
           UNCHANGED locks \/ Release(t)
    PROVE  TableInv'
  <1>1. /\ locks' \in [Jobs -> Sessions \cup {NoSession}]
        /\ \A u \in Workers : u # t => \A i \in Jobs : locks'[i] = u <=> locks[i] = u
        /\ t \in Workers => \A i \in Jobs : locks'[i] # t
    <2>1. CASE Release(t)
      BY <2>1, ReleaseEffect DEF TableInv
    <2>2. CASE UNCHANGED locks /\ ~Release(t)
      BY <2>2 DEF TableInv, TypeOK, LockedBy
    <2> QED
      BY <2>1, <2>2
  <1> QED
    BY <1>1, QuietKeeps DEF Attempting

\* What Visit does to the session.
LEMMA VisitFacts ==
    ASSUME TypeOK, NEW s \in Sessions, NEW task \in Tasks, NEW left \in SUBSET Jobs,
           Visit(s, task, left)
    PROVE  \E x \in Session : Become(s, x) /\ x.task = task
  <1>1. sessions[s] \in Session
    BY DEF TypeOK
  <1>2. CASE Become(s, [sessions[s] EXCEPT !.task = task, !.job = NoJob, !.rest = {}])
    <2> DEFINE x == [sessions[s] EXCEPT !.task = task, !.job = NoJob, !.rest = {}]
    <2>1. x \in Session /\ x.task = task
      BY <1>1 DEF Session
    <2>2. Become(s, x)
      BY <1>2
    <2> HIDE DEF x
    <2> QED
      BY <2>1, <2>2
  <1>3. ASSUME NEW j \in left,
               Become(s, [sessions[s] EXCEPT !.task = task, !.job = j, !.rest = left \ {j}])
        PROVE  \E x \in Session : Become(s, x) /\ x.task = task
    <2> DEFINE x == [sessions[s] EXCEPT !.task = task, !.job = j, !.rest = left \ {j}]
    <2>1. x \in Session /\ x.task = task
      BY <1>1 DEF Session
    <2>2. Become(s, x)
      BY <1>3
    <2> HIDE DEF x
    <2> QED
      BY <2>1, <2>2
  <1> QED
    BY <1>2, <1>3 DEF Visit

LEMMA TableInvInit ==
    Init => TableInv
  <1> SUFFICES ASSUME Init PROVE TableInv
    OBVIOUS
  <1>1. At("idle") \in Session /\ At("idle").task = "idle"
    BY AtFacts
  <1>2. \A s \in Sessions : sessions[s] = At("idle")
    BY DEF Init
  <1>3. \A t \in Workers : sessions[t].task = "idle"
    BY <1>1, <1>2 DEF Sessions
  <1>4. \A j \in Jobs : jobs[j] = NoRow /\ locks[j] = NoSession
    BY DEF Init
  <1>5. NoRow \in Row /\ NoRow.status = "absent" /\ NoRow.attempt_count = 0
    BY DEF NoRow, Row
  <1>6. DOMAIN job_attempts = {} /\ DOMAIN dead_letters = {}
    BY DEF Init
  <1>7. TypeOK
    <2>1. jobs \in [Jobs -> Row] /\ locks \in [Jobs -> Sessions \cup {NoSession}]
      BY <1>5 DEF Init
    <2>2. sessions \in [Sessions -> Session]
      BY <1>1 DEF Init
    <2>3. clock \in 0..Horizon
      BY PgRequestAssumption DEF Init
    <2> QED
      BY <1>6, <2>1, <2>2, <2>3 DEF TypeOK
  <1>8. AttemptLedger /\ RowsInBudget /\ DeadLetterExact
    BY <1>4, <1>5, <1>6 DEF AttemptLedger, RowsInBudget, DeadLetterExact
  <1>9. LocksProtect
    BY <1>3, <1>4, PgSessionsAssumption DEF LocksProtect, LocksOf, LockedBy, Sessions
  <1>10. ClaimCurrentOrRecorded /\ SingleOwner
    BY <1>3 DEF ClaimCurrentOrRecorded, SingleOwner, Holds
  <1> QED
    BY <1>7, <1>8, <1>9, <1>10 DEF TableInv

-----------------------------------------------------------------------------
(* Requests that write no table *)

LEMMA ClientSession ==
    ASSUME NEW c \in Clients
    PROVE  c \in Sessions /\ c \notin Workers
  BY PgSessionsAssumption DEF Sessions

LEMMA SameLocks ==
    ASSUME TableInv, UNCHANGED locks, NEW s
    PROVE  /\ locks' \in [Jobs -> Sessions \cup {NoSession}]
           /\ \A u \in Workers : u # s => \A i \in Jobs : locks'[i] = u <=> locks[i] = u
  BY DEF TableInv, TypeOK

LEMMA RequestCancelKeeps ==
    ASSUME TableInv, NEW c \in Clients, NEW j \in Jobs, RequestCancel(c, j)
    PROVE  TableInv'
  <1> DEFINE x == [At("cancel") EXCEPT !.job = j]
  <1>1. x \in Session
    BY AtFacts DEF Session
  <1>2. Become(c, x) /\ UNCHANGED locks /\ UNCHANGED <<tables, clock>>
    BY DEF RequestCancel
  <1> HIDE DEF x
  <1> QED
    BY <1>1, <1>2, ClientSession, SameLocks, QuietKeeps

LEMMA RequestDrainKeeps ==
    ASSUME TableInv, NEW c \in Clients, RequestDrain(c)
    PROVE  TableInv'
  <1>1. PICK x \in Session : Become(c, x)
    <2>1. JobsIn("queued") \in SUBSET Jobs
      BY DEF JobsIn
    <2>2. TypeOK /\ c \in Sessions /\ Visit(c, "drain", JobsIn("queued"))
      BY ClientSession DEF TableInv, RequestDrain
    <2> QED
      BY <2>1, <2>2, VisitFacts
  <1> QED
    BY <1>1, ClientSession, SameLocks, QuietKeeps DEF RequestDrain

LEMMA CancelRowKeeps ==
    ASSUME TableInv, NEW c \in Clients, CancelRow(c)
    PROVE  TableInv'
  <1>1. UNCHANGED <<tables, clock>>
    BY DEF CancelRow
  <1>2. CASE Become(c, At("idle")) /\ UNCHANGED locks
    BY <1>1, <1>2, AtFacts, ClientSession, SameLocks, QuietKeeps
  <1>3. CASE Free(sessions[c].job) /\ Lock(c, sessions[c].job) /\ UNCHANGED sessions
    <2>1. sessions[c] \in Session /\ Become(c, sessions[c])
      BY <1>3, ClientSession DEF TableInv, TypeOK, Become
    <2>2. /\ locks' \in [Jobs -> Sessions \cup {NoSession}]
          /\ \A u \in Workers : u # c => \A i \in Jobs : locks'[i] = u <=> locks[i] = u
      BY <1>3, ClientSession, LockEffect DEF TableInv
    <2> QED
      BY <1>1, <2>1, <2>2, ClientSession, QuietKeeps
  <1> QED
    BY <1>2, <1>3 DEF CancelRow

LEMMA DrainRowKeeps ==
    ASSUME TableInv, NEW c \in Clients, DrainRow(c)
    PROVE  TableInv'
  <1>1. PICK x \in Session : Become(c, x)
    <2>1. TypeOK /\ c \in Sessions /\ Visit(c, "drain", sessions[c].rest)
      BY ClientSession DEF TableInv, DrainRow
    <2>2. sessions[c].rest \in SUBSET Jobs
      BY <2>1 DEF TypeOK, Session
    <2> QED
      BY <2>1, <2>2, VisitFacts
  <1>2. /\ locks' \in [Jobs -> Sessions \cup {NoSession}]
        /\ \A u \in Workers : u # c => \A i \in Jobs : locks'[i] = u <=> locks[i] = u
    BY ClientSession, LockEffect DEF TableInv, DrainRow
  <1> QED
    BY <1>1, <1>2, ClientSession, QuietKeeps DEF DrainRow

LEMMA RollBackRequestKeeps ==
    ASSUME TableInv, NEW c \in Clients, RollBackRequest(c)
    PROVE  TableInv'
  BY AtFacts, ClientSession, ForgetKeeps DEF RollBackRequest, Attempting

-----------------------------------------------------------------------------
(* Workers that write no table *)

LEMMA WorkerSession ==
    ASSUME TableInv, NEW t \in Workers
    PROVE  /\ t \in Sessions
           /\ t # NoSession
           /\ sessions[t] \in Session
           /\ sessions[t].now \in 0..Horizon
           /\ sessions[t].rest \in SUBSET Jobs
           /\ LocksOf(t)
  BY PgSessionsAssumption DEF TableInv, TypeOK, Session, Sessions, LocksProtect

LEMMA CrashWorkerKeeps ==
    ASSUME TableInv, NEW t \in Workers, CrashWorker(t)
    PROVE  TableInv'
  BY AtFacts, WorkerSession, ForgetKeeps DEF CrashWorker, Attempting

\* An idle worker has no lock, so it begins a transaction with none.
LEMMA BeginKeeps ==
    ASSUME TableInv, NEW t \in Workers, NEW task \in {"claim", "recover"},
           sessions[t].task = "idle", Become(t, [At(task) EXCEPT !.now = clock]),
           UNCHANGED <<tables, locks, clock>>
    PROVE  TableInv'
  <1> DEFINE x == [At(task) EXCEPT !.now = clock]
  <1>1. x \in Session /\ x.task = task /\ x.job = NoJob
    BY AtFacts DEF Session, TableInv, TypeOK
  <1>2. Become(t, x)
    OBVIOUS
  <1>3. LockedBy(t) = {}
    BY WorkerSession DEF LocksOf
  <1> HIDE DEF x
  <1>4. x.task \notin Attempting
    BY <1>1 DEF Attempting
  <1> QED
    BY <1>1, <1>2, <1>3, <1>4, WorkerSession, ForgetKeeps

LEMMA SelectNextJobKeeps ==
    ASSUME TableInv, NEW t \in Workers, SelectNextJob(t)
    PROVE  TableInv'
  <1>1. UNCHANGED <<tables, clock>> /\ sessions[t].task = "claim" /\ sessions[t].job = NoJob
    BY DEF SelectNextJob
  <1>2. LockedBy(t) = {}
    BY <1>1, WorkerSession, PgRequestAssumption DEF LocksOf, LockedBy
  <1>3. CASE Become(t, At("idle")) /\ UNCHANGED locks
    BY <1>1, <1>2, <1>3, AtFacts, WorkerSession, ForgetKeeps DEF Attempting
  <1>4. ASSUME NEW j \in Claimable(t), Lock(t, j), Become(t, [sessions[t] EXCEPT !.job = j])
        PROVE  TableInv'
    <2>1. j \in Jobs /\ jobs[j].status = "queued" /\ Free(j)
      BY <1>4 DEF Claimable, JobsIn
    <2> DEFINE x == [sessions[t] EXCEPT !.job = j]
    <2>2. x \in Session /\ x.task = "claim" /\ x.job = j
      BY <1>1, <2>1, WorkerSession DEF Session
    <2>3. Become(t, x)
      BY <1>4
    <2>4. /\ locks' \in [Jobs -> Sessions \cup {NoSession}]
          /\ locks'[j] = t
          /\ \A u \in Workers : u # t => \A i \in Jobs : locks'[i] = u <=> locks[i] = u
      BY <1>4, <2>1, WorkerSession, LockEffect DEF TableInv
    <2>5. \A i \in Jobs : locks'[i] = t => i = j
      BY <1>2, <1>4 DEF LockedBy, Lock, TableInv, TypeOK
    <2> HIDE DEF x
    <2> QED
      BY <1>1, <2>1, <2>2, <2>3, <2>4, <2>5, WorkerSession, QuietKeeps DEF Attempting
  <1> QED
    BY <1>3, <1>4 DEF SelectNextJob

LEMMA FinishAttemptKeeps ==
    ASSUME TableInv, NEW t \in Workers, FinishAttempt(t)
    PROVE  TableInv'
  <1>1. UNCHANGED <<tables, clock>> /\ UNCHANGED locks /\ sessions[t].task = "run"
    BY DEF FinishAttempt
  <1>2. LockedBy(t) = {} /\ sessions[t].job # NoJob
    BY <1>1, WorkerSession DEF LocksOf
  <1>3. PICK x \in Session : /\ Become(t, x)
                             /\ x.task \in Outcomes
                             /\ x.job = sessions[t].job
                             /\ x.attempt_no = sessions[t].attempt_no
    <2> DEFINE Good(x) == /\ x.task \in Outcomes
                          /\ x.job = sessions[t].job
                          /\ x.attempt_no = sessions[t].attempt_no
    <2>1. sessions[t] \in Session /\ clock \in 0..Horizon
      BY WorkerSession DEF TableInv, TypeOK
    <2>2. LET x == [sessions[t] EXCEPT !.task = "succeeded"] IN x \in Session /\ Good(x)
      BY <2>1 DEF Session
    <2>3. LET x == [sessions[t] EXCEPT !.task = "failed", !.now = clock]
          IN  x \in Session /\ Good(x)
      BY <2>1 DEF Session
    <2> HIDE DEF Good
    <2>4. \E x \in Session : Become(t, x) /\ Good(x)
      BY <2>2, <2>3 DEF FinishAttempt
    <2> QED
      BY <2>4 DEF Good
  <1>4. Claims(t)
    BY <1>1 DEF Claims, Attempting
  <1>5. \A i \in Jobs : locks'[i] # t
    BY <1>1, <1>2 DEF LockedBy
  <1>6. sessions[t].job \in Jobs
    BY <1>4, ClaimTyped
  <1> QED
    BY <1>1, <1>2, <1>3, <1>4, <1>5, <1>6, SameLocks, WorkerSession, QuietKeeps

LEMMA UpdateOwnedJobKeeps ==
    ASSUME TableInv, NEW t \in Workers, UpdateOwnedJob(t)
    PROVE  TableInv'
  <1>1. /\ UNCHANGED <<tables, clock>>
        /\ sessions[t].task \in Outcomes
        /\ locks[sessions[t].job] # t
    BY DEF UpdateOwnedJob
  <1>2. LockedBy(t) = {}
    BY <1>1, WorkerSession DEF LocksOf, LockedBy
  <1>3. CASE Become(t, At("idle")) /\ UNCHANGED locks
    BY <1>1, <1>2, <1>3, AtFacts, WorkerSession, ForgetKeeps DEF Attempting
  <1>4. CASE /\ HoldsLease(t)
             /\ Free(sessions[t].job)
             /\ Lock(t, sessions[t].job)
             /\ UNCHANGED sessions
    <2>1. Claims(t)
      BY <1>1 DEF Claims, Attempting
    <2>2. PICK j \in Jobs : j = sessions[t].job
      BY <2>1, ClaimTyped
    <2>3. sessions[t] \in Session /\ Become(t, sessions[t])
      BY <1>4, WorkerSession DEF TableInv, TypeOK, Become
    <2>4. /\ locks' \in [Jobs -> Sessions \cup {NoSession}]
          /\ \A u \in Workers : u # t => \A i \in Jobs : locks'[i] = u <=> locks[i] = u
      BY <1>4, <2>2, WorkerSession, LockEffect DEF TableInv
    <2>5. \A i \in Jobs : locks'[i] = t => i = j
      BY <1>2, <1>4, <2>2 DEF LockedBy, Lock, TableInv, TypeOK
    <2>6. jobs[j].status = "running" /\ jobs[j].locked_by = WorkerId[t] /\ j # NoJob
      BY <1>4, <2>2, PgRequestAssumption DEF HoldsLease
    <2> QED
      BY <1>1, <2>1, <2>2, <2>3, <2>4, <2>5, <2>6, WorkerSession, QuietKeeps
  <1> QED
    BY <1>1, <1>3, <1>4 DEF UpdateOwnedJob

\* After an exception a worker is idle, or still has its claim.
LEMMA AfterExceptionFacts ==
    ASSUME TableInv, NEW t \in Workers, sessions[t].task \in Outcomes
    PROVE  /\ AfterException(t) \in Session
           /\ \/ AfterException(t).task = "idle"
              \/ /\ AfterException(t).task = "failed"
                 /\ AfterException(t).job = sessions[t].job
                 /\ AfterException(t).attempt_no = sessions[t].attempt_no
  <1>1. sessions[t] \in Session /\ clock \in 0..Horizon
    BY WorkerSession DEF TableInv, TypeOK
  <1> QED
    BY <1>1, AtFacts DEF AfterException, Session

LEMMA RollBackOutcomeKeeps ==
    ASSUME TableInv, NEW t \in Workers, RollBackOutcome(t)
    PROVE  TableInv'
  <1>1. UNCHANGED <<tables, clock>> /\ sessions[t].task \in Outcomes /\ Release(t)
    BY DEF RollBackOutcome
  <1>2. Claims(t)
    BY <1>1 DEF Claims, Attempting
  <1>3. sessions[t].job \in Jobs /\ sessions[t].job # NoJob
    BY <1>2, ClaimTyped, PgRequestAssumption
  <1>4. /\ locks' \in [Jobs -> Sessions \cup {NoSession}]
        /\ \A i \in Jobs : locks'[i] # t
        /\ \A u \in Workers : u # t => \A i \in Jobs : locks'[i] = u <=> locks[i] = u
    BY <1>1, WorkerSession, ReleaseEffect DEF TableInv
  <1>5. Become(t, AfterException(t))
    BY DEF RollBackOutcome
  <1>6. PICK x \in Session : x = AfterException(t)
    BY <1>1, AfterExceptionFacts
  <1>7. \/ x.task = "idle"
        \/ /\ x.task = "failed"
           /\ x.job = sessions[t].job
           /\ x.attempt_no = sessions[t].attempt_no
    BY <1>1, <1>6, AfterExceptionFacts
  <1> QED
    BY <1>1, <1>2, <1>3, <1>4, <1>5, <1>6, <1>7, WorkerSession, QuietKeeps DEF Attempting

LEMMA SelectRunningKeeps ==
    ASSUME TableInv, NEW t \in Workers, SelectRunning(t)
    PROVE  TableInv'
  <1>1. UNCHANGED <<tables, clock>> /\ UNCHANGED locks /\ TypeOK
    BY DEF SelectRunning, TableInv
  <1>2. PICK x \in Session : Become(t, x) /\ x.task = "reap"
    <2>1. JobsIn("running") \in SUBSET Jobs /\ Visit(t, "reap", JobsIn("running"))
      BY DEF JobsIn, SelectRunning
    <2> QED
      BY <1>1, <2>1, WorkerSession, VisitFacts
  <1> QED
    BY <1>1, <1>2, SameLocks, WorkerSession, QuietKeeps DEF Attempting

LEMMA ReapRowKeeps ==
    ASSUME TableInv, NEW t \in Workers, ReapRow(t)
    PROVE  TableInv'
  <1>1. UNCHANGED <<tables, clock>> /\ TypeOK
    BY DEF ReapRow, TableInv
  <1>2. PICK x \in Session : Become(t, x) /\ x.task = "reap"
    <2>1. Visit(t, "reap", sessions[t].rest)
      BY DEF ReapRow
    <2> QED
      BY <1>1, <2>1, WorkerSession, VisitFacts
  <1>3. /\ locks' \in [Jobs -> Sessions \cup {NoSession}]
        /\ \A u \in Workers : u # t => \A i \in Jobs : locks'[i] = u <=> locks[i] = u
    <2>1. CASE Free(sessions[t].job) /\ Lock(t, sessions[t].job)
      BY <1>1, <2>1, WorkerSession, LockEffect
    <2>2. CASE UNCHANGED locks
      BY <2>2, SameLocks
    <2> QED
      BY <2>1, <2>2 DEF ReapRow
  <1> QED
    BY <1>1, <1>2, <1>3, WorkerSession, QuietKeeps DEF Attempting

-----------------------------------------------------------------------------
(* Steps that write the tables: what they do to each row, and to the invariant *)

LEMMA InsertMoves ==
    ASSUME TableInv, NEW batch, InsertJobs(batch)
    PROVE  TypeOK' /\ (\A j \in Jobs : RowMove(j)) /\ LeavesOthers(NoSession)
  <1>1. PICK r \in RetryLimits, d \in Timeouts, at \in [batch -> RunAts] :
           jobs' = [j \in Jobs |-> IF j \in batch THEN NewRow(r, d, at[j]) ELSE jobs[j]]
    BY DEF InsertJobs
  <1>2. /\ batch \subseteq Jobs
        /\ \A j \in batch : jobs[j].status = "absent"
        /\ UNCHANGED <<job_attempts, dead_letters, locks, sessions, clock>>
    BY DEF InsertJobs, JobsIn
  <1>3. ASSUME NEW j \in batch
        PROVE  /\ jobs'[j] \in Row
               /\ jobs'[j].status = "queued"
               /\ jobs'[j].attempt_count = 0
               /\ jobs'[j].max_retries = r
    <2>1. at[j] \in RunAts /\ jobs'[j] = NewRow(r, d, at[j])
      BY <1>1, <1>2
    <2> QED
      BY <2>1, NewColumns
  <1>4. \A j \in Jobs : j \notin batch => jobs'[j] = jobs[j]
    BY <1>1
  <1>5. \A j \in Jobs : KeepsAttempts(j) /\ KeepsLetter(j)
    BY <1>2 DEF KeepsAttempts, KeepsLetter, Recorded
  <1>6. TypeOK'
    <2>1. \A j \in Jobs : jobs'[j] \in Row
      BY <1>3, <1>4 DEF TableInv, TypeOK
    <2>2. jobs' \in [Jobs -> Row]
      BY <1>1, <2>1
    <2> QED
      BY <1>2, <2>2 DEF TableInv, TypeOK
  <1>7. \A j \in Jobs : RowMove(j)
    BY <1>2, <1>3, <1>4, <1>5 DEF RowMove, Accepted, Stays
  <1>8. LeavesOthers(NoSession)
    BY <1>2, <1>4 DEF LeavesOthers
  <1> QED
    BY <1>6, <1>7, <1>8

\* What a commit writes is typed, and it ends the locks of its session alone.
LEMMA CommitEffect ==
    ASSUME TableInv, NEW s \in Sessions, NEW rows, NEW attempts, NEW dead,
           Commit(s, rows, attempts, dead),
           DOMAIN rows \subseteq LockedBy(s), \A j \in DOMAIN rows : rows[j] \in Row,
           DOMAIN attempts \subseteq Jobs \X Nat,
           \A key \in DOMAIN attempts : attempts[key] \in AttemptStatus,
           DOMAIN dead \subseteq Jobs, \A j \in DOMAIN dead : dead[j] \in Nat,
           NEW x \in Session, Become(s, x), UNCHANGED clock
    PROVE  /\ TypeOK'
           /\ LeavesOthers(s)
           /\ sessions'[s] = x
           /\ \A i \in Jobs : locks'[i] # s
  <1>1. \A j \in Jobs : jobs'[j] = IF j \in DOMAIN rows THEN rows[j] ELSE jobs[j]
    BY DEF Commit
  <1>2. jobs' \in [Jobs -> Row]
    BY DEF Commit, TableInv, TypeOK
  <1>3. /\ DOMAIN job_attempts' \subseteq Jobs \X Nat
        /\ \A key \in DOMAIN job_attempts' : job_attempts'[key] \in AttemptStatus
    BY DEF Commit, Upsert, TableInv, TypeOK
  <1>4. /\ DOMAIN dead_letters' \subseteq Jobs
        /\ \A j \in DOMAIN dead_letters' : dead_letters'[j] \in Nat
    BY DEF Commit, Upsert, TableInv, TypeOK
  <1>5. /\ locks' \in [Jobs -> Sessions \cup {NoSession}]
        /\ \A i \in Jobs : locks'[i] # s
        /\ \A u \in Workers : u # s => \A i \in Jobs : locks'[i] = u <=> locks[i] = u
    BY ReleaseEffect DEF Commit, TableInv
  <1>6. /\ sessions' \in [Sessions -> Session]
        /\ sessions'[s] = x
        /\ \A u \in Sessions : u # s => sessions'[u] = sessions[u]
    BY DEF TableInv, TypeOK, Become
  <1>7. TypeOK'
    BY <1>2, <1>3, <1>4, <1>5, <1>6 DEF TableInv, TypeOK
  <1>8. \A j \in Jobs : jobs'[j] = jobs[j] \/ locks[j] = s
    BY <1>1 DEF LockedBy
  <1>9. LeavesOthers(s)
    BY <1>5, <1>6, <1>8 DEF LeavesOthers, Sessions
  <1> QED
    BY <1>5, <1>6, <1>7, <1>9

\* What a commit does to one job.
LEMMA CommitRow ==
    ASSUME NEW s, NEW rows, NEW attempts, NEW dead, Commit(s, rows, attempts, dead),
           NEW j \in Jobs
    PROVE  /\ j \in DOMAIN rows => jobs'[j] = rows[j]
           /\ j \notin DOMAIN rows => jobs'[j] = jobs[j]
           /\ (\A m \in Nat : <<j, m>> \notin DOMAIN attempts) => KeepsAttempts(j)
           /\ j \notin DOMAIN dead => KeepsLetter(j)
           /\ j \in DOMAIN dead => j \in DOMAIN dead_letters' /\ dead_letters'[j] = dead[j]
  <1>1. /\ job_attempts' = Upsert(job_attempts, attempts)
        /\ dead_letters' = Upsert(dead_letters, dead)
    BY DEF Commit
  <1>2. /\ DOMAIN job_attempts' = DOMAIN job_attempts \cup DOMAIN attempts
        /\ \A k \in DOMAIN job_attempts :
              k \notin DOMAIN attempts => job_attempts'[k] = job_attempts[k]
    BY <1>1 DEF Upsert
  <1>3. /\ DOMAIN dead_letters' = DOMAIN dead_letters \cup DOMAIN dead
        /\ \A k \in DOMAIN dead : dead_letters'[k] = dead[k]
        /\ \A k \in DOMAIN dead_letters :
              k \notin DOMAIN dead => dead_letters'[k] = dead_letters[k]
    BY <1>1 DEF Upsert
  <1> QED
    BY <1>2, <1>3 DEF Commit, KeepsAttempts, KeepsLetter, Recorded

\* The attempt a commit records is added to those of its job.
LEMMA CommitAttempt ==
    ASSUME NEW s, NEW rows, NEW attempts, NEW dead, Commit(s, rows, attempts, dead),
           NEW j \in Jobs, NEW n \in Nat, NEW outcome,
           \A m \in Nat : <<j, m>> \in DOMAIN attempts <=> m = n,
           attempts[<<j, n>>] = outcome, ~Recorded(j, n)
    PROVE  AddsAttempt(j, n, outcome)
  <1>1. /\ DOMAIN job_attempts' = DOMAIN job_attempts \cup DOMAIN attempts
        /\ \A k \in DOMAIN attempts : job_attempts'[k] = attempts[k]
        /\ \A k \in DOMAIN job_attempts :
              k \notin DOMAIN attempts => job_attempts'[k] = job_attempts[k]
    BY DEF Commit, Upsert
  <1> QED
    BY <1>1 DEF AddsAttempt, Recorded

LEMMA EmptyTable ==
    DOMAIN << >> = {}
  OBVIOUS

\* COMMIT of a cancellation or a drain.
LEMMA CommitRequestMoves ==
    ASSUME TableInv, NEW c \in Clients, CommitRequest(c)
    PROVE  TypeOK' /\ (\A j \in Jobs : RowMove(j)) /\ LeavesOthers(c)
  <1> DEFINE rows == [j \in Cancelled(c) |-> [jobs[j] EXCEPT !.status = "cancelled"]]
  <1>1. Commit(c, rows, << >>, << >>) /\ Become(c, At("idle")) /\ UNCHANGED clock
    BY DEF CommitRequest
  <1>2. /\ DOMAIN rows = Cancelled(c)
        /\ Cancelled(c) \subseteq LockedBy(c)
        /\ \A j \in Cancelled(c) : j \in Jobs /\ jobs[j].status = "queued"
    BY DEF Cancelled, LockedBy
  <1>3. ASSUME NEW j \in Cancelled(c)
        PROVE  /\ rows[j] \in Row
               /\ rows[j].status = "cancelled"
               /\ rows[j].attempt_count = jobs[j].attempt_count
               /\ rows[j].max_retries = jobs[j].max_retries
    <2>1. jobs[j] \in Row
      BY <1>2 DEF TableInv, TypeOK
    <2>2. rows[j] = [jobs[j] EXCEPT !.status = "cancelled"]
      OBVIOUS
    <2> QED
      BY <2>1, <2>2 DEF Row
  <1> HIDE DEF rows
  <1>4. TypeOK' /\ LeavesOthers(c)
    BY <1>1, <1>2, <1>3, EmptyTable, ClientSession, AtFacts, CommitEffect
  <1>5. ASSUME NEW j \in Jobs
        PROVE  RowMove(j)
    <2>1. /\ j \in Cancelled(c) => jobs'[j] = rows[j]
          /\ j \notin Cancelled(c) => jobs'[j] = jobs[j]
          /\ KeepsAttempts(j)
          /\ KeepsLetter(j)
      BY <1>1, <1>2, EmptyTable, CommitRow
    <2> QED
      BY <1>2, <1>3, <2>1 DEF RowMove, Withdrawn, SameCount, SameBudget, Stays
  <1> QED
    BY <1>4, <1>5

\* A worker that has committed has no lock, so it only has to remember its job.
LEMMA UnlockedWorker ==
    ASSUME NEW t \in Workers, \A i \in Jobs : locks'[i] # t,
           sessions'[t].task = "idle" \/ sessions'[t].task \in Attempting,
           sessions'[t].task \in Attempting => sessions'[t].job \in Jobs
    PROVE  LocksOf(t)'
  BY PgRequestAssumption DEF LocksOf, LockedBy, Attempting

\* COMMIT of a claim.
LEMMA CommitClaimMoves ==
    ASSUME TableInv, NEW t \in Workers, CommitClaim(t)
    PROVE  /\ TypeOK' /\ (\A j \in Jobs : RowMove(j)) /\ LeavesOthers(t)
           /\ WorkerMove(t) /\ LocksOf(t)'
  <1>1. PICK j : j = sessions[t].job
    OBVIOUS
  <1>2. j \in Jobs /\ locks[j] = t /\ jobs[j].status = "queued" /\ jobs[j] \in Row
    BY <1>1, WorkerSession DEF CommitClaim, LocksOf, Session, TableInv, TypeOK
  <1>3. PICK lease : lease = [jobs[j] EXCEPT !.status = "running",
                                             !.locked_by = WorkerId[t],
                                             !.locked_at = sessions[t].now]
    OBVIOUS
  <1>4. WorkerId[t] \in WorkerIds /\ sessions[t].now \in Nat
    BY WorkerSession, PgSessionsAssumption, PgRequestAssumption
  <1>5. /\ lease \in Row
        /\ lease.status = "running"
        /\ lease.locked_by = WorkerId[t]
        /\ lease.attempt_count = jobs[j].attempt_count
        /\ lease.max_retries = jobs[j].max_retries
    BY <1>2, <1>3, <1>4 DEF Row
  <1> DEFINE rows == [k \in {j} |-> lease]
             run == [At("run") EXCEPT !.job = j, !.attempt_no = jobs[j].attempt_count + 1]
  <1>6. /\ Commit(t, rows, << >>, << >>)
        /\ UNCHANGED clock
        /\ Become(t, run) \/ Become(t, At("idle"))
    BY <1>1, <1>3 DEF CommitClaim
  <1>7. /\ run \in Session
        /\ run.task = "run"
        /\ run.job = j
        /\ run.attempt_no = jobs[j].attempt_count + 1
    <2>1. At("run") \in Session
      BY AtFacts
    <2>2. jobs[j].attempt_count + 1 \in Nat
      BY <1>2 DEF Row
    <2> QED
      BY <1>2, <2>1, <2>2, AtFacts DEF Session
  <1>8. DOMAIN rows = {j} /\ rows[j] = lease
    OBVIOUS
  <1> HIDE DEF rows, run
  <1>9. PICK x \in Session : Become(t, x) /\ (x = run \/ x.task = "idle")
    BY <1>6, <1>7, AtFacts
  <1>10. /\ TypeOK'
         /\ LeavesOthers(t)
         /\ sessions'[t] = x
         /\ \A i \in Jobs : locks'[i] # t
    <2>1. DOMAIN rows \subseteq LockedBy(t) /\ \A i \in DOMAIN rows : rows[i] \in Row
      BY <1>2, <1>5, <1>8 DEF LockedBy
    <2> QED
      BY <1>6, <1>9, <2>1, EmptyTable, WorkerSession, CommitEffect
  <1>11. /\ jobs'[j] = lease
         /\ \A i \in Jobs : KeepsAttempts(i) /\ KeepsLetter(i)
         /\ \A i \in Jobs : i # j => jobs'[i] = jobs[i]
    BY <1>2, <1>6, <1>8, EmptyTable, CommitRow
  <1>12. \A i \in Jobs : RowMove(i)
    BY <1>2, <1>5, <1>11 DEF RowMove, Leased, SameCount, SameBudget, Stays
  <1>13. WorkerMove(t)
    <2>1. CASE x = run
      <3>1. Begins(t, j)
        BY <1>2, <1>5, <1>7, <1>10, <1>11, <2>1 DEF Begins
      <3> QED
        BY <1>2, <3>1 DEF WorkerMove
    <2>2. CASE x.task = "idle"
      BY <1>10, <2>2 DEF WorkerMove, Forgets, Attempting
    <2> QED
      BY <1>9, <2>1, <2>2
  <1>14. LocksOf(t)'
    BY <1>2, <1>7, <1>9, <1>10, UnlockedWorker DEF Attempting
  <1> QED
    BY <1>10, <1>12, <1>13, <1>14

\* COMMIT of the outcome of an attempt, which the fence and the index have let through.
LEMMA CommitOutcomeMoves ==
    ASSUME TableInv, NEW t \in Workers, CommitOutcome(t)
    PROVE  /\ TypeOK' /\ (\A j \in Jobs : RowMove(j)) /\ LeavesOthers(t)
           /\ WorkerMove(t) /\ LocksOf(t)'
  <1>1. Claims(t) /\ sessions[t].task \in Outcomes
    BY DEF CommitOutcome, Claims, Attempting
  <1>2. PICK j \in Jobs : j = sessions[t].job
    BY <1>1, ClaimTyped
  <1>3. PICK n \in Nat : n = sessions[t].attempt_no
    BY <1>1, ClaimTyped
  <1>4. PICK outcome \in Outcomes : outcome = sessions[t].task
    BY <1>1
  <1>5. PICK now \in Nat : now = sessions[t].now
    BY WorkerSession
  <1>6. PICK dead : dead = IF outcome = "succeeded" \/ WillRetry(j, n) THEN {} ELSE {j}
    OBVIOUS
  <1>7. PICK backoff \in Backoffs :
           Commit(t,
                  [k \in {j} |-> IF outcome = "succeeded" THEN AfterSuccess(j, n)
                                 ELSE AfterFailure(j, n, now, now + backoff)],
                  [key \in {<<j, n>>} |-> outcome],
                  [k \in dead |-> n])
    BY <1>2, <1>3, <1>4, <1>5, <1>6 DEF CommitOutcome
  <1>8. /\ locks[j] = t
        /\ ~Recorded(j, n)
        /\ Become(t, At("idle")) \/ Become(t, AfterException(t))
        /\ UNCHANGED clock
    BY <1>2, <1>3 DEF CommitOutcome, IndexAccepts
  <1>9. jobs[j] \in Row /\ jobs[j].status = "running" /\ n = jobs[j].attempt_count + 1
    <2>1. Holds(t, j, n)
      BY <1>1, <1>2, <1>3 DEF Holds
    <2>2. n = jobs[j].attempt_count + 1 /\ HoldsLease(t)
      BY <1>3, <1>8, <2>1 DEF TableInv, ClaimCurrentOrRecorded
    <2> QED
      BY <1>2, <2>2 DEF HoldsLease, TableInv, TypeOK
  <1>10. PICK row : row = IF outcome = "succeeded" THEN AfterSuccess(j, n)
                          ELSE AfterFailure(j, n, now, now + backoff)
    OBVIOUS
  <1>11. /\ row \in Row
         /\ row.status = IF outcome = "succeeded" THEN "succeeded"
                         ELSE IF n <= jobs[j].max_retries THEN "queued" ELSE "dead_lettered"
         /\ row.attempt_count = n
         /\ row.max_retries = jobs[j].max_retries
    <2>1. CASE outcome = "succeeded"
      BY <1>9, <1>10, <2>1, SuccessColumns
    <2>2. CASE outcome # "succeeded"
      <3>1. backoff \in Nat
        BY PgRequestAssumption
      <3>2. now + backoff \in Nat
        BY <3>1
      <3> QED
        BY <1>9, <1>10, <2>2, <3>2, FailureColumns DEF WillRetry
    <2> QED
      BY <2>1, <2>2
  <1> DEFINE rows == [k \in {j} |-> row]
             attempts == [key \in {<<j, n>>} |-> outcome]
             letters == [k \in dead |-> n]
  <1>12. Commit(t, rows, attempts, letters)
    BY <1>7, <1>10
  <1>13. /\ DOMAIN rows = {j} /\ rows[j] = row
         /\ DOMAIN attempts = {<<j, n>>} /\ attempts[<<j, n>>] = outcome
         /\ DOMAIN letters = dead /\ \A k \in dead : letters[k] = n
    OBVIOUS
  <1> HIDE DEF rows, attempts, letters
  <1>14. PICK x \in Session : /\ Become(t, x)
                              /\ \/ x.task = "idle"
                                 \/ x.task = "failed" /\ x.job = j /\ x.attempt_no = n
    BY <1>1, <1>2, <1>3, <1>8, AtFacts, AfterExceptionFacts
  <1>15. /\ TypeOK'
         /\ LeavesOthers(t)
         /\ sessions'[t] = x
         /\ \A i \in Jobs : locks'[i] # t
    <2>1. DOMAIN rows \subseteq LockedBy(t) /\ \A i \in DOMAIN rows : rows[i] \in Row
      BY <1>8, <1>11, <1>13 DEF LockedBy
    <2>2. /\ DOMAIN attempts \subseteq Jobs \X Nat
          /\ \A key \in DOMAIN attempts : attempts[key] \in AttemptStatus
      BY <1>13
    <2>3. DOMAIN letters \subseteq Jobs /\ \A i \in DOMAIN letters : letters[i] \in Nat
      BY <1>6, <1>13
    <2> QED
      BY <1>8, <1>12, <1>14, <2>1, <2>2, <2>3, WorkerSession, CommitEffect
  <1>16. AddsAttempt(j, n, outcome)
    BY <1>8, <1>12, <1>13, CommitAttempt
  <1>17. /\ jobs'[j] = row
         /\ j \notin dead => KeepsLetter(j)
         /\ j \in dead => j \in DOMAIN dead_letters' /\ dead_letters'[j] = n
    BY <1>12, <1>13, CommitRow
  <1>18. ASSUME NEW i \in Jobs, i # j
         PROVE  Stays(i)
    <2>1. /\ i \notin DOMAIN rows
          /\ \A m \in Nat : <<i, m>> \notin DOMAIN attempts
          /\ i \notin DOMAIN letters
      BY <1>6, <1>13, <1>18
    <2> QED
      BY <1>12, <2>1, CommitRow DEF Stays
  <1>19. RowMove(j)
    <2>1. SameBudget(j) /\ jobs'[j].attempt_count = n
      BY <1>11, <1>17 DEF SameBudget
    <2>2. CASE outcome = "succeeded"
      <3>1. Completed(j)
        BY <1>6, <1>9, <1>11, <1>16, <1>17, <2>1, <2>2 DEF Completed
      <3> QED
        BY <3>1 DEF RowMove
    <2>3. CASE outcome = "failed"
      <3>1. /\ jobs'[j].status = IF n <= jobs[j].max_retries
                                 THEN "queued" ELSE "dead_lettered"
            /\ IF n <= jobs[j].max_retries
               THEN KeepsLetter(j)
               ELSE j \in DOMAIN dead_letters' /\ dead_letters'[j] = n
        BY <1>6, <1>11, <1>17, <2>3 DEF WillRetry
      <3>2. Failed(j)
        BY <1>9, <1>16, <2>1, <2>3, <3>1 DEF Failed
      <3> QED
        BY <3>2 DEF RowMove
    <2> QED
      BY <2>2, <2>3
  <1>20. WorkerMove(t)
    BY <1>1, <1>2, <1>3, <1>14, <1>15 DEF WorkerMove, Forgets, Continues, Attempting
  <1>21. LocksOf(t)'
    BY <1>14, <1>15, UnlockedWorker DEF Attempting
  <1>22. \A i \in Jobs : RowMove(i)
    BY <1>18, <1>19 DEF RowMove
  <1> QED
    BY <1>15, <1>20, <1>21, <1>22

\* COMMIT of the lease reaper.
LEMMA CommitRecoveryMoves ==
    ASSUME TableInv, NEW t \in Workers, CommitRecovery(t)
    PROVE  /\ TypeOK' /\ (\A j \in Jobs : RowMove(j)) /\ LeavesOthers(t)
           /\ WorkerMove(t) /\ LocksOf(t)'
  <1> DEFINE next(j) == jobs[j].attempt_count + 1
  <1>1. PICK stale \in SUBSET Jobs : stale = StaleJobs(t)
    BY DEF StaleJobs, LockedBy
  <1>2. PICK now \in Nat : now = sessions[t].now
    BY WorkerSession
  <1>3. PICK exhausted : exhausted = {j \in stale : ~WillRetry(j, next(j))}
    OBVIOUS
  <1>4. PICK abandoned : abandoned = {<<j, next(j)>> : j \in stale}
    OBVIOUS
  <1> DEFINE rows == [j \in stale |-> AfterFailure(j, next(j), now, now)]
             attempts == [key \in abandoned |-> "abandoned"]
             letters == [j \in exhausted |-> next(j)]
  <1>5. /\ \A j \in stale : IndexAccepts(j, next(j))
        /\ Commit(t, rows, attempts, letters)
        /\ Become(t, At("idle"))
        /\ UNCHANGED clock
    BY <1>1, <1>2, <1>3, <1>4 DEF CommitRecovery
  <1>6. /\ DOMAIN rows = stale
        /\ DOMAIN attempts = abandoned /\ \A key \in abandoned : attempts[key] = "abandoned"
        /\ DOMAIN letters = exhausted
    OBVIOUS
  <1>7. ASSUME NEW j \in stale
        PROVE  /\ locks[j] = t /\ jobs[j].status = "running"
               /\ jobs[j] \in Row /\ next(j) \in Nat
               /\ ~Recorded(j, next(j))
               /\ rows[j] = AfterFailure(j, next(j), now, now)
    BY <1>1, <1>5 DEF StaleJobs, LockedBy, IndexAccepts, TableInv, TypeOK, Row
  <1>8. ASSUME NEW j \in stale
        PROVE  /\ rows[j] \in Row
               /\ rows[j].status = IF next(j) <= jobs[j].max_retries
                                   THEN "queued" ELSE "dead_lettered"
               /\ rows[j].attempt_count = next(j)
               /\ rows[j].max_retries = jobs[j].max_retries
    <2>1. PICK n \in Nat : n = next(j)
      BY <1>7
    <2>2. rows[j] = AfterFailure(j, n, now, now) /\ jobs[j] \in Row
      BY <1>7, <2>1
    <2> HIDE DEF rows, next
    <2> QED
      BY <2>1, <2>2, FailureColumns DEF WillRetry
  <1>9. \A j \in Jobs, m \in Nat : <<j, m>> \in abandoned <=> j \in stale /\ m = next(j)
    BY <1>4
  <1>10. /\ exhausted \subseteq stale
         /\ \A j \in stale : j \in exhausted <=> ~(next(j) <= jobs[j].max_retries)
         /\ \A j \in exhausted : letters[j] = next(j)
    BY <1>3 DEF WillRetry
  <1> HIDE DEF rows, attempts, letters
  <1>11. /\ TypeOK'
         /\ LeavesOthers(t)
         /\ sessions'[t] = At("idle")
         /\ \A i \in Jobs : locks'[i] # t
    <2>1. DOMAIN rows \subseteq LockedBy(t) /\ \A i \in DOMAIN rows : rows[i] \in Row
      BY <1>6, <1>7, <1>8 DEF LockedBy
    <2>2. DOMAIN attempts \subseteq Jobs \X Nat
      BY <1>4, <1>6, <1>7
    <2>3. \A key \in DOMAIN attempts : attempts[key] \in AttemptStatus
      BY <1>6
    <2>4. DOMAIN letters \subseteq Jobs /\ \A i \in DOMAIN letters : letters[i] \in Nat
      BY <1>6, <1>7, <1>10
    <2>5. At("idle") \in Session
      BY AtFacts
    <2> HIDE DEF next
    <2> QED
      BY <1>5, <2>1, <2>2, <2>3, <2>4, <2>5, WorkerSession, CommitEffect
  <1>12. ASSUME NEW j \in Jobs, j \notin stale
         PROVE  RowMove(j)
    <2>1. /\ j \notin DOMAIN rows
          /\ \A m \in Nat : <<j, m>> \notin DOMAIN attempts
          /\ j \notin DOMAIN letters
      BY <1>6, <1>9, <1>10, <1>12
    <2> QED
      BY <1>5, <2>1, CommitRow DEF RowMove, Stays
  <1>13. ASSUME NEW j \in stale
         PROVE  RowMove(j)
    <2>1. PICK n \in Nat : n = next(j)
      BY <1>7
    <2>2. /\ \A m \in Nat : <<j, m>> \in DOMAIN attempts <=> m = n
          /\ attempts[<<j, n>>] = "abandoned"
          /\ ~Recorded(j, n)
      BY <1>6, <1>7, <1>9, <2>1
    <2>3. AddsAttempt(j, n, "abandoned")
      BY <1>5, <2>2, CommitAttempt
    <2>4. /\ jobs'[j] = rows[j]
          /\ j \notin exhausted => KeepsLetter(j)
          /\ j \in exhausted => j \in DOMAIN dead_letters' /\ dead_letters'[j] = letters[j]
      BY <1>5, <1>6, CommitRow
    <2>5. /\ jobs[j].status = "running"
          /\ jobs'[j].status = IF n <= jobs[j].max_retries THEN "queued" ELSE "dead_lettered"
          /\ jobs'[j].attempt_count = n
          /\ SameBudget(j)
      BY <1>7, <1>8, <2>1, <2>4 DEF SameBudget
    <2>6. IF n <= jobs[j].max_retries
          THEN KeepsLetter(j)
          ELSE j \in DOMAIN dead_letters' /\ dead_letters'[j] = n
      BY <1>10, <2>1, <2>4
    <2>7. Failed(j)
      BY <2>1, <2>3, <2>5, <2>6 DEF Failed
    <2> QED
      BY <2>7 DEF RowMove
  <1>14. WorkerMove(t) /\ LocksOf(t)'
    BY <1>11, AtFacts, UnlockedWorker DEF WorkerMove, Forgets, Attempting
  <1> QED
    BY <1>11, <1>12, <1>13, <1>14

-----------------------------------------------------------------------------
(* Every step preserves the invariant of the tables *)

LEMMA QuietStep ==
    ASSUME TableInv, UNCHANGED <<jobs, job_attempts, dead_letters, locks, sessions>>,
           clock' \in 0..Horizon
    PROVE  TableInv'
  BY DEF TableInv, TypeOK, AttemptLedger, RowsInBudget, DeadLetterExact, LocksProtect, LocksOf,
         LockedBy, HoldsLease, ClaimCurrentOrRecorded, SingleOwner, Holds, Recorded

LEMMA InsertKeeps ==
    ASSUME TableInv, NEW batch, InsertJobs(batch)
    PROVE  TableInv'
  <1>1. NoSession \notin Workers
    BY PgSessionsAssumption DEF Sessions
  <1> QED
    BY <1>1, InsertMoves, StepKeeps

LEMMA RequestStepKeeps ==
    ASSUME TableInv, NEW c \in Clients, RequestStep(c)
    PROVE  TableInv'
  <1>1. ASSUME CommitRequest(c) PROVE TableInv'
    BY <1>1, ClientSession, CommitRequestMoves, StepKeeps
  <1> QED
    BY <1>1, RequestCancelKeeps, RequestDrainKeeps, CancelRowKeeps, DrainRowKeeps,
       RollBackRequestKeeps DEF RequestStep

LEMMA WorkerStepKeeps ==
    ASSUME TableInv, NEW t \in Workers, WorkerStep(t)
    PROVE  TableInv'
  <1>1. ASSUME BeginClaim(t) PROVE TableInv'
    BY <1>1, BeginKeeps DEF BeginClaim
  <1>2. ASSUME BeginRecovery(t) PROVE TableInv'
    BY <1>2, BeginKeeps DEF BeginRecovery
  <1>3. ASSUME CommitClaim(t) PROVE TableInv'
    BY <1>3, CommitClaimMoves, StepKeeps
  <1>4. ASSUME CommitOutcome(t) PROVE TableInv'
    BY <1>4, CommitOutcomeMoves, StepKeeps
  <1>5. ASSUME CommitRecovery(t) PROVE TableInv'
    BY <1>5, CommitRecoveryMoves, StepKeeps
  <1>6. ASSUME SelectNextJob(t) \/ FinishAttempt(t) \/ UpdateOwnedJob(t) PROVE TableInv'
    BY <1>6, SelectNextJobKeeps, FinishAttemptKeeps, UpdateOwnedJobKeeps
  <1>7. ASSUME RollBackOutcome(t) \/ SelectRunning(t) \/ ReapRow(t) \/ CrashWorker(t)
        PROVE  TableInv'
    BY <1>7, RollBackOutcomeKeeps, SelectRunningKeeps, ReapRowKeeps, CrashWorkerKeeps
  <1> QED
    BY <1>1, <1>2, <1>3, <1>4, <1>5, <1>6, <1>7 DEF WorkerStep

LEMMA TableInvKept ==
    TableInv /\ [Next]_vars => TableInv'
  <1> SUFFICES ASSUME TableInv, [Next]_vars PROVE TableInv'
    OBVIOUS
  <1>1. ASSUME NEW j \in Jobs, CreateJob(j) PROVE TableInv'
    BY <1>1, InsertKeeps DEF CreateJob
  <1>2. ASSUME CreateJobsBatch PROVE TableInv'
    BY <1>2, InsertKeeps DEF CreateJobsBatch
  <1>3. ASSUME Tick PROVE TableInv'
    <2>1. clock' \in 0..Horizon
      BY <1>3, PgRequestAssumption DEF Tick, TableInv, TypeOK
    <2> QED
      BY <1>3, <2>1, QuietStep DEF Tick, tables
  <1>4. ASSUME UNCHANGED vars PROVE TableInv'
    <2>1. clock' \in 0..Horizon
      BY <1>4 DEF vars, TableInv, TypeOK
    <2> QED
      BY <1>4, <2>1, QuietStep DEF vars
  <1> QED
    BY <1>1, <1>2, <1>3, <1>4, RequestStepKeeps, WorkerStepKeeps DEF Next

-----------------------------------------------------------------------------
(* Sessions that wait *)

\* A step of s lets the locks of everyone else alone.
OthersKeepLocks(s) == \A u \in Sessions : u # s => \A i \in Jobs : locks'[i] = u <=> locks[i] = u

LEMMA LocksKept ==
    ASSUME TypeOK, NEW s \in Sessions, NEW j,
           \/ UNCHANGED locks
           \/ Release(s)
           \/ (j \in Jobs => Free(j)) /\ Lock(s, j)
    PROVE  OthersKeepLocks(s)
  <1>1. CASE UNCHANGED locks
    BY <1>1 DEF OthersKeepLocks
  <1>2. CASE Release(s)
    BY <1>2, PgSessionsAssumption DEF TypeOK, Release, OthersKeepLocks
  <1>3. CASE (j \in Jobs => Free(j)) /\ Lock(s, j)
    BY <1>3, PgSessionsAssumption DEF TypeOK, Lock, Free, OthersKeepLocks
  <1> QED
    BY <1>1, <1>2, <1>3

LEMMA BecomeEffect ==
    ASSUME TypeOK, NEW s \in Sessions, NEW x, Become(s, x)
    PROVE  sessions'[s] = x /\ \A u \in Sessions : u # s => sessions'[u] = sessions[u]
  BY DEF TypeOK, Become

\* Where a worker is after its step, whatever the step was.
WorkerAt(x) ==
    /\ x.task \in Tasks \ {"cancel", "drain"}
    /\ x.task \in {"idle", "recover"} => x.job = NoJob

LEMMA WorkerGoes ==
    ASSUME TableInv, NEW t \in Workers, WorkerStep(t)
    PROVE  /\ WorkerAt(sessions'[t]) \/ UNCHANGED sessions
           /\ \A u \in Sessions : u # t => sessions'[u] = sessions[u]
           /\ OthersKeepLocks(t)
  <1>1. TypeOK /\ t \in Sessions /\ sessions[t] \in Session
    BY WorkerSession DEF TableInv
  <1>2. \A task \in {"idle", "claim", "run", "recover"} :
           At(task) \in Session /\ At(task).task = task /\ At(task).job = NoJob
    BY AtFacts
  <1>3. OthersKeepLocks(t)
    <2>1. CASE UpdateOwnedJob(t)
      <3>1. UNCHANGED locks \/ (Free(sessions[t].job) /\ Lock(t, sessions[t].job))
        BY <2>1 DEF UpdateOwnedJob
      <3> QED
        BY <1>1, <3>1, LocksKept
    <2>2. CASE ReapRow(t)
      <3>1. UNCHANGED locks \/ (Free(sessions[t].job) /\ Lock(t, sessions[t].job))
        BY <2>2 DEF ReapRow
      <3> QED
        BY <1>1, <3>1, LocksKept
    <2>3. CASE SelectNextJob(t)
      <3>1. UNCHANGED locks \/ \E j \in Jobs : Free(j) /\ Lock(t, j)
        BY <2>3 DEF SelectNextJob, Claimable, JobsIn
      <3> QED
        BY <1>1, <3>1, LocksKept
    <2>4. CASE UNCHANGED locks \/ Release(t)
      BY <1>1, <2>4, LocksKept
    <2> QED
      BY <2>1, <2>2, <2>3, <2>4 DEF WorkerStep, BeginClaim, CommitClaim, FinishAttempt,
         CommitOutcome, RollBackOutcome, BeginRecovery, SelectRunning, CommitRecovery,
         CrashWorker, Commit
  <1>4. ASSUME NEW x, Become(t, x), WorkerAt(x)
        PROVE  /\ WorkerAt(sessions'[t])
               /\ \A u \in Sessions : u # t => sessions'[u] = sessions[u]
    BY <1>1, <1>4, BecomeEffect
  <1>5. (\E x : Become(t, x) /\ WorkerAt(x)) \/ UNCHANGED sessions
    <2>1. CASE Become(t, At("idle"))
      BY <1>2, <2>1 DEF WorkerAt
    <2>2. CASE BeginClaim(t)
      <3>1. LET x == [At("claim") EXCEPT !.now = clock] IN Become(t, x) /\ WorkerAt(x)
        BY <1>2, <2>2 DEF BeginClaim, WorkerAt, Session
      <3> QED
        BY <3>1
    <2>3. CASE BeginRecovery(t)
      <3>1. LET x == [At("recover") EXCEPT !.now = clock] IN Become(t, x) /\ WorkerAt(x)
        BY <1>2, <2>3 DEF BeginRecovery, WorkerAt, Session
      <3> QED
        BY <3>1
    <2>4. CASE SelectNextJob(t) /\ ~Become(t, At("idle"))
      <3>1. PICK j : Become(t, [sessions[t] EXCEPT !.job = j])
        BY <2>4 DEF SelectNextJob
      <3>2. WorkerAt([sessions[t] EXCEPT !.job = j])
        BY <1>1, <2>4 DEF SelectNextJob, WorkerAt, Session
      <3> QED
        BY <3>1, <3>2
    <2>5. CASE CommitClaim(t) /\ ~Become(t, At("idle"))
      <3>1. PICK j, n : Become(t, [At("run") EXCEPT !.job = j, !.attempt_no = n])
        BY <2>5 DEF CommitClaim
      <3>2. WorkerAt([At("run") EXCEPT !.job = j, !.attempt_no = n])
        BY <1>2 DEF WorkerAt, Session
      <3> QED
        BY <3>1, <3>2
    <2>6. CASE FinishAttempt(t)
      <3>1. /\ WorkerAt([sessions[t] EXCEPT !.task = "succeeded"])
            /\ WorkerAt([sessions[t] EXCEPT !.task = "failed", !.now = clock])
        BY <1>1 DEF WorkerAt, Session
      <3> QED
        BY <2>6, <3>1 DEF FinishAttempt
    <2>7. CASE Become(t, AfterException(t)) /\ sessions[t].task \in Outcomes
      <3>1. PICK x : x = AfterException(t)
        OBVIOUS
      <3>2. (x.task = "idle" /\ x.job = NoJob) \/ x.task = "failed"
        BY <1>1, <1>2, <3>1 DEF AfterException, Session
      <3> QED
        BY <2>7, <3>1, <3>2 DEF WorkerAt
    <2>8. ASSUME NEW left \in SUBSET Jobs, Visit(t, "reap", left)
          PROVE  \E x : Become(t, x) /\ WorkerAt(x)
      <3>1. PICK x \in Session : Become(t, x) /\ x.task = "reap"
        BY <1>1, <2>8, VisitFacts
      <3> QED
        BY <3>1 DEF WorkerAt
    <2>9. CASE SelectRunning(t)
      <3>1. JobsIn("running") \in SUBSET Jobs /\ Visit(t, "reap", JobsIn("running"))
        BY <2>9 DEF SelectRunning, JobsIn
      <3> QED
        BY <2>8, <3>1
    <2>10. CASE ReapRow(t)
      <3>1. sessions[t].rest \in SUBSET Jobs /\ Visit(t, "reap", sessions[t].rest)
        BY <2>10, WorkerSession DEF ReapRow
      <3> QED
        BY <2>8, <3>1
    <2>11. CASE UpdateOwnedJob(t)
      BY <2>1, <2>11 DEF UpdateOwnedJob
    <2>12. CASE CommitOutcome(t) \/ RollBackOutcome(t)
      BY <2>1, <2>7, <2>12 DEF CommitOutcome, RollBackOutcome
    <2>13. CASE CommitRecovery(t) \/ CrashWorker(t)
      BY <2>1, <2>13 DEF CommitRecovery, CrashWorker
    <2> QED
      BY <2>1, <2>2, <2>3, <2>4, <2>5, <2>6, <2>9, <2>10, <2>11, <2>12, <2>13 DEF WorkerStep
  <1> QED
    BY <1>3, <1>4, <1>5

\* Where a request is after its step, and what it has locked.
ClientAt(c) ==
    /\ sessions'[c].task \in {"idle", "cancel", "drain"}
    /\ sessions'[c].task = "idle" =>
          sessions'[c].job = NoJob /\ \A i \in Jobs : locks'[i] # c
    /\ sessions'[c].task = "cancel" => \A i \in Jobs : locks'[i] = c => i = sessions'[c].job

LEMMA ClientGoes ==
    ASSUME TableInv, OneRowAtATime, NEW c \in Clients, RequestStep(c)
    PROVE  /\ ClientAt(c)
           /\ \A u \in Sessions : u # c => sessions'[u] = sessions[u]
           /\ OthersKeepLocks(c)
  <1>1. TypeOK /\ c \in Sessions /\ c \notin Workers /\ sessions[c] \in Session
    BY ClientSession DEF TableInv, TypeOK
  <1>2. /\ sessions[c].task = "idle" => \A i \in Jobs : locks[i] # c
        /\ sessions[c].task = "cancel" => \A i \in Jobs : locks[i] = c => i = sessions[c].job
    BY <1>1 DEF OneRowAtATime, LockedBy
  <1>3. \A task \in {"idle", "cancel"} :
           At(task) \in Session /\ At(task).task = task /\ At(task).job = NoJob
    BY AtFacts
  <1>4. ASSUME NEW x, Become(c, x)
        PROVE  sessions'[c] = x /\ \A u \in Sessions : u # c => sessions'[u] = sessions[u]
    BY <1>1, <1>4, BecomeEffect
  <1>5. ASSUME Become(c, At("idle")), Release(c)
        PROVE  /\ ClientAt(c)
               /\ \A u \in Sessions : u # c => sessions'[u] = sessions[u]
               /\ OthersKeepLocks(c)
    <2>1. OthersKeepLocks(c) /\ \A i \in Jobs : locks'[i] # c
      BY <1>1, <1>5, LocksKept, ReleaseEffect
    <2> QED
      BY <1>3, <1>4, <1>5, <2>1 DEF ClientAt
  <1>6. ASSUME NEW left \in SUBSET Jobs, Visit(c, "drain", left)
        PROVE  ClientAt(c) /\ \A u \in Sessions : u # c => sessions'[u] = sessions[u]
    <2>1. PICK x \in Session : Become(c, x) /\ x.task = "drain"
      BY <1>1, <1>6, VisitFacts
    <2> QED
      BY <1>4, <2>1 DEF ClientAt
  <1>7. CASE \E j \in Jobs : RequestCancel(c, j)
    <2>1. PICK j \in Jobs : RequestCancel(c, j)
      BY <1>7
    <2>2. [At("cancel") EXCEPT !.job = j].task = "cancel"
      BY <1>3 DEF Session
    <2>3. Become(c, [At("cancel") EXCEPT !.job = j]) /\ UNCHANGED locks
          /\ sessions[c].task = "idle"
      BY <2>1 DEF RequestCancel
    <2>4. OthersKeepLocks(c)
      BY <1>1, <2>3, LocksKept
    <2> QED
      BY <1>2, <1>4, <2>2, <2>3, <2>4 DEF ClientAt
  <1>8. CASE RequestDrain(c)
    <2>1. JobsIn("queued") \in SUBSET Jobs /\ Visit(c, "drain", JobsIn("queued"))
          /\ UNCHANGED locks
      BY <1>8 DEF RequestDrain, JobsIn
    <2> QED
      BY <1>1, <1>6, <2>1, LocksKept
  <1>9. CASE CancelRow(c)
    <2>1. sessions[c].task = "cancel" /\ locks[sessions[c].job] # c
      BY <1>9 DEF CancelRow
    <2>2. \A i \in Jobs : locks[i] # c
      BY <1>2, <2>1
    <2>3. CASE Become(c, At("idle")) /\ UNCHANGED locks
      BY <1>1, <1>3, <1>4, <2>2, <2>3, LocksKept DEF ClientAt
    <2>4. CASE Free(sessions[c].job) /\ Lock(c, sessions[c].job) /\ UNCHANGED sessions
      <3>1. OthersKeepLocks(c)
        BY <1>1, <2>4, LocksKept
      <3>2. \A i \in Jobs : locks'[i] = c => i = sessions[c].job
        BY <1>1, <2>2, <2>4 DEF Lock, TypeOK
      <3> QED
        BY <2>1, <2>4, <3>1, <3>2 DEF ClientAt
    <2> QED
      BY <1>9, <2>3, <2>4 DEF CancelRow
  <1>10. CASE DrainRow(c)
    <2>1. /\ Free(sessions[c].job) /\ Lock(c, sessions[c].job)
          /\ sessions[c].rest \in SUBSET Jobs /\ Visit(c, "drain", sessions[c].rest)
      BY <1>1, <1>10 DEF DrainRow, Session
    <2> QED
      BY <1>1, <1>6, <2>1, LocksKept
  <1>11. CASE CommitRequest(c) \/ RollBackRequest(c)
    BY <1>5, <1>11 DEF CommitRequest, RollBackRequest, Commit
  <1> QED
    BY <1>7, <1>8, <1>9, <1>10, <1>11 DEF RequestStep

\* So only drains hold a lock when they wait for another.
LEMMA OneRowKept ==
    ASSUME TableInv, TableInv', OneRowAtATime, [Next]_vars
    PROVE  OneRowAtATime'
  <1>1. ASSUME NEW t \in Workers, WorkerStep(t)
        PROVE  OneRowAtATime'
    <2>1. /\ WorkerAt(sessions'[t]) \/ UNCHANGED sessions
          /\ \A u \in Sessions : u # t => sessions'[u] = sessions[u]
          /\ OthersKeepLocks(t)
      BY <1>1, WorkerGoes
    <2>2. t \notin Clients /\ t \in Sessions
      BY PgSessionsAssumption DEF Sessions
    <2>3. WorkerAt(sessions'[t])
      BY <2>1, <2>2 DEF OneRowAtATime, WorkerAt
    <2>4. sessions'[t].task = "idle" => \A i \in Jobs : locks'[i] # t
      BY DEF TableInv, LocksProtect, LocksOf, LockedBy
    <2> QED
      BY <2>1, <2>2, <2>3, <2>4 DEF OneRowAtATime, OthersKeepLocks, LockedBy, WorkerAt
  <1>2. ASSUME NEW c \in Clients, RequestStep(c)
        PROVE  OneRowAtATime'
    <2>1. /\ ClientAt(c)
          /\ \A u \in Sessions : u # c => sessions'[u] = sessions[u]
          /\ OthersKeepLocks(c)
      BY <1>2, ClientGoes
    <2> QED
      BY <2>1 DEF OneRowAtATime, OthersKeepLocks, LockedBy, ClientAt
  <1>3. ASSUME UNCHANGED <<locks, sessions>>
        PROVE  OneRowAtATime'
    BY <1>3 DEF OneRowAtATime, LockedBy
  <1> QED
    BY <1>1, <1>2, <1>3 DEF Next, CreateJob, CreateJobsBatch, InsertJobs, Tick, vars

\* No reading of the clock is from the future: a session keeps what it has read, or reads
\* the present, or forgets.
LEMMA ReadingsKept ==
    ASSUME TableInv, ReadingsArePast, [Next]_vars
    PROVE  ReadingsArePast'
  <1>1. /\ TypeOK /\ clock \in Nat
        /\ \A s \in Sessions : sessions[s] \in Session /\ sessions[s].now \in Nat
    BY PgRequestAssumption DEF TableInv, TypeOK, Session
  <1>2. 0 <= clock /\ clock <= clock
    BY <1>1
  <1>3. ASSUME NEW s \in Sessions, NEW x, Become(s, x), UNCHANGED clock,
               x.now \in {0, clock, sessions[s].now}
        PROVE  ReadingsArePast'
    BY <1>1, <1>2, <1>3, BecomeEffect DEF ReadingsArePast
  <1>4. \A task \in Tasks : At(task).now = 0 /\ At(task) \in Session
    BY AtFacts DEF At
  <1>5. ASSUME NEW s \in Sessions, NEW task \in Tasks, NEW left, Visit(s, task, left),
               UNCHANGED clock
        PROVE  ReadingsArePast'
    <2>1. PICK j, rest : Become(s, [sessions[s] EXCEPT !.task = task, !.job = j, !.rest = rest])
      BY <1>5 DEF Visit
    <2>2. [sessions[s] EXCEPT !.task = task, !.job = j, !.rest = rest].now = sessions[s].now
      BY <1>1 DEF Session
    <2> QED
      BY <1>3, <1>5, <2>1, <2>2
  <1>6. ASSUME NEW s \in Sessions, Become(s, At("idle")), UNCHANGED clock
        PROVE  ReadingsArePast'
    BY <1>3, <1>4, <1>6
  <1>7. ASSUME NEW c \in Clients, RequestStep(c) PROVE ReadingsArePast'
    <2>1. c \in Sessions
      BY DEF Sessions
    <2>2. CASE \E j \in Jobs : RequestCancel(c, j)
      <3>1. PICK j \in Jobs : Become(c, [At("cancel") EXCEPT !.job = j]) /\ UNCHANGED clock
        BY <2>2 DEF RequestCancel
      <3>2. [At("cancel") EXCEPT !.job = j].now = 0
        BY DEF At
      <3> QED
        BY <1>3, <2>1, <3>1, <3>2
    <2>3. CASE RequestDrain(c) \/ DrainRow(c)
      BY <1>5, <2>1, <2>3 DEF RequestDrain, DrainRow
    <2>4. CASE CancelRow(c)
      <3>1. CASE UNCHANGED sessions
        BY <2>4, <3>1 DEF CancelRow, ReadingsArePast
      <3> QED
        BY <1>6, <2>1, <2>4, <3>1 DEF CancelRow
    <2>5. CASE CommitRequest(c) \/ RollBackRequest(c)
      BY <1>6, <2>1, <2>5 DEF CommitRequest, RollBackRequest
    <2> QED
      BY <1>7, <2>2, <2>3, <2>4, <2>5 DEF RequestStep
  <1>8. ASSUME NEW t \in Workers, WorkerStep(t) PROVE ReadingsArePast'
    <2>1. t \in Sessions
      BY DEF Sessions
    <2>2. CASE BeginClaim(t) \/ BeginRecovery(t)
      <3>1. PICK task \in {"claim", "recover"} :
               Become(t, [At(task) EXCEPT !.now = clock]) /\ UNCHANGED clock
        BY <2>2 DEF BeginClaim, BeginRecovery
      <3>2. [At(task) EXCEPT !.now = clock].now = clock
        BY DEF At
      <3> QED
        BY <1>3, <2>1, <3>1, <3>2
    <2>3. CASE SelectNextJob(t)
      <3>1. CASE \E j : Become(t, [sessions[t] EXCEPT !.job = j])
        <4>1. PICK j : Become(t, [sessions[t] EXCEPT !.job = j])
          BY <3>1
        <4>2. [sessions[t] EXCEPT !.job = j].now = sessions[t].now
          BY <1>1, <2>1 DEF Session
        <4> QED
          BY <1>3, <2>1, <2>3, <4>1, <4>2 DEF SelectNextJob
      <3> QED
        BY <1>6, <2>1, <2>3, <3>1 DEF SelectNextJob
    <2>4. CASE CommitClaim(t)
      <3>1. CASE \E j, n : Become(t, [At("run") EXCEPT !.job = j, !.attempt_no = n])
        <4>1. PICK j, n : Become(t, [At("run") EXCEPT !.job = j, !.attempt_no = n])
          BY <3>1
        <4>2. [At("run") EXCEPT !.job = j, !.attempt_no = n].now = 0
          BY DEF At
        <4> QED
          BY <1>3, <2>1, <2>4, <4>1, <4>2 DEF CommitClaim
      <3> QED
        BY <1>6, <2>1, <2>4, <3>1 DEF CommitClaim
    <2>5. ASSUME NEW x \in {[sessions[t] EXCEPT !.task = "succeeded"],
                            [sessions[t] EXCEPT !.task = "failed", !.now = clock]}
          PROVE  x.now \in {0, clock, sessions[t].now}
      BY <1>1, <2>1, <2>5 DEF Session
    <2>6. CASE FinishAttempt(t)
      BY <1>3, <2>1, <2>5, <2>6 DEF FinishAttempt
    <2>7. CASE Become(t, AfterException(t)) /\ UNCHANGED clock
      BY <1>3, <1>6, <2>1, <2>5, <2>7 DEF AfterException
    <2>8. CASE UpdateOwnedJob(t)
      <3>1. CASE UNCHANGED sessions
        BY <2>8, <3>1 DEF UpdateOwnedJob, ReadingsArePast
      <3> QED
        BY <1>6, <2>1, <2>8, <3>1 DEF UpdateOwnedJob
    <2>9. CASE CommitOutcome(t) \/ RollBackOutcome(t)
      BY <1>6, <2>1, <2>7, <2>9 DEF CommitOutcome, RollBackOutcome
    <2>10. CASE SelectRunning(t) \/ ReapRow(t)
      BY <1>5, <2>1, <2>10 DEF SelectRunning, ReapRow
    <2>11. CASE CommitRecovery(t) \/ CrashWorker(t)
      BY <1>6, <2>1, <2>11 DEF CommitRecovery, CrashWorker
    <2> QED
      BY <1>8, <2>2, <2>3, <2>4, <2>6, <2>8, <2>9, <2>10, <2>11 DEF WorkerStep
  <1>9. CASE Tick
    BY <1>1, <1>9 DEF Tick, ReadingsArePast
  <1>10. CASE UNCHANGED <<sessions, clock>>
    BY <1>10 DEF ReadingsArePast
  <1> QED
    BY <1>7, <1>8, <1>9, <1>10 DEF Next, CreateJob, CreateJobsBatch, InsertJobs, vars

LEMMA InitInvariant ==
    Init => IInv
  <1> SUFFICES ASSUME Init PROVE OneRowAtATime /\ ReadingsArePast
    BY TableInvInit DEF IInv
  <1>0. ReadingsArePast
    BY DEF Init, ReadingsArePast, At
  <1>1. At("idle").task = "idle" /\ At("idle").job = NoJob
    BY AtFacts
  <1>2. \A s \in Sessions : sessions[s] = At("idle") /\ s # NoSession
    BY PgSessionsAssumption DEF Init
  <1>3. \A j \in Jobs : locks[j] = NoSession
    BY DEF Init
  <1> QED
    BY <1>0, <1>1, <1>2, <1>3 DEF OneRowAtATime, LockedBy

LEMMA NextKeeps ==
    IInv /\ [Next]_vars => IInv'
  BY TableInvKept, OneRowKept, ReadingsKept DEF IInv

\* A session that waits and holds a lock is a drain.
LEMMA WaitingHoldsNothing ==
    ASSUME IInv, NEW s \in Sessions, NEW u \in Sessions, NEW v \in Sessions,
           WaitsFor(s, u), WaitsFor(v, s)
    PROVE  sessions[s].task = "drain"
  <1>1. PICK held \in Jobs : locks[held] = s
    BY DEF WaitsFor, IInv, TableInv, TypeOK, Session
  <1>2. /\ sessions[s].task \in Tasks \ {"run", "claim", "reap"}
        /\ sessions[s].job # NoJob
        /\ locks[sessions[s].job] # s
    BY DEF WaitsFor, SkipsLocked, IInv, TableInv, TypeOK, Session
  <1>3. sessions[s].task \notin {"idle", "recover"}
    BY <1>2 DEF IInv, OneRowAtATime
  <1>4. sessions[s].task # "cancel"
    BY <1>1, <1>2 DEF IInv, OneRowAtATime, LockedBy
  <1>5. s \in Workers => sessions[s].task \notin Outcomes
    BY <1>1, <1>2 DEF IInv, TableInv, LocksProtect, LocksOf, LockedBy
  <1>6. s \in Clients => sessions[s].task \in {"idle", "cancel", "drain"}
    BY DEF IInv, OneRowAtATime
  <1> QED
    BY <1>2, <1>3, <1>4, <1>5, <1>6 DEF Sessions

-----------------------------------------------------------------------------
(* The theorems *)

\* In every reachable state the rows, the history, the dead letters, the locks and the
\* claims of the workers agree.
THEOREM Invariance ==
    Spec => []IInv
  BY InitInvariant, NextKeeps, PTL DEF Spec

\* The tables, the locks and the sessions stay in the range of their columns.
THEOREM TypeCorrectness ==
    Spec => []TypeOK
  <1>1. IInv => TypeOK
    BY DEF IInv, TableInv
  <1> QED
    BY <1>1, Invariance, PTL

\* Whatever rows sessions lock and in whatever order, only drains can wait in a circle.
THEOREM OnlyDrainsTheorem ==
    Spec => []OnlyDrainsDeadlock
  <1>1. IInv => OnlyDrainsDeadlock
    <2> SUFFICES ASSUME IInv, NEW set \in SUBSET Sessions, Deadlocked(set), NEW s \in set
                 PROVE  sessions[s].task = "drain"
      BY DEF OnlyDrainsDeadlock
    <2>1. PICK u \in set, v \in set : WaitsFor(s, u) /\ WaitsFor(v, s)
      BY DEF Deadlocked
    <2> QED
      BY <2>1, WaitingHoldsNothing
  <1> QED
    BY <1>1, Invariance, PTL

\* A job is in dead_letters exactly when it is dead-lettered, after max_retries + 1
\* attempts, whichever worker or reaper gave it up.
THEOREM DeadLetterTheorem ==
    Spec => []DeadLetterExact
  <1>1. IInv => DeadLetterExact
    BY DEF IInv, TableInv
  <1> QED
    BY <1>1, Invariance, PTL

\* An attempt that a worker has claimed and nobody has recorded is the current one of a
\* row leased to that worker: the fence and the unique index turn every other away.
THEOREM ClaimTheorem ==
    Spec => []ClaimCurrentOrRecorded
  <1>1. IInv => ClaimCurrentOrRecorded
    BY DEF IInv, TableInv
  <1> QED
    BY <1>1, Invariance, PTL

\* No two workers are at the same attempt of a job, even if they share a worker id.
THEOREM SingleOwnerTheorem ==
    Spec => []SingleOwner
  <1>1. IInv => SingleOwner
    BY DEF IInv, TableInv
  <1> QED
    BY <1>1, Invariance, PTL

-----------------------------------------------------------------------------
(* Nobody ends a lease before its time *)

\* The lease of j has expired, or a worker is about to commit the attempt it is for.
MayEnd(j) ==
    \/ clock - jobs[j].locked_at > jobs[j].timeout_seconds + Grace
    \/ \E t \in Workers :
          /\ Holds(t, j, jobs[j].attempt_count + 1)
          /\ sessions[t].task \in Outcomes
          /\ jobs[j].locked_by = WorkerId[t]

\* The transaction of an outcome writes no row but that of the attempt its worker holds.
LEMMA OutcomeEndsOwn ==
    ASSUME IInv, NEW t \in Workers, CommitOutcome(t),
           NEW j \in Jobs, jobs'[j] # jobs[j]
    PROVE  MayEnd(j)
  <1>1. sessions[t].task \in Outcomes /\ sessions[t] \in Session
    BY WorkerSession DEF CommitOutcome, IInv, TableInv
  <1>2. PICK k, n : k = sessions[t].job /\ n = sessions[t].attempt_no
    OBVIOUS
  <1>3. /\ ~Recorded(k, n)
        /\ \A i \in Jobs : i # k => jobs'[i] = jobs[i]
    BY <1>2 DEF CommitOutcome, Commit, IndexAccepts
  <1>4. j = k
    BY <1>3
  <1>5. Holds(t, j, n)
    BY <1>1, <1>2, <1>4 DEF Holds
  <1>6. n = jobs[j].attempt_count + 1 /\ HoldsLease(t)
    BY <1>2, <1>3, <1>4, <1>5 DEF IInv, TableInv, ClaimCurrentOrRecorded
  <1> QED
    BY <1>1, <1>2, <1>4, <1>5, <1>6 DEF MayEnd, HoldsLease

\* The reaper decides with an old reading of the clock, and what had expired then has
\* expired now.
LEMMA RecoveryEndsStale ==
    ASSUME IInv, NEW t \in Workers, CommitRecovery(t),
           NEW j \in Jobs, jobs'[j] # jobs[j]
    PROVE  MayEnd(j)
  <1>1. j \in StaleJobs(t)
    <2>1. PICK rows : /\ DOMAIN rows = StaleJobs(t)
                      /\ jobs' = [i \in Jobs |-> IF i \in DOMAIN rows THEN rows[i] ELSE jobs[i]]
      <3> DEFINE rows == [i \in StaleJobs(t) |-> AfterFailure(i, jobs[i].attempt_count + 1,
                                                    sessions[t].now, sessions[t].now)]
      <3>1. jobs' = [i \in Jobs |-> IF i \in DOMAIN rows THEN rows[i] ELSE jobs[i]]
        BY DEF CommitRecovery, Commit
      <3> QED
        BY <3>1
    <2> QED
      BY <2>1
  <1>2. sessions[t].now - jobs[j].locked_at > jobs[j].timeout_seconds + Grace
    BY <1>1 DEF StaleJobs
  <1>3. t \in Sessions /\ sessions[t].now <= clock
    BY DEF Sessions, IInv, ReadingsArePast
  <1>4. /\ sessions[t].now \in Int /\ clock \in Int /\ Grace \in Int
        /\ jobs[j].locked_at \in Int /\ jobs[j].timeout_seconds \in Int
    BY <1>3, PgRequestAssumption DEF IInv, TableInv, TypeOK, Row, NoTime, Session
  <1> QED
    BY <1>2, <1>3, <1>4 DEF MayEnd

\* No other step ends a running job.
LEMMA OthersEndNone ==
    ASSUME IInv, [Next]_vars, NEW j \in Jobs,
           jobs[j].status = "running", jobs'[j].status # "running",
           \A t \in Workers : ~CommitOutcome(t) /\ ~CommitRecovery(t)
    PROVE  FALSE
  <1>1. CASE UNCHANGED jobs
    BY <1>1
  <1>2. CASE \E batch : InsertJobs(batch)
    BY <1>2 DEF InsertJobs, JobsIn
  <1>3. CASE \E c \in Clients : CommitRequest(c)
    <2>1. PICK c \in Clients : CommitRequest(c)
      BY <1>3
    <2>2. j \notin Cancelled(c)
      BY DEF Cancelled
    <2>3. jobs'[j] = jobs[j]
      BY <2>1, <2>2 DEF CommitRequest, Commit
    <2> QED
      BY <2>3
  <1>4. CASE \E t \in Workers : CommitClaim(t)
    <2>1. PICK t \in Workers : CommitClaim(t)
      BY <1>4
    <2>2. sessions[t].job # j
      BY <2>1 DEF CommitClaim, IInv, TableInv, LocksProtect, LocksOf
    <2>3. jobs'[j] = jobs[j]
      BY <2>1, <2>2 DEF CommitClaim, Commit
    <2> QED
      BY <2>3
  <1> QED
    BY <1>1, <1>2, <1>3, <1>4
       DEF Next, CreateJob, CreateJobsBatch, RequestStep, WorkerStep, RequestCancel,
           RequestDrain, CancelRow, DrainRow, RollBackRequest, BeginClaim, SelectNextJob,
           FinishAttempt, UpdateOwnedJob, RollBackOutcome, BeginRecovery, SelectRunning,
           ReapRow, CrashWorker, Tick, vars, tables

\* A running job is never taken from the worker that holds its attempt before its lease
\* is older than timeout and grace, although no lock is held while the handler runs.
THEOREM LeaseRespectedTheorem ==
    Spec => LeaseRespected
  <1>1. ASSUME IInv, [Next]_vars, NEW j \in Jobs,
               jobs[j].status = "running", jobs'[j].status # "running"
        PROVE  MayEnd(j)
    BY <1>1, OutcomeEndsOwn, RecoveryEndsStale, OthersEndNone
  <1>2. IInv /\ [Next]_vars =>
          [\A j \in Jobs :
              jobs[j].status = "running" /\ jobs'[j].status # "running" => MayEnd(j)]_vars
    BY <1>1
  <1> QED
    BY <1>2, Invariance, PTL DEF Spec, LeaseRespected, MayEnd

-----------------------------------------------------------------------------
(* The job queue in PostgreSQL implements the contract *)

LEMMA StepMoves ==
    ASSUME TableInv, [Next]_vars, NEW j \in Jobs
    PROVE  RowMove(j)
  <1>1. ASSUME UNCHANGED tables PROVE RowMove(j)
    BY <1>1, TablesUnchanged
  <1>2. ASSUME NEW batch, InsertJobs(batch) PROVE RowMove(j)
    BY <1>2, InsertMoves
  <1>3. ASSUME NEW c \in Clients, RequestStep(c) PROVE RowMove(j)
    <2>1. CommitRequest(c) \/ UNCHANGED tables
      BY <1>3 DEF RequestStep, RequestCancel, RequestDrain, CancelRow, DrainRow,
                  RollBackRequest
    <2> QED
      BY <1>1, <2>1, CommitRequestMoves
  <1>4. ASSUME NEW t \in Workers, WorkerStep(t) PROVE RowMove(j)
    <2>1. CommitClaim(t) \/ CommitOutcome(t) \/ CommitRecovery(t) \/ UNCHANGED tables
      BY <1>4 DEF WorkerStep, BeginClaim, SelectNextJob, FinishAttempt, UpdateOwnedJob,
                  RollBackOutcome, BeginRecovery, SelectRunning, ReapRow, CrashWorker
    <2> QED
      BY <1>1, <2>1, CommitClaimMoves, CommitOutcomeMoves, CommitRecoveryMoves
  <1>5. UNCHANGED vars \/ Tick => UNCHANGED tables
    BY DEF vars, Tick, tables
  <1> QED
    BY <1>1, <1>2, <1>3, <1>4, <1>5 DEF Next, CreateJob, CreateJobsBatch

\* A function on 1 to n whose values are outcomes is a sequence of n outcomes.
LEMMA OutcomesInOrder ==
    ASSUME NEW S, NEW n \in Nat, NEW f \in [1..n -> S]
    PROVE  f \in Seq(S) /\ Len(f) = n
  OBVIOUS

\* Every attempt the ledger of a job lists is in the history.
LEMMA LedgerTyped ==
    ASSUME TableInv, NEW j \in Jobs
    PROVE  /\ jobs[j].attempt_count \in Nat
           /\ \A m \in 1..jobs[j].attempt_count :
                 m \in Nat /\ Recorded(j, m) /\ job_attempts[<<j, m>>] \in AttemptStatus
  <1>1. jobs[j].attempt_count \in Nat
    BY DEF TableInv, TypeOK, Row
  <1>2. \A m \in 1..jobs[j].attempt_count : m \in Nat /\ Recorded(j, m)
    BY <1>1 DEF TableInv, AttemptLedger
  <1> QED
    BY <1>1, <1>2 DEF TableInv, TypeOK, Recorded

\* A move that adds no attempt leaves the ledger of its job as it was.
LEMMA LedgerKept ==
    ASSUME TableInv, NEW j \in Jobs, KeepsAttempts(j),
           jobs'[j].attempt_count = jobs[j].attempt_count
    PROVE  Ledger(j)' = Ledger(j)
  <1>1. \A m \in 1..jobs[j].attempt_count : job_attempts'[<<j, m>>] = job_attempts[<<j, m>>]
    BY LedgerTyped DEF KeepsAttempts
  <1> QED
    BY <1>1 DEF Ledger

\* A move that adds an attempt appends its outcome.
LEMMA LedgerGrows ==
    ASSUME TableInv, NEW j \in Jobs, NEW n \in Nat, NEW status \in AttemptStatus,
           n = jobs[j].attempt_count + 1, jobs'[j].attempt_count = n,
           AddsAttempt(j, n, status)
    PROVE  /\ Ledger(j)' = Append(Ledger(j), status)
           /\ Len(Ledger(j)') = n
  <1> DEFINE c == jobs[j].attempt_count
             before == [m \in 1..c |-> job_attempts[<<j, m>>]]
             after == [m \in 1..n |-> job_attempts'[<<j, m>>]]
  <1>1. c \in Nat /\ n = c + 1
    BY LedgerTyped
  <1>2. /\ before \in Seq(AttemptStatus) /\ Len(before) = c
        /\ \A m \in 1..c : before[m] = job_attempts[<<j, m>>]
    <2>1. before \in [1..c -> AttemptStatus]
      BY LedgerTyped
    <2>2. \A m \in 1..c : before[m] = job_attempts[<<j, m>>]
      OBVIOUS
    <2> HIDE DEF c, before
    <2> QED
      BY <1>1, <2>1, <2>2, OutcomesInOrder
  <1>3. \A m \in 1..c : job_attempts'[<<j, m>>] = job_attempts[<<j, m>>]
    BY LedgerTyped DEF AddsAttempt
  <1>4. job_attempts'[<<j, n>>] = status
    BY DEF AddsAttempt
  <1>5. \A m \in 1..n : m \in 1..c \/ m = n
    BY <1>1
  <1>6. \A m \in 1..n : job_attempts'[<<j, m>>] \in AttemptStatus
    BY <1>3, <1>4, <1>5, LedgerTyped
  <1>7. /\ after \in Seq(AttemptStatus) /\ Len(after) = n
        /\ \A m \in 1..n : after[m] = job_attempts'[<<j, m>>]
    <2>1. after \in [1..n -> AttemptStatus]
      BY <1>6
    <2>2. \A m \in 1..n : after[m] = job_attempts'[<<j, m>>]
      OBVIOUS
    <2> HIDE DEF after
    <2> QED
      BY <2>1, <2>2, OutcomesInOrder
  <1>8. Ledger(j)' = after /\ Ledger(j) = before
    BY DEF Ledger
  <1> HIDE DEF before, after, c
  <1>9. /\ Append(before, status) \in Seq(AttemptStatus)
        /\ Len(Append(before, status)) = c + 1
        /\ \A m \in 1..c : Append(before, status)[m] = before[m]
        /\ Append(before, status)[c + 1] = status
    BY <1>2, AppendProperties
  <1>10. \A m \in 1..n : after[m] = Append(before, status)[m]
    BY <1>1, <1>2, <1>3, <1>4, <1>5, <1>7, <1>9
  <1>11. after = Append(before, status)
    BY <1>1, <1>7, <1>9, <1>10, SeqEqual
  <1> QED
    BY <1>7, <1>8, <1>11

\* What a step does to a job is a move of the contract.
LEMMA MoveOfContract ==
    ASSUME TableInv, NEW j \in Jobs, RowMove(j)
    PROVE  Contract!Move(j)
  <1> USE DEF Contract!Move, Contract!Waiting, Contract!Attempting
  <1>1. CASE Stays(j)
    BY <1>1, LedgerKept DEF Stays, Contract!Keep
  <1>2. CASE Accepted(j)
    <2>1. jobs[j].attempt_count = 0
      BY <1>2 DEF Accepted, TableInv, RowsInBudget
    <2> QED
      BY <1>2, <2>1, LedgerKept DEF Accepted, Contract!Accept
  <1>3. CASE Withdrawn(j)
    BY <1>3, LedgerKept DEF Withdrawn, SameCount, SameBudget, Contract!Cancel
  <1>4. CASE Leased(j)
    BY <1>4, LedgerKept DEF Leased, SameCount, SameBudget, Contract!Start
  <1>5. CASE Completed(j)
    <2>1. PICK n \in Nat : n = jobs[j].attempt_count + 1
      BY LedgerTyped
    <2>2. Ledger(j)' = Append(Ledger(j), "succeeded")
      BY <1>5, <2>1, LedgerGrows DEF Completed
    <2> QED
      BY <1>5, <2>2 DEF Completed, SameBudget, Contract!Succeed
  <1>6. CASE Failed(j)
    <2>1. PICK n \in Nat : n = jobs[j].attempt_count + 1
      BY LedgerTyped
    <2>2. PICK outcome \in {"failed", "abandoned"} : AddsAttempt(j, n, outcome)
      BY <1>6, <2>1 DEF Failed
    <2>3. Ledger(j)' = Append(Ledger(j), outcome) /\ Len(Ledger(j)') = n
      BY <1>6, <2>1, <2>2, LedgerGrows DEF Failed
    <2> QED
      BY <1>6, <2>1, <2>3 DEF Failed, SameBudget, Contract!Fail
  <1> QED
    BY <1>1, <1>2, <1>3, <1>4, <1>5, <1>6 DEF RowMove

\* With row locks alone, and whatever the statements wait for or skip, the committed
\* tables keep the contract with every client: PgJobQueue refines JobContract.
THEOREM Refinement ==
    Spec => ImplementsContract
  <1>1. Init => Contract!Init
    <2> SUFFICES ASSUME Init PROVE Contract!Init
      OBVIOUS
    <2>1. \A j \in Jobs : /\ jobs[j].status = "absent"
                          /\ jobs[j].max_retries = 0
                          /\ jobs[j].attempt_count = 0
      BY DEF Init, NoRow
    <2>2. \A j \in Jobs : Ledger(j) = << >>
      BY <2>1 DEF Ledger
    <2> QED
      BY <2>1, <2>2 DEF Contract!Init
  <1>2. IInv /\ [Next]_vars => [Contract!Next]_(Contract!vars)
    <2> SUFFICES ASSUME IInv, [Next]_vars PROVE Contract!Next
      OBVIOUS
    <2>1. \A j \in Jobs : Contract!Move(j)
      BY StepMoves, MoveOfContract DEF IInv
    <2> QED
      BY <2>1 DEF Contract!Next
  <1> QED
    BY <1>1, <1>2, Invariance, PTL DEF Spec, ImplementsContract, Contract!Spec

-----------------------------------------------------------------------------
(* What the contract gives a client holds of the committed tables *)

Client == INSTANCE JobContractProofs WITH
              state <- [j \in Jobs |-> jobs[j].status],
              budget <- [j \in Jobs |-> jobs[j].max_retries],
              ledger <- [j \in Jobs |-> Ledger(j)]

\* The theorems about the contract apply.
LEMMA ContractApplies ==
    Client!Numbers /\ (Spec => Client!Spec)
  <1>1. Client!Numbers
    BY PgRequestAssumption DEF Client!Numbers
  <1>2. Contract!Init => Client!Init
    BY DEF Contract!Init, Client!Init
  <1>3. [Contract!Next]_(Contract!vars) => [Client!Next]_(Client!vars)
    BY DEF Contract!Next, Client!Next, Contract!vars, Client!vars,
           Contract!Move, Client!Move, Contract!Accept, Client!Accept,
           Contract!Start, Client!Start, Contract!Succeed, Client!Succeed,
           Contract!Fail, Client!Fail, Contract!Cancel, Client!Cancel,
           Contract!Keep, Client!Keep, Contract!Waiting, Client!Waiting,
           Contract!Attempting, Client!Attempting
  <1> QED
    BY <1>1, <1>2, <1>3, Refinement, PTL DEF ImplementsContract, Contract!Spec, Client!Spec

\* The history of a job explains its status, and no job is attempted more often than its
\* budget allows, the attempt that is running included.
THEOREM LedgersTheorem ==
    Spec => [](Client!LedgersExplain /\ Client!AttemptsWithinBudget)
  BY ContractApplies, Client!LedgersExplainTheorem, Client!AttemptsWithinBudgetTheorem, PTL

\* No step takes back what a client has been told: a settled status, an outcome in the
\* history, an accepted job.
THEOREM NothingTakenBackTheorem ==
    Spec => Client!NothingTakenBack
  BY ContractApplies, Client!NothingTakenBackTheorem, PTL

=============================================================================
