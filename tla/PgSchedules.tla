----------------------------- MODULE PgSchedules -----------------------------
(***************************************************************************)
(* The recurring schedules in PostgreSQL (app/postgres_repository.py),     *)
(* statement by statement under READ COMMITTED.                            *)
(*                                                                         *)
(* RecurringSchedules has one transaction at a time.  Here the             *)
(* materializer finds the due schedules in a snapshot, visits them in the  *)
(* order of next_run_at, skips those somebody has locked, reads the others *)
(* again under its lock, inserts a job for each, and publishes everything  *)
(* at its commit.  Meanwhile PATCH and DELETE lock the row they wait for,  *)
(* and other materializers work on rows of their own.                      *)
(*                                                                         *)
(* The variables of RecurringSchedules are what has been committed, and    *)
(* the requests up to their first lock are those of RecurringSchedules.    *)
(* A locked row does not change, so the writes of a transaction are        *)
(* computed when it commits, from what it has fetched.                     *)
(***************************************************************************)
EXTENDS RecurringSchedules

CONSTANT Nobody     \* the holder of a lock nobody holds

ASSUME PgSchedulesAssumption ==
    /\ Workers \cap Clients = {}
    /\ Nobody \notin Workers \cup Clients

VARIABLES
    locks,          \* the transaction that has locked each row of recurring_schedules
    batches         \* where each materializer is

pg_vars == <<vars, locks, batches>>

\* "begun": the clock is read.  "selected": the SELECT has its snapshot.  When no row of
\* it is left to visit, the job of every row it fetched is inserted.
Phases == {"idle", "begun", "selected"}
IsFetched(f) == DOMAIN f \subseteq Schedules /\ f \in [DOMAIN f -> Nat]

\* snapshot and rows: next_run_at of the rows still to visit, and of those fetched;
\* inserted: the schedules whose job this transaction has inserted.
IsBatch(b) ==
    /\ DOMAIN b = {"phase", "snapshot", "rows", "inserted"}
    /\ b.phase \in Phases
    /\ IsFetched(b.snapshot)
    /\ IsFetched(b.rows)
    /\ b.inserted \subseteq DOMAIN b.rows
NoBatch == [phase |-> "idle", snapshot |-> << >>, rows |-> << >>, inserted |-> {}]

PgInit ==
    /\ Init
    /\ locks = [s \in Schedules |-> Nobody]
    /\ batches = [w \in Workers |-> NoBatch]

Free(s) == locks[s] = Nobody
Release(t) == locks' = [s \in Schedules |-> IF locks[s] = t THEN Nobody ELSE locks[s]]

-----------------------------------------------------------------------------
(* Requests: an INSERT of a new row meets no lock; an UPDATE or DELETE waits for *)
(* its row and commits in a step of its own.                                     *)

PgCreateSchedule(c) ==
    /\ \/ \E s \in Schedules, cron \in Crons : BeginCreateSchedule(c, s, cron)
       \/ CreateSchedule(c)
    /\ UNCHANGED <<locks, batches>>

PgBeginSetEnabled(c, s, enabled) ==
    /\ BeginSetEnabled(c, s, enabled)
    /\ UNCHANGED <<locks, batches>>

LockForPatch(c) ==
    /\ clients[c].op = "patch"
    /\ Free(clients[c].id)
    /\ locks' = [locks EXCEPT ![clients[c].id] = c]
    /\ UNCHANGED <<vars, batches>>

CommitPatch(c) ==
    /\ clients[c].op = "patch"
    /\ locks[clients[c].id] = c
    /\ SetScheduleEnabled(c)
    /\ Release(c)
    /\ UNCHANGED batches

\* Nothing can happen between the lock and the commit of a DELETE but skipping.
PgDeleteSchedule(s) ==
    /\ Free(s)
    /\ DeleteSchedule(s)
    /\ UNCHANGED <<locks, batches>>

-----------------------------------------------------------------------------
(* The materializer.  X_Slip definitions are slips X might contain.              *)

PgBeginMaterialize(w) ==
    /\ batches[w].phase = "idle"
    /\ materializers' = [materializers EXCEPT ![w] = now]
    /\ batches' = [batches EXCEPT ![w].phase = "begun"]
    /\ UNCHANGED <<schedules, generated, clients, passed_over, now, locks>>

\* The snapshot of SELECT ... WHERE enabled AND next_run_at <= now ORDER BY ... LIMIT
TakeSnapshot(w) ==
    /\ batches[w].phase = "begun"
    /\ batches' = [batches EXCEPT
          ![w].phase = "selected",
          ![w].snapshot = [s \in DueSchedules(materializers[w]) |-> schedules[s].next_run_at]]
    /\ UNCHANGED <<vars, locks>>

\* ORDER BY next_run_at, as of the snapshot
Earliest(snapshot) ==
    {s \in DOMAIN snapshot : \A u \in DOMAIN snapshot : snapshot[s] <= snapshot[u]}

\* FOR UPDATE reads a row that has changed since the snapshot again under its lock, and
\* drops it if it is not due any more; the lock stays until the transaction ends.
Reread_Snapshot(w, s) == batches[w].snapshot[s]
Reread(w, s) == schedules[s].next_run_at
StillDue(w, s) == s \in DueSchedules(materializers[w])

LockHeld_NotTaken(w, s) == locks
LockHeld(w, s) == [locks EXCEPT ![s] = w]

\* SKIP LOCKED; LIMIT counts the rows that are fetched.  A deleted row has no lock.
Visit(w) ==
    /\ batches[w].phase = "selected"
    /\ \E s \in Earliest(batches[w].snapshot) :
          LET b == batches[w]
              rest == [u \in DOMAIN b.snapshot \ {s} |-> b.snapshot[u]]
              fetched == [u \in DOMAIN b.rows \cup {s} |->
                             IF u = s THEN Reread(w, s) ELSE b.rows[u]]
              full == Cardinality(DOMAIN fetched) = Limit
              lockable == Free(s) /\ Present(s)
          IN  /\ locks' = IF lockable THEN LockHeld(w, s) ELSE locks
              /\ batches' = IF lockable /\ StillDue(w, s)
                            THEN [batches EXCEPT
                                     ![w].snapshot = IF full THEN << >> ELSE rest,
                                     ![w].rows = fetched]
                            ELSE [batches EXCEPT ![w].snapshot = rest]
    /\ UNCHANGED vars

HasFetched(w) == batches[w].phase = "selected" /\ DOMAIN batches[w].snapshot = {}

\* The occurrences a transaction has inserted and not committed.
Pending(w) == {<<s, batches[w].rows[s]>> : s \in batches[w].inserted}

\* INSERT ... ON CONFLICT DO NOTHING waits for a transaction that has inserted the
\* occurrence and not committed it.
WaitsForInsert(w, s) ==
    \E v \in Workers \ {w} : <<s, batches[w].rows[s]>> \in Pending(v)

ToInsert(w) == DOMAIN batches[w].rows \ batches[w].inserted

\* next_cron_run raises between the INSERT for a row and its UPDATE.
MayGoOn(w) ==
    \A s \in batches[w].inserted : HasNextRun(schedules[s].cron, batches[w].rows[s])

InsertJob(w) ==
    /\ HasFetched(w)
    /\ MayGoOn(w)
    /\ \E s \in ToInsert(w) :
          /\ ~WaitsForInsert(w, s)
          /\ batches' = [batches EXCEPT ![w].inserted = @ \cup {s}]
    /\ UNCHANGED <<vars, locks>>

\* What the UPDATE of a fetched row leaves behind.
AfterBatch_FromClock(s, occurrence) ==
    [schedules[s] EXCEPT !.last_run_at = occurrence,
                         !.next_run_at = NextCronRun(schedules[s].cron, now)]
AfterBatch(s, occurrence) ==
    [schedules[s] EXCEPT !.last_run_at = occurrence,
                         !.next_run_at = NextCronRun(schedules[s].cron, occurrence)]

EndBatch(w) ==
    /\ batches' = [batches EXCEPT ![w] = NoBatch]
    /\ materializers' = [materializers EXCEPT ![w] = NoTime]
    /\ Release(w)

CommitBatch(w) ==
    LET rows == batches[w].rows
        keys == {<<s, rows[s]>> : s \in DOMAIN rows}
    IN  /\ HasFetched(w)
        /\ ToInsert(w) = {}
        /\ MayGoOn(w)
        /\ generated' = [key \in DOMAIN generated \cup keys |->
                            IF key \in keys THEN RowsAfterInsert(key[1], key[2])
                            ELSE generated[key]]
        /\ schedules' = [s \in Schedules |->
                            IF s \in DOMAIN rows THEN AfterBatch(s, rows[s])
                            ELSE schedules[s]]
        /\ EndBatch(w)
        /\ UNCHANGED <<clients, passed_over, now>>

\* next_cron_run has raised, the connection broke, or the process died.
RollBackBatch(w) ==
    /\ batches[w].phase # "idle"
    /\ EndBatch(w)
    /\ UNCHANGED <<schedules, generated, clients, passed_over, now>>

-----------------------------------------------------------------------------

MaterializerStep(w) ==
    \/ PgBeginMaterialize(w)
    \/ TakeSnapshot(w)
    \/ Visit(w)
    \/ InsertJob(w)
    \/ CommitBatch(w)

PgNext ==
    \/ \E c \in Clients : \/ PgCreateSchedule(c)
                          \/ \E s \in Schedules, enabled \in BOOLEAN :
                                PgBeginSetEnabled(c, s, enabled)
                          \/ LockForPatch(c)
                          \/ CommitPatch(c)
    \/ \E s \in Schedules : PgDeleteSchedule(s)
    \/ \E w \in Workers : MaterializerStep(w) \/ RollBackBatch(w)
    \/ Tick /\ UNCHANGED <<locks, batches>>

PgSpec == PgInit /\ [][PgNext]_pg_vars

-----------------------------------------------------------------------------
(* Properties *)

\* Type correctness; a transaction has locked the rows it has fetched, and perhaps rows
\* it has dropped, and a materializer that is in none has no lock.
PgTypeOK ==
    /\ TypeOK
    /\ locks \in [Schedules -> Workers \cup Clients \cup {Nobody}]
    /\ DOMAIN batches = Workers
    /\ \A w \in Workers :
          /\ IsBatch(batches[w])
          /\ \A s \in DOMAIN batches[w].rows : locks[s] = w
          /\ \A s \in Schedules : locks[s] = w => batches[w].phase = "selected"

\* A batch never waits for another batch, however their rows overlap: so materializers
\* cannot deadlock over the unique index, and one that hangs holds up nobody else.
BatchesNeverWait ==
    \A w \in Workers : HasFetched(w) =>
        \A s \in ToInsert(w) : ~WaitsForInsert(w, s)

\* What a batch has fetched is what the table says until the batch commits: a due
\* schedule, and the occurrence it points at.
FetchedIsCurrent ==
    \A w \in Workers : \A s \in DOMAIN batches[w].rows :
        /\ Present(s)
        /\ schedules[s].enabled
        /\ batches[w].rows[s] = schedules[s].next_run_at
        /\ batches[w].rows[s] <= now

\* Only a transaction that has read the clock and the table has fetched anything.
BatchesInPhase ==
    \A w \in Workers :
        /\ batches[w].phase # "idle" => materializers[w] # NoTime
        /\ batches[w].phase # "selected" => DOMAIN batches[w].rows = {}

\* The inductive invariant behind the safety properties and the refinement.
PgIInv ==
    /\ IInv
    /\ PgTypeOK
    /\ FetchedIsCurrent
    /\ BatchesInPhase

=============================================================================
