-------------------------- MODULE ScheduleContract --------------------------
(***************************************************************************)
(* What PulseQueue promises to the owner of a recurring schedule, with no  *)
(* materializer, batch, lock or transaction in sight.                      *)
(*                                                                         *)
(* A schedule is created, patched and deleted by requests.  While it is    *)
(* present and enabled the occurrence it points at may get its job once it *)
(* has come, and then the schedule points at the very next one: no other   *)
(* step makes a job, and no step but a PATCH makes the schedule point      *)
(* anywhere else.  Several schedules may move in one step, because the     *)
(* materializer works on batches.                                          *)
(***************************************************************************)
EXTENDS Naturals

CONSTANTS
    Schedules,      \* identities of schedules
    Crons,          \* cron expressions
    Occurrences     \* [Crons -> set of instants]

VARIABLES
    table,          \* [Schedules -> Row]: the schedules
    jobs,           \* [Schedules -> set of instants]: occurrences that got a job
    now

vars == <<table, jobs, now>>

Init ==
    /\ \A s \in Schedules : table[s].status = "absent"
    /\ DOMAIN table = Schedules
    /\ jobs = [s \in Schedules |-> {}]
    /\ now = 0

\* The schedule points at the first occurrence after the given one.
PointsAfter(s, occurrence) ==
    /\ table'[s].next_run_at \in Occurrences[table[s].cron]
    /\ table'[s].next_run_at > occurrence
    /\ \A o \in Occurrences[table[s].cron] :
          o > occurrence => table'[s].next_run_at <= o

Create(s) ==
    /\ table[s].status = "absent"
    /\ \E cron \in Crons : \E o \in Occurrences[cron] :
          table'[s] = [status |-> "present", cron |-> cron, enabled |-> TRUE, next_run_at |-> o]
    /\ UNCHANGED jobs[s]

\* A PATCH pauses or resumes, and may make the schedule point at any occurrence of
\* its own: the one it has read, or the first after its clock.
Patch(s) ==
    /\ table[s].status = "present"
    /\ \E enabled \in BOOLEAN, o \in Occurrences[table[s].cron] :
          table'[s] = [status |-> "present", cron |-> table[s].cron,
                       enabled |-> enabled, next_run_at |-> o]
    /\ UNCHANGED jobs[s]

Delete(s) ==
    /\ table[s].status = "present"
    /\ table'[s] = [table[s] EXCEPT !.status = "deleted"]
    /\ UNCHANGED jobs[s]

\* The job may be there already, if a PATCH made the schedule point back.
Generate(s) ==
    /\ table[s].status = "present"
    /\ table[s].enabled
    /\ table[s].next_run_at <= now
    /\ jobs'[s] = jobs[s] \cup {table[s].next_run_at}
    /\ PointsAfter(s, table[s].next_run_at)
    /\ table'[s] = [table[s] EXCEPT !.next_run_at = table'[s].next_run_at]

Keep(s) == UNCHANGED <<table[s], jobs[s]>>

Move(s) == Keep(s) \/ Create(s) \/ Generate(s) \/ Delete(s) \/ Patch(s)

Next ==
    \/ /\ DOMAIN table' = Schedules
       /\ DOMAIN jobs' = Schedules
       /\ \A s \in Schedules : Move(s)
       /\ UNCHANGED now
    \/ /\ now' = now + 1
       /\ UNCHANGED <<table, jobs>>

Spec == Init /\ [][Next]_vars

-----------------------------------------------------------------------------
(* What follows for the owner, whoever keeps the contract *)

\* An owner who has been told that a schedule is paused or deleted gets no job of it
\* any more: a job appears only while the schedule is present and enabled, for the
\* occurrence it points at, once that has come.  Jobs are not taken back, a deleted
\* schedule stays deleted, and a schedule keeps its cron expression.
PauseHolds ==
    [][\A s \in Schedules :
          /\ jobs[s] \subseteq jobs'[s]
          /\ \A o \in jobs'[s] \ jobs[s] :
                /\ table[s].status = "present" /\ table[s].enabled
                /\ o = table[s].next_run_at /\ o <= now
          /\ table[s].status = "deleted" => table'[s].status = "deleted"
          /\ table[s].status # "absent" =>
                table'[s].status # "absent" /\ table'[s].cron = table[s].cron]_vars

=============================================================================
