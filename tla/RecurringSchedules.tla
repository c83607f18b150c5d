-------------------------- MODULE RecurringSchedules --------------------------
(***************************************************************************)
(* The recurring schedules of PulseQueue: POST, PATCH and DELETE of        *)
(* /schedules and the cron materializer every worker process runs          *)
(* (app/repository.py, app/scheduling.py).                                 *)
(*                                                                         *)
(* The materializer is one BEGIN IMMEDIATE transaction, but it reads the   *)
(* clock before it waits for the write lock; a PATCH reads the row and the *)
(* clock in one connection and writes the row in another.  Both are two    *)
(* steps here, so a schedule may change between them.                      *)
(*                                                                         *)
(* The jobs a schedule generates are counted per occurrence; what becomes  *)
(* of them afterwards is module JobQueue.  Time is a number up to Horizon. *)
(***************************************************************************)
EXTENDS Naturals, FiniteSets

CONSTANTS
    Schedules,      \* identities (uuid4) a schedule can get
    Crons,          \* cron expressions
    Occurrences,    \* [Crons -> set of instants]: what croniter computes
    Limit,          \* batch limit of the materializer
    Clients,        \* API requests in flight
    Workers,        \* worker processes
    Horizon,        \* the clock stops here
    NoTime          \* NULL, and a process that holds no clock reading

ASSUME CronAssumption ==
    /\ Crons # {}
    /\ Occurrences \in [Crons -> SUBSET Nat]

ASSUME ScheduleAssumption ==
    /\ IsFiniteSet(Schedules)
    /\ Limit \in Nat \ {0}
    /\ Horizon \in Nat
    /\ NoTime \notin Nat

VARIABLES
    schedules,      \* table recurring_schedules, keyed by id
    generated,      \* rows of jobs with a schedule_id: how many per <<id, scheduled_for>>
    clients,        \* what each API request holds between its read and its write
    materializers,  \* clock reading of each running materializer
    passed_over,    \* history: <<id, occurrence>> an enabling PATCH jumped over
    now

vars == <<schedules, generated, clients, materializers, passed_over, now>>

Row ==
    [status : {"absent", "present", "deleted"}, cron : Crons, enabled : BOOLEAN,
     created_at : Nat, next_run_at : Nat, last_run_at : Nat \cup {NoTime}]

Present(s) == schedules[s].status = "present"

NoRequest == [op |-> "none"]
Creation == [op : {"create"}, id : Schedules, cron : Crons, created_at : Nat, next_run_at : Nat]
Patch == [op : {"patch"}, id : Schedules, enabled : BOOLEAN, next_run_at : Nat]

Init ==
    /\ schedules = [s \in Schedules |->
                       [status |-> "absent", cron |-> CHOOSE c \in Crons : TRUE,
                        enabled |-> FALSE, created_at |-> 0, next_run_at |-> 0,
                        last_run_at |-> NoTime]]
    /\ generated = << >>
    /\ clients = [c \in Clients |-> NoRequest]
    /\ materializers = [w \in Workers |-> NoTime]
    /\ passed_over = {}
    /\ now = 0

-----------------------------------------------------------------------------
(* next_cron_run: the first occurrence after a time.  It raises when the         *)
(* expression has none, which a cron expression with a year field can run into.  *)

After(cron, time) == {o \in Occurrences[cron] : o > time}
HasNextRun(cron, time) == After(cron, time) # {}
NextCronRun(cron, time) ==
    CHOOSE o \in After(cron, time) : \A p \in After(cron, time) : o <= p

-----------------------------------------------------------------------------
(* Requests.  X_Slip definitions are slips the definition X below might contain. *)

\* POST /schedules computes next_run_at, then inserts the row; an expression without
\* a next run is refused with 422.
BeginCreateSchedule(c, s, cron) ==
    /\ clients[c] = NoRequest
    /\ schedules[s].status = "absent"
    /\ \A d \in Clients : clients[d].op = "create" => clients[d].id # s
    /\ HasNextRun(cron, now)
    /\ clients' = [clients EXCEPT ![c] =
                      [op |-> "create", id |-> s, cron |-> cron, created_at |-> now,
                       next_run_at |-> NextCronRun(cron, now)]]
    /\ UNCHANGED <<schedules, generated, materializers, passed_over, now>>

CreateSchedule(c) ==
    /\ clients[c].op = "create"
    /\ schedules' = [schedules EXCEPT ![clients[c].id] =
                        [status |-> "present", cron |-> clients[c].cron, enabled |-> TRUE,
                         created_at |-> clients[c].created_at,
                         next_run_at |-> clients[c].next_run_at, last_run_at |-> NoTime]]
    /\ clients' = [clients EXCEPT ![c] = NoRequest]
    /\ UNCHANGED <<generated, materializers, passed_over, now>>

\* PATCH /schedules/{id}, up to the UPDATE: resuming computes the next run from the
\* clock, pausing keeps the next_run_at just read.
BeginSetEnabled(c, s, enabled) ==
    /\ clients[c] = NoRequest
    /\ Present(s)
    /\ enabled => HasNextRun(schedules[s].cron, now)
    /\ clients' = [clients EXCEPT ![c] =
                      [op |-> "patch", id |-> s, enabled |-> enabled,
                       next_run_at |-> IF enabled THEN NextCronRun(schedules[s].cron, now)
                                       ELSE schedules[s].next_run_at]]
    /\ UNCHANGED <<schedules, generated, materializers, passed_over, now>>

\* The UPDATE: by id alone, whatever the row holds by now.
SetScheduleEnabled(c) ==
    LET s == clients[c].id
        next_run_at == clients[c].next_run_at
    IN  /\ clients[c].op = "patch"
        /\ IF Present(s)
           THEN /\ schedules' = [schedules EXCEPT ![s].enabled = clients[c].enabled,
                                                  ![s].next_run_at = next_run_at]
                /\ passed_over' =
                      IF clients[c].enabled
                      THEN passed_over \cup
                           ({s} \X {o \in Occurrences[schedules[s].cron] :
                                       schedules[s].next_run_at <= o /\ o < next_run_at})
                      ELSE passed_over
           ELSE UNCHANGED <<schedules, passed_over>>
        /\ clients' = [clients EXCEPT ![c] = NoRequest]
        /\ UNCHANGED <<generated, materializers, now>>

\* DELETE /schedules/{id}; the jobs it generated stay.
DeleteSchedule(s) ==
    /\ Present(s)
    /\ schedules' = [schedules EXCEPT ![s].status = "deleted"]
    /\ UNCHANGED <<generated, clients, materializers, passed_over, now>>

-----------------------------------------------------------------------------
(* The materializer *)

DueSchedules_Paused(time) ==
    {s \in Schedules : Present(s) /\ schedules[s].next_run_at <= time}
DueSchedules(time) ==
    {s \in Schedules : Present(s) /\ schedules[s].enabled /\ schedules[s].next_run_at <= time}

\* ORDER BY next_run_at LIMIT: schedules due at the same instant come in any order.
Batches(due) ==
    {batch \in SUBSET due :
        /\ Cardinality(batch) = IF Cardinality(due) < Limit THEN Cardinality(due) ELSE Limit
        /\ \A s \in batch, u \in due \ batch :
              schedules[s].next_run_at <= schedules[u].next_run_at}

Count(s, o) == IF <<s, o>> \in DOMAIN generated THEN generated[<<s, o>>] ELSE 0

\* INSERT OR IGNORE under the unique index (schedule_id, scheduled_for).
RowsAfterInsert_NoIndex(s, o) == Count(s, o) + 1
RowsAfterInsert(s, o) == IF Count(s, o) > 0 THEN Count(s, o) ELSE 1

\* The row of a schedule whose due occurrence was generated.
Advanced_FromNow(s, time) ==
    [schedules[s] EXCEPT !.last_run_at = schedules[s].next_run_at,
                         !.next_run_at = NextCronRun(schedules[s].cron, time)]
Advanced_Stays(s, time) == [schedules[s] EXCEPT !.last_run_at = schedules[s].next_run_at]
Advanced_Finished(s, time) ==
    [schedules[s] EXCEPT !.last_run_at = schedules[s].next_run_at,
                         !.next_run_at = NoTime]
Advanced(s, time) ==
    [schedules[s] EXCEPT !.last_run_at = schedules[s].next_run_at,
                         !.next_run_at = NextCronRun(schedules[s].cron,
                                                     schedules[s].next_run_at)]

\* _maybe_materialize_schedules reads the clock.  A run that raised or whose process
\* died is forgotten and begun anew.
BeginMaterialize(w) ==
    /\ materializers[w] # now
    /\ materializers' = [materializers EXCEPT ![w] = now]
    /\ UNCHANGED <<schedules, generated, clients, passed_over, now>>

\* materialize_due_schedules: one transaction for the batch; one expression without
\* a next run rolls all of it back.
MaterializeDueSchedules(w) ==
    /\ materializers[w] # NoTime
    /\ \E batch \in Batches(DueSchedules(materializers[w])) :
          LET keys == {<<s, schedules[s].next_run_at>> : s \in batch}
          IN  IF \A s \in batch : HasNextRun(schedules[s].cron, schedules[s].next_run_at)
              THEN /\ generated' = [key \in DOMAIN generated \cup keys |->
                                       IF key \in keys THEN RowsAfterInsert(key[1], key[2])
                                       ELSE generated[key]]
                   /\ schedules' = [s \in Schedules |->
                                       IF s \in batch THEN Advanced(s, materializers[w])
                                       ELSE schedules[s]]
              ELSE UNCHANGED <<schedules, generated>>
    /\ materializers' = [materializers EXCEPT ![w] = NoTime]
    /\ UNCHANGED <<clients, passed_over, now>>

Tick ==
    /\ now < Horizon
    /\ now' = now + 1
    /\ UNCHANGED <<schedules, generated, clients, materializers, passed_over>>

-----------------------------------------------------------------------------

Request(c) ==
    \/ \E s \in Schedules : \/ \E cron \in Crons : BeginCreateSchedule(c, s, cron)
                            \/ \E enabled \in BOOLEAN : BeginSetEnabled(c, s, enabled)
    \/ CreateSchedule(c)
    \/ SetScheduleEnabled(c)

Next ==
    \/ \E c \in Clients : Request(c)
    \/ \E s \in Schedules : DeleteSchedule(s)
    \/ \E w \in Workers : BeginMaterialize(w) \/ MaterializeDueSchedules(w)
    \/ Tick

Spec == Init /\ [][Next]_vars

\* Worker processes poll and get the write lock in the end; no client has to call.
FairSpec ==
    /\ Spec
    /\ WF_vars(Tick)
    /\ \A w \in Workers : WF_vars(BeginMaterialize(w)) /\ WF_vars(MaterializeDueSchedules(w))

-----------------------------------------------------------------------------
(* Properties *)

\* The occurrences the clock reaches.
Instants == {o \in UNION {Occurrences[cron] : cron \in Crons} : o <= Horizon}

\* Type correctness of the table, of the generated rows and of what requests hold.
TypeOK ==
    /\ schedules \in [Schedules -> Row]
    /\ DOMAIN generated \subseteq Schedules \X Nat
    /\ \A key \in DOMAIN generated : generated[key] \in Nat
    /\ clients \in [Clients -> {NoRequest} \cup Creation \cup Patch]
    /\ materializers \in [Workers -> Nat \cup {NoTime}]
    /\ passed_over \subseteq Schedules \X Nat
    /\ now \in Nat

\* Every generated job stands for a real occurrence of its schedule that has come and
\* that lies after the schedule's creation, and no occurrence has two jobs: neither a
\* materializer with an old clock nor a PATCH that moves next_run_at back repeats one.
OneJobPerOccurrence ==
    \A key \in DOMAIN generated :
        LET s == key[1]
            o == key[2]
        IN  /\ generated[key] = 1
            /\ o \in Occurrences[schedules[s].cron]
            /\ schedules[s].created_at < o
            /\ o <= now

\* Whatever PATCH requests interleave with it, the materializer skips nothing: every
\* occurrence between the creation of a schedule and its next_run_at has its job,
\* unless a PATCH that enabled the schedule moved next_run_at over it.
NothingSkipped ==
    \A s \in Schedules : Present(s) =>
        \A o \in Occurrences[schedules[s].cron] :
            schedules[s].created_at < o /\ o < schedules[s].next_run_at =>
                Count(s, o) > 0 \/ <<s, o>> \in passed_over

\* What the three properties above rest on.  A schedule points at an occurrence after
\* its creation, and only existing schedules have generated jobs.
SchedulesPointAhead ==
    \A s \in Schedules :
        /\ schedules[s].created_at <= now
        /\ Present(s) =>
              /\ schedules[s].next_run_at \in Occurrences[schedules[s].cron]
              /\ schedules[s].created_at < schedules[s].next_run_at
        /\ schedules[s].status = "absent" =>
              \A key \in DOMAIN generated : key[1] # s

\* Clock readings are not ahead of the clock.
ReadingsPast ==
    \A w \in Workers : materializers[w] # NoTime => materializers[w] <= now

\* A POST that has not inserted its row points at the first occurrence after its
\* creation, and no other request has its id.
CreationsPending ==
    \A c \in Clients : clients[c].op = "create" =>
        /\ schedules[clients[c].id].status = "absent"
        /\ clients[c].created_at <= now
        /\ clients[c].next_run_at \in After(clients[c].cron, clients[c].created_at)
        /\ \A o \in After(clients[c].cron, clients[c].created_at) :
              clients[c].next_run_at <= o
        /\ \A d \in Clients :
              clients[d].op = "create" /\ clients[d].id = clients[c].id => d = c

Passed(s, o) == <<s, o>> \in DOMAIN generated \/ <<s, o>> \in passed_over

\* A PATCH that has not written its row holds an occurrence of the schedule, and one
\* that pauses holds a next_run_at before which nothing was skipped.
PatchesPending ==
    \A c \in Clients : clients[c].op = "patch" =>
        LET s == clients[c].id
        IN  /\ schedules[s].status # "absent"
            /\ clients[c].next_run_at \in After(schedules[s].cron, schedules[s].created_at)
            /\ ~clients[c].enabled =>
                  \A o \in After(schedules[s].cron, schedules[s].created_at) :
                      o < clients[c].next_run_at => Passed(s, o)

\* The inductive invariant behind the safety properties.
IInv ==
    /\ TypeOK
    /\ OneJobPerOccurrence
    /\ NothingSkipped
    /\ SchedulesPointAhead
    /\ ReadingsPast
    /\ CreationsPending
    /\ PatchesPending

\* The table keeps the promise of ScheduleContract to the owner of every schedule.
Table ==
    [s \in Schedules |->
        [status |-> schedules[s].status, cron |-> schedules[s].cron,
         enabled |-> schedules[s].enabled, next_run_at |-> schedules[s].next_run_at]]
OccurrencesWithJob ==
    [s \in Schedules |-> {key[2] : key \in {k \in DOMAIN generated : k[1] = s}}]
Contract == INSTANCE ScheduleContract WITH
    table <- Table, jobs <- OccurrencesWithJob
ImplementsContract == Contract!Spec

\* A step that leaves a schedule enabled never moves its next_run_at past an
\* occurrence that has no job.
EnabledKeepsOccurrences ==
    [][\A s \in Schedules :
          /\ Present(s) /\ schedules[s].enabled
          /\ schedules'[s].status = "present" /\ schedules'[s].enabled
          => \A o \in Occurrences[schedules[s].cron] :
                schedules[s].next_run_at <= o /\ o < schedules'[s].next_run_at =>
                    <<s, o>> \in DOMAIN generated']_vars

\* An enabled schedule that is due for the last occurrence of its expression: a batch
\* that holds it raises, and nothing but a request changes that.
Blocks(s) ==
    /\ Present(s) /\ schedules[s].enabled
    /\ schedules[s].next_run_at <= now
    /\ ~HasNextRun(schedules[s].cron, schedules[s].next_run_at)

\* The schedule s is due for o, and its expression goes on after o.
AwaitsJob(s, o) ==
    /\ Present(s) /\ schedules[s].enabled
    /\ schedules[s].next_run_at = o /\ o <= now
    /\ HasNextRun(schedules[s].cron, o)

\* o has its job, or the schedule is paused, deleted, or moved by a PATCH.
NoLongerAwaits(s, o) ==
    \/ Count(s, o) > 0
    \/ ~Present(s)
    \/ ~schedules[s].enabled
    \/ <<s, o>> \in passed_over

\* What README.md:286 says of the materializer: every missed occurrence of a schedule
\* gets its job in the end.
MissedOccurrencesGenerated ==
    \A s \in Schedules, o \in Instants : AwaitsJob(s, o) ~> NoLongerAwaits(s, o)

\* What it does: a due occurrence of an enabled schedule whose expression goes on gets
\* its job in the end, however many occurrences were missed and however small the
\* batch, unless the schedule is paused, deleted, or moved by a PATCH; and unless a
\* schedule whose expression has ended is due for ever, because every batch that holds
\* that one is rolled back.
DueOccurrenceGenerated ==
    []<>(\A u \in Schedules : ~Blocks(u)) => MissedOccurrencesGenerated

=============================================================================
