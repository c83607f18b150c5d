--------------------------- MODULE ScheduleProofs ---------------------------
(***************************************************************************)
(* Theorems about RecurringSchedules, for every set of schedules, requests *)
(* and worker processes, every cron expression and every horizon.          *)
(***************************************************************************)
EXTENDS RecurringSchedules, WellFoundedInduction, TLAPS

-----------------------------------------------------------------------------
(* The next run *)

Less == {p \in Nat \X Nat : p[1] < p[2]}

\* A nonempty set of instants has a first one.
LEMMA FirstInstant ==
    ASSUME NEW S \in SUBSET Nat, S # {}
    PROVE  \E m \in S : \A n \in S : m <= n
  <1>1. IsWellFoundedOn(Less, Nat)
    BY NatLessThanWellFounded DEF OpToRel, Less
  <1>2. PICK m \in S : \A n \in S : <<n, m>> \notin Less
    BY <1>1, WFMin
  <1>3. \A n \in S : ~(n < m)
    BY <1>2 DEF Less
  <1> QED
    BY <1>3

\* next_cron_run returns the first occurrence after the given time, if there is one.
LEMMA NextRunIsFirst ==
    ASSUME NEW cron \in Crons, NEW time \in Nat, HasNextRun(cron, time)
    PROVE  /\ NextCronRun(cron, time) \in Occurrences[cron]
           /\ NextCronRun(cron, time) \in Nat
           /\ NextCronRun(cron, time) > time
           /\ \A o \in Occurrences[cron] : o > time => NextCronRun(cron, time) <= o
  <1>1. After(cron, time) \in SUBSET Nat /\ After(cron, time) # {}
    BY CronAssumption DEF After, HasNextRun
  <1>2. \E m \in After(cron, time) : \A n \in After(cron, time) : m <= n
    BY <1>1, FirstInstant
  <1>3. /\ NextCronRun(cron, time) \in After(cron, time)
        /\ \A n \in After(cron, time) : NextCronRun(cron, time) <= n
    BY <1>2 DEF NextCronRun
  <1> QED
    BY <1>1, <1>3 DEF After

-----------------------------------------------------------------------------
(* The inductive invariant *)

\* An occurrence is counted exactly if it has a row.
LEMMA CountedOnce ==
    ASSUME OneJobPerOccurrence, NEW s, NEW o
    PROVE  Count(s, o) > 0 <=> <<s, o>> \in DOMAIN generated
  BY DEF OneJobPerOccurrence, Count

LEMMA InitInvariant == Init => IInv
  <1> SUFFICES ASSUME Init PROVE IInv
    OBVIOUS
  <1>1. DOMAIN generated = {}
    BY DEF Init
  <1>2. TypeOK
    BY <1>1, CronAssumption DEF Init, TypeOK, Row, NoRequest
  <1>3. OneJobPerOccurrence /\ NothingSkipped
    BY <1>1 DEF Init, OneJobPerOccurrence, NothingSkipped, Present
  <1>4. SchedulesPointAhead /\ ReadingsPast
    BY <1>1 DEF Init, SchedulesPointAhead, ReadingsPast, Present
  <1>5. CreationsPending /\ PatchesPending
    BY DEF Init, CreationsPending, PatchesPending, NoRequest
  <1> QED
    BY <1>2, <1>3, <1>4, <1>5 DEF IInv

\* What a step that touches neither the table nor the jobs keeps.
LEMMA TableKept ==
    ASSUME IInv, UNCHANGED <<schedules, generated, passed_over, now>>
    PROVE  OneJobPerOccurrence' /\ NothingSkipped' /\ SchedulesPointAhead'
  BY DEF IInv, OneJobPerOccurrence, NothingSkipped, SchedulesPointAhead, Present, Count

LEMMA BeginCreateScheduleKeeps ==
    ASSUME IInv, NEW c \in Clients, NEW s \in Schedules, NEW cron \in Crons,
           BeginCreateSchedule(c, s, cron)
    PROVE  IInv'
  <1> USE DEF BeginCreateSchedule
  <1> DEFINE creation == [op |-> "create", id |-> s, cron |-> cron, created_at |-> now,
                          next_run_at |-> NextCronRun(cron, now)]
  <1>1. now \in Nat /\ clients' = [clients EXCEPT ![c] = creation]
    BY DEF IInv, TypeOK
  <1>2. /\ creation.next_run_at \in Nat
        /\ creation.next_run_at \in After(cron, now)
        /\ \A o \in After(cron, now) : creation.next_run_at <= o
    BY <1>1, NextRunIsFirst DEF After
  <1>3. creation \in Creation
    BY <1>1, <1>2 DEF Creation
  <1>4. /\ creation.op = "create" /\ creation.id = s /\ creation.cron = cron
        /\ creation.created_at = now
    OBVIOUS
  <1> HIDE DEF creation
  <1>5. /\ clients \in [Clients -> {NoRequest} \cup Creation \cup Patch]
        /\ clients'[c] = creation
        /\ \A d \in Clients : d # c => clients'[d] = clients[d]
    BY <1>1 DEF IInv, TypeOK
  <1>6. TypeOK'
    BY <1>1, <1>3 DEF IInv, TypeOK
  <1>7. ReadingsPast'
    BY DEF IInv, ReadingsPast
  <1>8. CreationsPending'
    BY <1>1, <1>2, <1>4, <1>5 DEF IInv, CreationsPending, After
  <1>9. PatchesPending'
    BY <1>4, <1>5 DEF IInv, PatchesPending, Passed, After
  <1> QED
    BY <1>6, <1>7, <1>8, <1>9, TableKept DEF IInv

LEMMA BeginSetEnabledKeeps ==
    ASSUME IInv, NEW c \in Clients, NEW s \in Schedules, NEW enabled \in BOOLEAN,
           BeginSetEnabled(c, s, enabled)
    PROVE  IInv'
  <1> USE DEF BeginSetEnabled
  <1> DEFINE next == IF enabled THEN NextCronRun(schedules[s].cron, now)
                     ELSE schedules[s].next_run_at
             patch == [op |-> "patch", id |-> s, enabled |-> enabled, next_run_at |-> next]
  <1>1. /\ now \in Nat /\ clients' = [clients EXCEPT ![c] = patch]
        /\ schedules[s] \in Row /\ Present(s)
    BY DEF IInv, TypeOK
  <1>2. /\ schedules[s].cron \in Crons /\ schedules[s].created_at \in Nat
        /\ schedules[s].created_at <= now
        /\ schedules[s].next_run_at \in Nat
    BY <1>1 DEF Row, IInv, SchedulesPointAhead
  <1>3. next \in Nat /\ next \in After(schedules[s].cron, schedules[s].created_at)
    <2>1. CASE enabled
      <3>1. HasNextRun(schedules[s].cron, now)
        BY <2>1
      <3> QED
        BY <1>1, <1>2, <2>1, <3>1, NextRunIsFirst DEF After
    <2>2. CASE ~enabled
      BY <1>1, <1>2, <2>2 DEF IInv, SchedulesPointAhead, After
    <2> QED
      BY <2>1, <2>2
  <1>4. ~enabled => \A o \in After(schedules[s].cron, schedules[s].created_at) :
                        o < next => Passed(s, o)
    BY <1>1, CountedOnce DEF IInv, NothingSkipped, Passed, After
  <1> HIDE DEF next
  <1>5. /\ patch \in Patch /\ patch.op = "patch" /\ patch.id = s
        /\ patch.enabled = enabled /\ patch.next_run_at = next
    BY <1>3 DEF Patch
  <1> HIDE DEF patch
  <1>6. /\ clients \in [Clients -> {NoRequest} \cup Creation \cup Patch]
        /\ clients'[c] = patch
        /\ \A d \in Clients : d # c => clients'[d] = clients[d]
    BY <1>1 DEF IInv, TypeOK
  <1>7. TypeOK'
    BY <1>1, <1>5 DEF IInv, TypeOK
  <1>8. ReadingsPast'
    BY DEF IInv, ReadingsPast
  <1>9. CreationsPending'
    BY <1>5, <1>6 DEF IInv, CreationsPending, After
  <1>10. PatchesPending'
    <2>1. schedules[s].status # "absent"
      BY <1>1 DEF Present
    <2> QED
      BY <1>3, <1>4, <1>5, <1>6, <2>1 DEF IInv, PatchesPending, Passed, After
  <1> QED
    BY <1>7, <1>8, <1>9, <1>10, TableKept DEF IInv

LEMMA CreateScheduleKeeps ==
    ASSUME IInv, NEW c \in Clients, CreateSchedule(c)
    PROVE  IInv'
  <1> USE DEF CreateSchedule
  <1> DEFINE s == clients[c].id
             row == [status |-> "present", cron |-> clients[c].cron, enabled |-> TRUE,
                     created_at |-> clients[c].created_at,
                     next_run_at |-> clients[c].next_run_at, last_run_at |-> NoTime]
  <1>1. /\ clients \in [Clients -> {NoRequest} \cup Creation \cup Patch]
        /\ schedules \in [Schedules -> Row]
        /\ clients[c].op = "create" /\ clients[c] \in Creation
    BY DEF IInv, TypeOK, NoRequest, Patch
  <1>2. s \in Schedules /\ row \in Row
    BY <1>1 DEF Creation, Row
  <1>3. /\ schedules'[s] = row
        /\ \A u \in Schedules : u # s => schedules'[u] = schedules[u]
        /\ clients'[c] = NoRequest
        /\ \A d \in Clients : d # c => clients'[d] = clients[d]
    BY <1>1, <1>2
  <1>4. /\ schedules[s].status = "absent"
        /\ row.created_at <= now
        /\ row.next_run_at \in After(row.cron, row.created_at)
        /\ \A o \in After(row.cron, row.created_at) : row.next_run_at <= o
        /\ \A d \in Clients : clients[d].op = "create" /\ clients[d].id = s => d = c
    BY <1>1 DEF IInv, CreationsPending
  <1>5. row.status = "present" /\ row.created_at \in Nat /\ row.cron \in Crons
    BY <1>2 DEF Row
  <1>6. \A key \in DOMAIN generated : key[1] \in Schedules /\ key[1] # s
    BY <1>2, <1>4 DEF IInv, SchedulesPointAhead, TypeOK
  <1> HIDE DEF row, s
  <1>7. TypeOK'
    <2>1. schedules' \in [Schedules -> Row]
      BY <1>1, <1>2 DEF row, s
    <2>2. clients' \in [Clients -> {NoRequest} \cup Creation \cup Patch]
      BY <1>1
    <2> QED
      BY <2>1, <2>2 DEF IInv, TypeOK
  <1>8. OneJobPerOccurrence'
    BY <1>3, <1>6 DEF IInv, OneJobPerOccurrence
  <1>9. NothingSkipped'
    <2>1. \A o \in Occurrences[row.cron] : o \in Nat
      BY <1>5, CronAssumption
    <2>2. \A o \in Occurrences[row.cron] : row.created_at < o => ~(o < row.next_run_at)
      BY <1>4, <1>5, <2>1, CronAssumption DEF After
    <2> QED
      BY <1>3, <2>2 DEF IInv, NothingSkipped, Present, Count
  <1>10. SchedulesPointAhead'
    BY <1>2, <1>3, <1>4, <1>5, <1>6 DEF IInv, SchedulesPointAhead, Present, After
  <1>11. ReadingsPast'
    BY DEF IInv, ReadingsPast
  <1>12. CreationsPending'
    <2> SUFFICES ASSUME NEW d \in Clients, clients'[d].op = "create"
                 PROVE  d # c /\ clients'[d] = clients[d] /\ clients[d].id # s
                        /\ clients[d].id \in Schedules
      BY <1>3 DEF IInv, CreationsPending, NoRequest, After
    <2>1. d # c
      BY <1>3 DEF NoRequest
    <2> QED
      BY <1>1, <1>3, <1>4, <2>1 DEF NoRequest, Creation, Patch
  <1>13. PatchesPending'
    <2> SUFFICES ASSUME NEW d \in Clients, clients'[d].op = "patch"
                 PROVE  clients'[d] = clients[d] /\ clients[d].id # s
                        /\ clients[d].id \in Schedules
      BY <1>3 DEF IInv, PatchesPending, NoRequest, After, Passed
    <2>1. d # c
      BY <1>3 DEF NoRequest
    <2> QED
      BY <1>1, <1>3, <1>4, <2>1 DEF IInv, PatchesPending, NoRequest, Creation, Patch
  <1> QED
    BY <1>7, <1>8, <1>9, <1>10, <1>11, <1>12, <1>13 DEF IInv

LEMMA SetScheduleEnabledKeeps ==
    ASSUME IInv, NEW c \in Clients, SetScheduleEnabled(c)
    PROVE  IInv'
  <1> USE DEF SetScheduleEnabled
  <1> DEFINE s == clients[c].id
             next == clients[c].next_run_at
             jumped == {s} \X {o \in Occurrences[schedules[s].cron] :
                                  schedules[s].next_run_at <= o /\ o < next}
  <1>1. /\ clients \in [Clients -> {NoRequest} \cup Creation \cup Patch]
        /\ schedules \in [Schedules -> Row]
        /\ clients[c].op = "patch" /\ clients[c] \in Patch
    BY DEF IInv, TypeOK, NoRequest, Creation
  <1>2. /\ s \in Schedules /\ next \in Nat /\ schedules[s] \in Row
        /\ clients[c].enabled \in BOOLEAN
    BY <1>1 DEF Patch
  <1>3. /\ schedules[s].cron \in Crons /\ schedules[s].created_at \in Nat
        /\ schedules[s].next_run_at \in Nat
    BY <1>2 DEF Row
  <1>4. /\ next \in After(schedules[s].cron, schedules[s].created_at)
        /\ ~clients[c].enabled =>
              \A o \in After(schedules[s].cron, schedules[s].created_at) :
                 o < next => Passed(s, o)
    BY <1>1 DEF IInv, PatchesPending
  <1>5. /\ clients' = [clients EXCEPT ![c] = NoRequest]
        /\ clients'[c] = NoRequest
        /\ \A d \in Clients : d # c => clients'[d] = clients[d]
        /\ UNCHANGED <<generated, materializers, now>>
    BY <1>1
  <1>6. passed_over \subseteq passed_over'
    OBVIOUS
  <1>7. \A u \in Schedules : /\ schedules'[u].cron = schedules[u].cron
                             /\ schedules'[u].created_at = schedules[u].created_at
                             /\ schedules'[u].status = schedules[u].status
    BY <1>1, <1>2 DEF Row
  <1>8. \A u \in Schedules : u # s \/ ~Present(s) => schedules'[u] = schedules[u]
    BY <1>1, <1>2
  <1>9. Present(s) => schedules'[s].next_run_at = next
    BY <1>1, <1>2 DEF Row
  <1>10. Present(s) /\ clients[c].enabled => passed_over' = passed_over \cup jumped
    OBVIOUS
  <1>11. TypeOK'
    <2>1. schedules' \in [Schedules -> Row]
      BY <1>1, <1>2 DEF Row
    <2>2. clients' \in [Clients -> {NoRequest} \cup Creation \cup Patch]
      BY <1>1, <1>5
    <2>3. jumped \subseteq Schedules \X Nat
      BY <1>2, <1>3, CronAssumption
    <2>4. passed_over' \subseteq Schedules \X Nat
      BY <2>3 DEF IInv, TypeOK
    <2> QED
      BY <1>5, <2>1, <2>2, <2>4 DEF IInv, TypeOK
  <1> HIDE DEF s, next
  <1>12. OneJobPerOccurrence'
    BY <1>5, <1>7 DEF IInv, OneJobPerOccurrence, TypeOK
  <1>13. NothingSkipped'
    <2> SUFFICES ASSUME NEW u \in Schedules, Present(u)',
                        NEW o \in Occurrences[schedules[u].cron],
                        schedules[u].created_at < o, o < schedules'[u].next_run_at
                 PROVE  <<u, o>> \in DOMAIN generated \/ <<u, o>> \in passed_over'
      BY <1>5, <1>7, CountedOnce DEF IInv, NothingSkipped, OneJobPerOccurrence, Count
    <2>1. Present(u)
      BY <1>7 DEF Present
    <2>2. o \in Nat /\ o \in After(schedules[u].cron, schedules[u].created_at)
      BY <1>1, CronAssumption DEF After, Row
    <2>3. o < schedules[u].next_run_at => Passed(u, o)
      BY <2>1, CountedOnce DEF IInv, NothingSkipped, Passed
    <2>4. CASE u # s
      BY <1>6, <1>8, <2>3, <2>4 DEF Passed
    <2>5. CASE u = s /\ ~clients[c].enabled
      BY <1>4, <1>6, <1>9, <2>1, <2>2, <2>5 DEF Passed
    <2>6. CASE u = s /\ clients[c].enabled
      <3>1. o < next
        BY <1>9, <2>1, <2>6
      <3>2. CASE o < schedules[s].next_run_at
        BY <1>6, <2>3, <2>6, <3>2 DEF Passed
      <3>3. CASE schedules[s].next_run_at <= o
        BY <1>10, <2>1, <2>6, <3>1, <3>3
      <3> QED
        BY <1>3, <2>2, <3>2, <3>3
    <2> QED
      BY <1>2, <2>4, <2>5, <2>6
  <1>14. SchedulesPointAhead'
    BY <1>2, <1>4, <1>5, <1>7, <1>8, <1>9 DEF IInv, SchedulesPointAhead, Present, After
  <1>15. ReadingsPast'
    BY <1>5 DEF IInv, ReadingsPast
  <1>16. CreationsPending'
    <2>1. \A d \in Clients : clients'[d].op = "create" =>
              clients'[d] = clients[d] /\ clients[d].id \in Schedules
      BY <1>1, <1>5 DEF NoRequest, Creation, Patch
    <2> QED
      BY <1>5, <1>7, <2>1 DEF IInv, CreationsPending, After
  <1>17. PatchesPending'
    <2>1. \A d \in Clients : clients'[d].op = "patch" =>
              clients'[d] = clients[d] /\ clients[d].id \in Schedules
      BY <1>1, <1>5 DEF NoRequest, Creation, Patch
    <2> QED
      BY <1>5, <1>6, <1>7, <2>1 DEF IInv, PatchesPending, After, Passed
  <1> QED
    BY <1>11, <1>12, <1>13, <1>14, <1>15, <1>16, <1>17 DEF IInv

LEMMA DeleteScheduleKeeps ==
    ASSUME IInv, NEW s \in Schedules, DeleteSchedule(s)
    PROVE  IInv'
  <1> USE DEF DeleteSchedule
  <1>1. schedules \in [Schedules -> Row] /\ Present(s)
    BY DEF IInv, TypeOK
  <1>2. \A u \in Schedules : /\ schedules'[u].cron = schedules[u].cron
                             /\ schedules'[u].created_at = schedules[u].created_at
                             /\ schedules'[u].next_run_at = schedules[u].next_run_at
                             /\ schedules'[u].status = "absent" <=> schedules[u].status = "absent"
                             /\ Present(u)' => Present(u)
    BY <1>1 DEF Row, Present
  <1>3. TypeOK'
    <2>1. schedules' \in [Schedules -> Row]
      BY <1>1 DEF Row
    <2> QED
      BY <2>1 DEF IInv, TypeOK
  <1>4. OneJobPerOccurrence'
    BY <1>2 DEF IInv, OneJobPerOccurrence, TypeOK
  <1>5. NothingSkipped'
    BY <1>2 DEF IInv, NothingSkipped, Count
  <1>6. SchedulesPointAhead' /\ ReadingsPast'
    BY <1>2 DEF IInv, SchedulesPointAhead, ReadingsPast
  <1>7. CreationsPending'
    <2>1. \A d \in Clients : clients[d].op = "create" => clients[d].id \in Schedules
      BY DEF IInv, TypeOK, NoRequest, Creation, Patch
    <2> QED
      BY <1>2, <2>1 DEF IInv, CreationsPending
  <1>8. PatchesPending'
    <2>1. \A d \in Clients : clients[d].op = "patch" => clients[d].id \in Schedules
      BY DEF IInv, TypeOK, NoRequest, Creation, Patch
    <2> QED
      BY <1>2, <2>1 DEF IInv, PatchesPending, Passed
  <1> QED
    BY <1>3, <1>4, <1>5, <1>6, <1>7, <1>8 DEF IInv

\* Clock readings of the materializers come and go, and none is ahead of the clock.
ReadingsSound ==
    /\ materializers' \in [Workers -> Nat \cup {NoTime}]
    /\ \A w \in Workers : materializers'[w] # NoTime => materializers'[w] <= now

LEMMA ReadingsChange ==
    ASSUME IInv, ReadingsSound,
           UNCHANGED <<schedules, generated, clients, passed_over, now>>
    PROVE  IInv'
  <1>1. TypeOK'
    BY DEF IInv, TypeOK, ReadingsSound
  <1>2. ReadingsPast'
    BY DEF ReadingsPast, ReadingsSound
  <1>3. CreationsPending' /\ PatchesPending'
    BY DEF IInv, CreationsPending, PatchesPending, Passed
  <1> QED
    BY <1>1, <1>2, <1>3, TableKept DEF IInv

LEMMA ReadingTaken ==
    ASSUME IInv, NEW w \in Workers, NEW reading \in {now, NoTime},
           materializers' = [materializers EXCEPT ![w] = reading]
    PROVE  ReadingsSound
  BY DEF IInv, TypeOK, ReadingsPast, ReadingsSound

LEMMA TickKeeps ==
    ASSUME IInv, Tick
    PROVE  IInv'
  <1> USE DEF Tick
  <1>1. now \in Nat /\ now' \in Nat /\ now < now'
    BY DEF IInv, TypeOK
  <1>2. TypeOK'
    BY <1>1 DEF IInv, TypeOK
  <1>3. OneJobPerOccurrence'
    <2>1. \A key \in DOMAIN generated : key[2] \in Nat
      BY DEF IInv, TypeOK
    <2> QED
      BY <1>1, <2>1 DEF IInv, OneJobPerOccurrence
  <1>4. NothingSkipped'
    BY DEF IInv, NothingSkipped, Present, Count
  <1>5. SchedulesPointAhead'
    <2>1. \A s \in Schedules : schedules[s].created_at \in Nat
      BY DEF IInv, TypeOK, Row
    <2> QED
      BY <1>1, <2>1 DEF IInv, SchedulesPointAhead, Present
  <1>6. ReadingsPast'
    BY <1>1 DEF IInv, ReadingsPast, TypeOK
  <1>7. CreationsPending'
    <2>1. \A d \in Clients : clients[d].op = "create" => clients[d].created_at \in Nat
      BY DEF IInv, TypeOK, NoRequest, Creation, Patch
    <2> QED
      BY <1>1, <2>1 DEF IInv, CreationsPending
  <1>8. PatchesPending'
    BY DEF IInv, PatchesPending, Passed
  <1> QED
    BY <1>2, <1>3, <1>4, <1>5, <1>6, <1>7, <1>8 DEF IInv

\* A transaction that generates the due occurrence of every schedule of a batch.
Due(s) ==
    /\ Present(s)
    /\ schedules[s].enabled
    /\ schedules[s].next_run_at <= now
    /\ HasNextRun(schedules[s].cron, schedules[s].next_run_at)
Keys(batch) == {<<s, schedules[s].next_run_at>> : s \in batch}

GeneratesBatch(batch) ==
    /\ \A s \in batch : Due(s)
    /\ generated' = [key \in DOMAIN generated \cup Keys(batch) |->
                        IF key \in Keys(batch) THEN RowsAfterInsert(key[1], key[2])
                        ELSE generated[key]]
    /\ schedules' = [s \in Schedules |->
                        IF s \in batch THEN Advanced(s, now) ELSE schedules[s]]
    /\ UNCHANGED <<clients, passed_over, now>>

\* What it does to one schedule.
LEMMA BatchMoves ==
    ASSUME IInv, NEW batch \in SUBSET Schedules, GeneratesBatch(batch), NEW s \in Schedules
    PROVE  /\ schedules'[s].cron = schedules[s].cron
           /\ schedules'[s].created_at = schedules[s].created_at
           /\ schedules'[s].status = schedules[s].status
           /\ schedules'[s].enabled = schedules[s].enabled
           /\ schedules'[s] \in Row
           /\ s \notin batch => schedules'[s] = schedules[s]
           /\ s \in batch =>
                 /\ schedules'[s] = [schedules[s] EXCEPT
                                        !.last_run_at = schedules[s].next_run_at,
                                        !.next_run_at = schedules'[s].next_run_at]
                 /\ schedules'[s].next_run_at \in Occurrences[schedules[s].cron]
                 /\ schedules'[s].next_run_at > schedules[s].next_run_at
                 /\ \A o \in Occurrences[schedules[s].cron] :
                       o > schedules[s].next_run_at => schedules'[s].next_run_at <= o
  <1>1. /\ schedules[s] \in Row
        /\ schedules[s].cron \in Crons /\ schedules[s].next_run_at \in Nat
    BY DEF IInv, TypeOK, Row
  <1>2. CASE s \notin batch
    BY <1>1, <1>2 DEF GeneratesBatch
  <1>3. CASE s \in batch
    <2> DEFINE next == NextCronRun(schedules[s].cron, schedules[s].next_run_at)
    <2>1. /\ next \in Occurrences[schedules[s].cron]
          /\ next \in Nat
          /\ next > schedules[s].next_run_at
          /\ \A o \in Occurrences[schedules[s].cron] :
                o > schedules[s].next_run_at => next <= o
      BY <1>1, <1>3, NextRunIsFirst DEF GeneratesBatch, Due
    <2>2. schedules'[s] = [schedules[s] EXCEPT !.last_run_at = schedules[s].next_run_at,
                                               !.next_run_at = next]
      BY <1>3 DEF GeneratesBatch, Advanced
    <2> HIDE DEF next
    <2>3. /\ schedules'[s].next_run_at = next
          /\ schedules'[s] \in Row
          /\ schedules'[s].cron = schedules[s].cron
          /\ schedules'[s].created_at = schedules[s].created_at
          /\ schedules'[s].status = schedules[s].status
          /\ schedules'[s].enabled = schedules[s].enabled
      BY <1>1, <2>1, <2>2 DEF Row
    <2> QED
      BY <1>3, <2>1, <2>2, <2>3
  <1> QED
    BY <1>2, <1>3

\* No occurrence is generated twice: an insert meets at most one row, and leaves one.
LEMMA BatchRows ==
    ASSUME IInv, NEW batch \in SUBSET Schedules, GeneratesBatch(batch)
    PROVE  /\ DOMAIN generated' = DOMAIN generated \cup Keys(batch)
           /\ Keys(batch) \subseteq Schedules \X Nat
           /\ \A key \in DOMAIN generated' : generated'[key] = 1
  <1>1. DOMAIN generated' = DOMAIN generated \cup Keys(batch)
    BY DEF GeneratesBatch
  <1>2. Keys(batch) \subseteq Schedules \X Nat
    BY DEF Keys, IInv, TypeOK, Row
  <1>3. \A key \in DOMAIN generated : generated[key] = 1
    BY DEF IInv, OneJobPerOccurrence
  <1>4. \A s, o : RowsAfterInsert(s, o) = 1
    BY <1>3 DEF RowsAfterInsert, Count
  <1> QED
    BY <1>1, <1>2, <1>3, <1>4 DEF GeneratesBatch

LEMMA GeneratesBatchKeeps ==
    ASSUME IInv, NEW batch \in SUBSET Schedules, GeneratesBatch(batch), ReadingsSound
    PROVE  IInv'
  <1>1. UNCHANGED <<clients, passed_over, now>>
    BY DEF GeneratesBatch
  <1>2. now \in Nat
    BY DEF IInv, TypeOK
  <1>3. \A s \in Schedules : /\ schedules[s].created_at \in Nat
                             /\ schedules[s].next_run_at \in Nat
                             /\ schedules[s].cron \in Crons
    BY DEF IInv, TypeOK, Row
  <1>4. \A s \in Schedules : /\ schedules'[s].cron = schedules[s].cron
                             /\ schedules'[s].created_at = schedules[s].created_at
                             /\ schedules'[s].status = schedules[s].status
                             /\ schedules'[s] \in Row
                             /\ schedules'[s].next_run_at \in Nat
    BY BatchMoves DEF Row
  <1>5. \A s \in Schedules : s \notin batch => schedules'[s] = schedules[s]
    BY BatchMoves
  <1>6. \A s \in batch :
           /\ schedules'[s].next_run_at \in Occurrences[schedules[s].cron]
           /\ schedules'[s].next_run_at > schedules[s].next_run_at
           /\ \A o \in Occurrences[schedules[s].cron] :
                 o > schedules[s].next_run_at => schedules'[s].next_run_at <= o
    BY BatchMoves
  <1>7. /\ DOMAIN generated' = DOMAIN generated \cup Keys(batch)
        /\ Keys(batch) \subseteq Schedules \X Nat
        /\ \A key \in DOMAIN generated' : generated'[key] = 1
    BY BatchRows
  <1>8. \A s \in batch : <<s, schedules[s].next_run_at>> \in DOMAIN generated'
    BY <1>7 DEF Keys
  <1>9. \A key \in Keys(batch) :
           /\ key[1] \in batch
           /\ key[2] = schedules[key[1]].next_run_at
    BY DEF Keys
  <1>10. TypeOK'
    <2>1. schedules' \in [Schedules -> Row]
      BY <1>4 DEF GeneratesBatch
    <2>2. DOMAIN generated' \subseteq Schedules \X Nat
      BY <1>7 DEF IInv, TypeOK
    <2>3. \A key \in DOMAIN generated' : generated'[key] \in Nat
      BY <1>7
    <2> QED
      BY <1>1, <2>1, <2>2, <2>3 DEF IInv, TypeOK, ReadingsSound
  <1>11. OneJobPerOccurrence'
    <2> SUFFICES ASSUME NEW key \in DOMAIN generated'
                 PROVE  /\ generated'[key] = 1
                        /\ key[1] \in Schedules
                        /\ key[2] \in Occurrences[schedules[key[1]].cron]
                        /\ schedules[key[1]].created_at < key[2]
                        /\ key[2] <= now
      BY <1>1, <1>4, <1>5, <1>6 DEF OneJobPerOccurrence
    <2>1. CASE key \in DOMAIN generated
      BY <2>1, <1>7 DEF IInv, OneJobPerOccurrence, TypeOK
    <2>2. CASE key \in Keys(batch)
      BY <1>9, <2>2, <1>7 DEF IInv, SchedulesPointAhead, GeneratesBatch, Due
    <2> QED
      BY <2>1, <2>2, <1>7
  <1>12. NothingSkipped'
    <2> SUFFICES ASSUME NEW s \in Schedules, Present(s),
                        NEW o \in Occurrences[schedules[s].cron],
                        schedules[s].created_at < o, o < schedules'[s].next_run_at
                 PROVE  <<s, o>> \in DOMAIN generated' \/ <<s, o>> \in passed_over
      BY <1>1, <1>4, <1>5, <1>6, <1>7 DEF NothingSkipped, Present, Count
    <2>1. o \in Nat
      BY <1>3, CronAssumption
    <2>2. CASE o < schedules[s].next_run_at
      BY <2>2, <1>7, CountedOnce DEF IInv, NothingSkipped
    <2>3. CASE o = schedules[s].next_run_at
      BY <1>8, <2>3, <1>4, <1>5, <1>6
    <2>4. CASE o > schedules[s].next_run_at
      <3>1. schedules'[s].next_run_at \in Nat
        BY <1>4, <1>5, <1>6 DEF Row
      <3> QED
        BY <1>3, <2>1, <2>4, <3>1, <1>4, <1>5, <1>6
    <2> QED
      BY <1>3, <2>1, <2>2, <2>3, <2>4
  <1>13. SchedulesPointAhead'
    <2> SUFFICES ASSUME NEW s \in Schedules
                 PROVE  /\ schedules'[s].created_at <= now
                        /\ Present(s) =>
                              /\ schedules'[s].next_run_at \in Occurrences[schedules[s].cron]
                              /\ schedules'[s].created_at < schedules'[s].next_run_at
                        /\ schedules[s].status = "absent" =>
                              \A key \in DOMAIN generated' : key[1] # s
      BY <1>1, <1>4, <1>5, <1>6 DEF SchedulesPointAhead, Present
    <2>1. schedules'[s].next_run_at \in Nat
      BY <1>4, <1>5, <1>6 DEF Row
    <2>2. schedules'[s].created_at <= now
      BY <1>4, <1>5, <1>6 DEF IInv, SchedulesPointAhead
    <2>3. schedules[s].status = "absent" => \A key \in DOMAIN generated' : key[1] # s
      BY <1>9, <1>7 DEF IInv, SchedulesPointAhead, GeneratesBatch, Due, Present
    <2>4. Present(s) =>
             /\ schedules'[s].next_run_at \in Occurrences[schedules[s].cron]
             /\ schedules'[s].created_at < schedules'[s].next_run_at
      BY <1>3, <2>1, <1>4, <1>5, <1>6 DEF IInv, SchedulesPointAhead
    <2> QED
      BY <2>2, <2>3, <2>4
  <1>14. ReadingsPast'
    BY <1>1 DEF ReadingsPast, ReadingsSound
  <1>15. CreationsPending'
    <2>1. \A d \in Clients : clients[d].op = "create" => clients[d].id \in Schedules
      BY DEF IInv, TypeOK, NoRequest, Creation, Patch
    <2> QED
      BY <1>1, <2>1, <1>4, <1>5, <1>6 DEF IInv, CreationsPending
  <1>16. PatchesPending'
    <2>1. \A d \in Clients : clients[d].op = "patch" => clients[d].id \in Schedules
      BY DEF IInv, TypeOK, NoRequest, Creation, Patch
    <2>2. \A s \in Schedules : \A o : Passed(s, o) => Passed(s, o)'
      BY <1>1, <1>7 DEF Passed
    <2> QED
      BY <1>1, <2>1, <2>2, <1>4, <1>5, <1>6 DEF IInv, PatchesPending
  <1> QED
    BY <1>10, <1>11, <1>12, <1>13, <1>14, <1>15, <1>16 DEF IInv

\* The materializer generates a batch or, if one expression has ended, nothing.
LEMMA MaterializeGenerates ==
    ASSUME IInv, NEW w \in Workers, MaterializeDueSchedules(w)
    PROVE  /\ ReadingsSound
           /\ \/ \E batch \in SUBSET Schedules : GeneratesBatch(batch)
              \/ UNCHANGED <<schedules, generated, clients, passed_over, now>>
  <1> USE DEF MaterializeDueSchedules
  <1>1. ReadingsSound
    BY ReadingTaken
  <1>2. PICK batch \in Batches(DueSchedules(materializers[w])) :
           LET keys == {<<s, schedules[s].next_run_at>> : s \in batch}
           IN  IF \A s \in batch : HasNextRun(schedules[s].cron, schedules[s].next_run_at)
               THEN /\ generated' = [key \in DOMAIN generated \cup keys |->
                                        IF key \in keys THEN RowsAfterInsert(key[1], key[2])
                                        ELSE generated[key]]
                    /\ schedules' = [s \in Schedules |->
                                        IF s \in batch THEN Advanced(s, materializers[w])
                                        ELSE schedules[s]]
               ELSE UNCHANGED <<schedules, generated>>
    OBVIOUS
  <1>3. batch \in SUBSET Schedules
    BY DEF Batches, DueSchedules
  <1>4. \A s \in batch : /\ Present(s) /\ schedules[s].enabled
                         /\ schedules[s].next_run_at <= now
    <2>1. materializers[w] \in Nat /\ materializers[w] <= now /\ now \in Nat
      BY DEF IInv, TypeOK, ReadingsPast
    <2>2. \A s \in batch : schedules[s].next_run_at \in Nat
      BY <1>3 DEF IInv, TypeOK, Row
    <2> QED
      BY <2>1, <2>2 DEF Batches, DueSchedules
  <1>5. CASE \A s \in batch : HasNextRun(schedules[s].cron, schedules[s].next_run_at)
    <2>1. /\ generated' = [key \in DOMAIN generated \cup Keys(batch) |->
                              IF key \in Keys(batch) THEN RowsAfterInsert(key[1], key[2])
                              ELSE generated[key]]
          /\ schedules' = [s \in Schedules |->
                              IF s \in batch THEN Advanced(s, materializers[w])
                              ELSE schedules[s]]
      BY <1>2, <1>5 DEF Keys
    <2>2. \A s : Advanced(s, materializers[w]) = Advanced(s, now)
      BY DEF Advanced
    <2> QED
      BY <1>1, <1>3, <1>4, <1>5, <2>1, <2>2 DEF GeneratesBatch, Due
  <1>6. CASE ~\A s \in batch : HasNextRun(schedules[s].cron, schedules[s].next_run_at)
    BY <1>1, <1>2, <1>6
  <1> QED
    BY <1>5, <1>6

LEMMA NextKeeps ==
    ASSUME IInv, [Next]_vars
    PROVE  IInv'
  <1>1. ASSUME NEW c \in Clients, Request(c) PROVE IInv'
    BY <1>1, BeginCreateScheduleKeeps, CreateScheduleKeeps, BeginSetEnabledKeeps,
       SetScheduleEnabledKeeps DEF Request
  <1>2. ASSUME NEW s \in Schedules, DeleteSchedule(s) PROVE IInv'
    BY <1>2, DeleteScheduleKeeps
  <1>3. ASSUME NEW w \in Workers, BeginMaterialize(w) PROVE IInv'
    BY <1>3, ReadingTaken, ReadingsChange DEF BeginMaterialize
  <1>4. ASSUME NEW w \in Workers, MaterializeDueSchedules(w) PROVE IInv'
    BY <1>4, MaterializeGenerates, GeneratesBatchKeeps, ReadingsChange
  <1>5. ASSUME Tick PROVE IInv'
    BY <1>5, TickKeeps
  <1>6. CASE UNCHANGED vars
    <2>1. ReadingsSound
      BY <1>6 DEF vars, IInv, TypeOK, ReadingsPast, ReadingsSound
    <2> QED
      BY <1>6, <2>1, ReadingsChange DEF vars
  <1> QED
    BY <1>1, <1>2, <1>3, <1>4, <1>5, <1>6 DEF Next

\* IInv is inductive: no request, materializer or passage of time breaks it.
THEOREM Invariance ==
    Spec => []IInv
  BY InitInvariant, NextKeeps, PTL DEF Spec

\* The table, the generated rows and what requests hold stay well typed.
THEOREM TypeCorrectness ==
    Spec => []TypeOK
  <1>1. IInv => TypeOK
    BY DEF IInv
  <1> QED
    BY <1>1, Invariance, PTL

\* No occurrence has two jobs, and every job stands for an occurrence that has come.
THEOREM OneJobPerOccurrenceTheorem ==
    Spec => []OneJobPerOccurrence
  <1>1. IInv => OneJobPerOccurrence
    BY DEF IInv
  <1> QED
    BY <1>1, Invariance, PTL

\* Only a PATCH that enables a schedule passes over an occurrence.
THEOREM NothingSkippedTheorem ==
    Spec => []NothingSkipped
  <1>1. IInv => NothingSkipped
    BY DEF IInv
  <1> QED
    BY <1>1, Invariance, PTL

-----------------------------------------------------------------------------
(* The table implements the contract *)

\* The row of the contract's table for a schedule, before and after a step.
LEMMA TableRow ==
    ASSUME NEW s \in Schedules
    PROVE  /\ Table[s].status = schedules[s].status
           /\ Table[s].cron = schedules[s].cron
           /\ Table[s].enabled = schedules[s].enabled
           /\ Table[s].next_run_at = schedules[s].next_run_at
           /\ Table'[s].next_run_at = schedules'[s].next_run_at
  BY DEF Table

LEMMA TableRowChanges ==
    ASSUME NEW s \in Schedules
    PROVE  Table'[s] = [status |-> schedules'[s].status, cron |-> schedules'[s].cron,
                        enabled |-> schedules'[s].enabled,
                        next_run_at |-> schedules'[s].next_run_at]
  BY DEF Table

\* Only next_run_at of the row is different.
LEMMA TableRowPointsElsewhere ==
    ASSUME NEW s \in Schedules,
           schedules'[s].status = schedules[s].status,
           schedules'[s].cron = schedules[s].cron,
           schedules'[s].enabled = schedules[s].enabled
    PROVE  Table'[s] = [Table[s] EXCEPT !.next_run_at = Table'[s].next_run_at]
  BY DEF Table

\* A step that leaves the jobs alone moves a schedule if it moves its row.
LEMMA OnlyRowMoves ==
    ASSUME UNCHANGED generated, NEW s \in Schedules
    PROVE  OccurrencesWithJob[s]' = OccurrencesWithJob[s]
  BY DEF OccurrencesWithJob

LEMMA RequestMoves ==
    ASSUME IInv, NEW c \in Clients, Request(c), NEW s \in Schedules
    PROVE  Contract!Move(s)
  <1> USE DEF Contract!Move
  <1>1. /\ clients \in [Clients -> {NoRequest} \cup Creation \cup Patch]
        /\ schedules \in [Schedules -> Row]
    BY DEF IInv, TypeOK
  <1>2. UNCHANGED <<generated, now>>
    BY DEF Request, BeginCreateSchedule, CreateSchedule, BeginSetEnabled, SetScheduleEnabled
  <1>3. CASE schedules'[s] = schedules[s]
    BY <1>2, <1>3, OnlyRowMoves DEF Contract!Keep, Table
  <1>4. CASE CreateSchedule(c) /\ clients[c].id = s
    <2>1. clients[c] \in Creation
      BY <1>1, <1>4 DEF CreateSchedule, NoRequest, Patch
    <2>2. /\ schedules[s].status = "absent"
          /\ clients[c].cron \in Crons
          /\ clients[c].next_run_at \in Occurrences[clients[c].cron]
      BY <1>4, <2>1 DEF IInv, CreationsPending, CreateSchedule, After, Creation
    <2>3. /\ schedules'[s].status = "present"
          /\ schedules'[s].cron = clients[c].cron
          /\ schedules'[s].enabled = TRUE
          /\ schedules'[s].next_run_at = clients[c].next_run_at
      BY <1>1, <1>4 DEF CreateSchedule
    <2>4. /\ Table[s].status = "absent"
          /\ Table'[s] = [status |-> "present", cron |-> clients[c].cron, enabled |-> TRUE,
                          next_run_at |-> clients[c].next_run_at]
      BY <2>2, <2>3, TableRow, TableRowChanges
    <2>5. Contract!Create(s)
      BY <1>2, <2>2, <2>4, OnlyRowMoves DEF Contract!Create
    <2> QED
      BY <2>5
  <1>5. CASE SetScheduleEnabled(c) /\ clients[c].id = s /\ Present(s)
    <2>1. clients[c] \in Patch
      BY <1>1, <1>5 DEF SetScheduleEnabled, NoRequest, Creation
    <2>2. /\ clients[c].enabled \in BOOLEAN
          /\ clients[c].next_run_at \in Occurrences[schedules[s].cron]
      BY <1>5, <2>1 DEF IInv, PatchesPending, SetScheduleEnabled, After, Patch
    <2>3. /\ schedules'[s].status = schedules[s].status
          /\ schedules'[s].cron = schedules[s].cron
          /\ schedules'[s].enabled = clients[c].enabled
          /\ schedules'[s].next_run_at = clients[c].next_run_at
      BY <1>1, <1>5 DEF SetScheduleEnabled, Row
    <2>4. /\ Table[s].status = "present" /\ Table[s].cron = schedules[s].cron
          /\ Table'[s] = [status |-> "present", cron |-> Table[s].cron,
                          enabled |-> clients[c].enabled,
                          next_run_at |-> clients[c].next_run_at]
      BY <1>5, <2>3, TableRow, TableRowChanges DEF Present
    <2>5. Contract!Patch(s)
      BY <1>2, <2>2, <2>4, OnlyRowMoves DEF Contract!Patch
    <2> QED
      BY <2>5
  <1> QED
    BY <1>1, <1>3, <1>4, <1>5
       DEF Request, BeginCreateSchedule, CreateSchedule, BeginSetEnabled, SetScheduleEnabled

LEMMA DeleteMoves ==
    ASSUME IInv, NEW u \in Schedules, DeleteSchedule(u), NEW s \in Schedules
    PROVE  Contract!Move(s)
  <1> USE DEF Contract!Move, DeleteSchedule
  <1>1. schedules[s] \in Row /\ schedules \in [Schedules -> Row]
    BY DEF IInv, TypeOK
  <1>2. CASE u = s
    <2>1. schedules'[s] = [schedules[s] EXCEPT !.status = "deleted"]
      BY <1>1, <1>2
    <2> QED
      BY <1>1, <1>2, <2>1, OnlyRowMoves DEF Contract!Delete, Table, Present, Row
  <1>3. CASE u # s
    BY <1>1, <1>3, OnlyRowMoves DEF Contract!Keep, Table
  <1> QED
    BY <1>2, <1>3

LEMMA BatchMovesContract ==
    ASSUME IInv, NEW batch \in SUBSET Schedules, GeneratesBatch(batch), NEW s \in Schedules
    PROVE  Contract!Move(s)
  <1> USE DEF Contract!Move
  <1>1. /\ schedules[s] \in Row
        /\ DOMAIN generated' = DOMAIN generated \cup Keys(batch)
    BY BatchRows DEF IInv, TypeOK
  <1>2. CASE s \notin batch
    <2>1. schedules'[s] = schedules[s]
      BY <1>2, BatchMoves
    <2>2. \A o : o \in OccurrencesWithJob'[s] <=> o \in OccurrencesWithJob[s]
      BY <1>1, <1>2 DEF OccurrencesWithJob, Keys
    <2>3. OccurrencesWithJob'[s] = OccurrencesWithJob[s]
      BY <2>2
    <2> QED
      BY <2>1, <2>3 DEF Contract!Keep, Table
  <1>3. CASE s \in batch
    <2>1. \A o : o \in OccurrencesWithJob'[s] <=>
                    o \in OccurrencesWithJob[s] \/ o = schedules[s].next_run_at
      <3>1. /\ <<s, schedules[s].next_run_at>> \in Keys(batch)
            /\ \A key \in Keys(batch) :
                  key[1] = s => key[2] = schedules[s].next_run_at
        BY <1>3 DEF Keys
      <3>2. /\ OccurrencesWithJob[s] = {key[2] : key \in {k \in DOMAIN generated : k[1] = s}}
            /\ OccurrencesWithJob'[s] =
                  {key[2] : key \in {k \in DOMAIN generated' : k[1] = s}}
        BY DEF OccurrencesWithJob
      <3> QED
        BY <1>1, <3>1, <3>2
    <2>2. OccurrencesWithJob'[s] = OccurrencesWithJob[s] \cup {schedules[s].next_run_at}
      BY <2>1
    <2>3. /\ schedules'[s] = [schedules[s] EXCEPT
                                 !.last_run_at = schedules[s].next_run_at,
                                 !.next_run_at = schedules'[s].next_run_at]
          /\ schedules'[s].next_run_at \in Occurrences[schedules[s].cron]
          /\ schedules'[s].next_run_at > schedules[s].next_run_at
          /\ \A o \in Occurrences[schedules[s].cron] :
                o > schedules[s].next_run_at => schedules'[s].next_run_at <= o
      BY <1>3, BatchMoves
    <2>4. /\ schedules[s].status = "present" /\ schedules[s].enabled
          /\ schedules[s].next_run_at <= now
      BY <1>3 DEF GeneratesBatch, Due, Present
    <2>5. /\ schedules'[s].status = schedules[s].status
          /\ schedules'[s].cron = schedules[s].cron
          /\ schedules'[s].enabled = schedules[s].enabled
      BY BatchMoves
    <2>6. /\ Table[s].status = "present" /\ Table[s].enabled
          /\ Table[s].next_run_at = schedules[s].next_run_at
          /\ Table[s].next_run_at <= now
          /\ Table[s].cron = schedules[s].cron
          /\ Table'[s].next_run_at = schedules'[s].next_run_at
          /\ Table'[s] = [Table[s] EXCEPT !.next_run_at = Table'[s].next_run_at]
      BY <2>4, <2>5, TableRow, TableRowPointsElsewhere
    <2>7. Contract!Generate(s)
      BY <2>2, <2>3, <2>6 DEF Contract!Generate, Contract!PointsAfter
    <2> QED
      BY <2>7
  <1> QED
    BY <1>2, <1>3

LEMMA InitContract == Init => Contract!Init
  <1> SUFFICES ASSUME Init PROVE Contract!Init
    OBVIOUS
  <1>1. DOMAIN generated = {}
    BY DEF Init
  <1>2. OccurrencesWithJob = [s \in Schedules |-> {}]
    BY <1>1 DEF OccurrencesWithJob
  <1> QED
    BY <1>2 DEF Init, Contract!Init, Table

LEMMA ContractIdle ==
    ASSUME UNCHANGED <<schedules, generated, now>>
    PROVE  UNCHANGED Contract!vars
  BY DEF Contract!vars, Table, OccurrencesWithJob

\* A move of every schedule, while the clock stands, is a step of the contract.
LEMMA MovesMakeAStep ==
    ASSUME \A s \in Schedules : Contract!Move(s), UNCHANGED now
    PROVE  Contract!Next
  <1>1. DOMAIN Table' = Schedules /\ DOMAIN OccurrencesWithJob' = Schedules
    BY DEF Table, OccurrencesWithJob
  <1> QED
    BY <1>1 DEF Contract!Next

LEMMA RequestStep ==
    ASSUME IInv, NEW c \in Clients, Request(c)
    PROVE  Contract!Next
  <1>1. UNCHANGED now
    BY DEF Request, BeginCreateSchedule, CreateSchedule, BeginSetEnabled, SetScheduleEnabled
  <1> QED
    BY <1>1, RequestMoves, MovesMakeAStep

LEMMA DeleteStep ==
    ASSUME IInv, NEW s \in Schedules, DeleteSchedule(s)
    PROVE  Contract!Next
  BY DeleteMoves, MovesMakeAStep DEF DeleteSchedule

LEMMA BatchStep ==
    ASSUME IInv, NEW batch \in SUBSET Schedules, GeneratesBatch(batch)
    PROVE  Contract!Next
  BY BatchMovesContract, MovesMakeAStep DEF GeneratesBatch

LEMMA TickStep ==
    ASSUME Tick
    PROVE  Contract!Next
  BY DEF Contract!Next, Tick, Table, OccurrencesWithJob

\* Every step is a step of ScheduleContract, or none: RecurringSchedules refines it.
THEOREM Refinement ==
    Spec => ImplementsContract
  <1>1. IInv /\ [Next]_vars => [Contract!Next]_(Contract!vars)
    <2> SUFFICES ASSUME IInv, [Next]_vars PROVE [Contract!Next]_(Contract!vars)
      OBVIOUS
    <2>1. CASE \E w \in Workers : BeginMaterialize(w)
      BY <2>1, ContractIdle DEF BeginMaterialize
    <2>2. CASE \E w \in Workers : MaterializeDueSchedules(w)
      BY <2>2, ContractIdle, BatchStep, MaterializeGenerates
    <2>3. CASE UNCHANGED vars
      BY <2>3, ContractIdle DEF vars
    <2> QED
      BY <2>1, <2>2, <2>3, RequestStep, DeleteStep, TickStep DEF Next
  <1> QED
    BY <1>1, InitContract, Invariance, PTL DEF Spec, ImplementsContract, Contract!Spec

-----------------------------------------------------------------------------
(* What the contract gives an owner holds of the table *)

LEMMA MoveHoldsPause ==
    ASSUME NEW s \in Schedules, Contract!Move(s)
    PROVE  /\ OccurrencesWithJob[s] \subseteq OccurrencesWithJob'[s]
           /\ \A o \in OccurrencesWithJob'[s] \ OccurrencesWithJob[s] :
                 /\ Table[s].status = "present" /\ Table[s].enabled
                 /\ o = Table[s].next_run_at /\ o <= now
           /\ Table[s].status = "deleted" => Table'[s].status = "deleted"
           /\ Table[s].status # "absent" =>
                 Table'[s].status # "absent" /\ Table'[s].cron = Table[s].cron
  <1>1. CASE Contract!Keep(s)
    BY <1>1 DEF Contract!Keep
  <1>2. CASE Contract!Create(s)
    BY <1>2 DEF Contract!Create
  <1>3. CASE Contract!Patch(s)
    BY <1>3 DEF Contract!Patch
  <1>4. CASE Contract!Delete(s)
    <2>1. Table[s].status = "present" /\ OccurrencesWithJob'[s] = OccurrencesWithJob[s]
      BY <1>4 DEF Contract!Delete
    <2>2. Table'[s].status = "deleted" /\ Table'[s].cron = Table[s].cron
      BY <1>4 DEF Contract!Delete, Table
    <2> QED
      BY <2>1, <2>2
  <1>5. CASE Contract!Generate(s)
    <2>1. /\ Table[s].status = "present" /\ Table[s].enabled
          /\ Table[s].next_run_at <= now
          /\ OccurrencesWithJob'[s] = OccurrencesWithJob[s] \cup {Table[s].next_run_at}
      BY <1>5 DEF Contract!Generate
    <2>2. Table'[s].status = Table[s].status /\ Table'[s].cron = Table[s].cron
      BY <1>5 DEF Contract!Generate, Table
    <2> QED
      BY <2>1, <2>2
  <1> QED
    BY <1>1, <1>2, <1>3, <1>4, <1>5 DEF Contract!Move

LEMMA ContractHoldsPause ==
    Contract!Spec => Contract!PauseHolds
  <1>1. [Contract!Next]_(Contract!vars) =>
           [\A s \in Schedules :
               /\ OccurrencesWithJob[s] \subseteq OccurrencesWithJob'[s]
               /\ \A o \in OccurrencesWithJob'[s] \ OccurrencesWithJob[s] :
                     /\ Table[s].status = "present" /\ Table[s].enabled
                     /\ o = Table[s].next_run_at /\ o <= now
               /\ Table[s].status = "deleted" => Table'[s].status = "deleted"
               /\ Table[s].status # "absent" =>
                     Table'[s].status # "absent" /\ Table'[s].cron = Table[s].cron]_(Contract!vars)
    BY MoveHoldsPause DEF Contract!Next
  <1> QED
    BY <1>1, PTL DEF Contract!Spec, Contract!PauseHolds

\* A materializer never makes a job of a schedule that a request has paused or deleted,
\* although it read its clock, and a PATCH its row, before they waited for the lock.
THEOREM PauseHoldsTheorem ==
    Spec => Contract!PauseHolds
  BY Refinement, ContractHoldsPause, PTL DEF ImplementsContract

=============================================================================
