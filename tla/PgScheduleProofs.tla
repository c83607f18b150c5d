-------------------------- MODULE PgScheduleProofs --------------------------
(***************************************************************************)
(* Theorems about PgSchedules, for every set of schedules, requests and    *)
(* worker processes, every batch limit and every cron expression: whatever *)
(* statements and commits interleave, what is committed implements         *)
(* ScheduleContract as the serialised transactions do.                     *)
(***************************************************************************)
EXTENDS PgSchedules, ScheduleProofs

-----------------------------------------------------------------------------
(* Locks *)

\* A row has one holder, so batches share none.
LEMMA OneHolder ==
    ASSUME PgTypeOK, NEW w \in Workers, NEW s \in DOMAIN batches[w].rows
    PROVE  /\ s \in Schedules
           /\ locks[s] = w
           /\ ~Free(s)
           /\ \A v \in Workers : s \in DOMAIN batches[v].rows => v = w
           /\ \A c \in Clients : locks[s] # c
  <1>1. s \in Schedules /\ locks[s] = w
    BY DEF PgTypeOK, IsBatch, IsFetched
  <1>2. \A v \in Workers : s \in DOMAIN batches[v].rows => locks[s] = v
    BY DEF PgTypeOK
  <1> QED
    BY <1>1, <1>2, PgSchedulesAssumption DEF Free

\* What a batch holds survives any step that leaves its rows alone.
LEMMA FetchedKept ==
    ASSUME FetchedIsCurrent, now' = now \/ now' = now + 1, now \in Nat,
           \A w \in Workers : \A s \in DOMAIN batches'[w].rows :
               /\ s \in DOMAIN batches[w].rows
               /\ batches'[w].rows[s] = batches[w].rows[s]
               /\ schedules'[s] = schedules[s]
               /\ schedules[s].next_run_at \in Nat
    PROVE  FetchedIsCurrent'
  BY DEF FetchedIsCurrent, Present

\* A step on the table that spares locked rows and the transactions.
LEMMA TableStep ==
    ASSUME PgIInv, IInv', UNCHANGED <<locks, batches>>,
           now' = now \/ now' = now + 1,
           \A w \in Workers : materializers'[w] = materializers[w],
           \A w \in Workers : \A s \in DOMAIN batches[w].rows : schedules'[s] = schedules[s]
    PROVE  PgIInv'
  <1>1. PgTypeOK'
    BY DEF PgIInv, PgTypeOK, IInv
  <1>2. FetchedIsCurrent'
    <2>1. \A s \in Schedules : schedules[s].next_run_at \in Nat
      BY DEF PgIInv, IInv, TypeOK, Row
    <2>2. now \in Nat
      BY DEF PgIInv, IInv, TypeOK
    <2> QED
      BY <2>1, <2>2, OneHolder, FetchedKept DEF PgIInv
  <1>3. BatchesInPhase'
    BY DEF PgIInv, BatchesInPhase
  <1> QED
    BY <1>1, <1>2, <1>3 DEF PgIInv

LEMMA PgInitInvariant == PgInit => PgIInv
  <1> SUFFICES ASSUME PgInit PROVE PgIInv
    OBVIOUS
  <1>1. IInv
    BY InitInvariant DEF PgInit
  <1>2. \A w \in Workers : batches[w] = NoBatch
    BY DEF PgInit
  <1>3. IsBatch(NoBatch) /\ DOMAIN NoBatch.rows = {} /\ NoBatch.phase = "idle"
    BY DEF NoBatch, IsBatch, IsFetched, Phases
  <1>4. PgTypeOK
    BY <1>1, <1>2, <1>3, PgSchedulesAssumption DEF PgInit, PgTypeOK, IInv
  <1>5. FetchedIsCurrent /\ BatchesInPhase
    BY <1>2, <1>3 DEF FetchedIsCurrent, BatchesInPhase
  <1> QED
    BY <1>1, <1>4, <1>5 DEF PgIInv

-----------------------------------------------------------------------------
(* Requests *)

LEMMA PgCreateScheduleKeeps ==
    ASSUME PgIInv, NEW c \in Clients, PgCreateSchedule(c)
    PROVE  PgIInv'
  <1> USE DEF PgCreateSchedule
  <1>1. IInv'
    BY BeginCreateScheduleKeeps, CreateScheduleKeeps DEF PgIInv
  <1>2. now' = now /\ materializers' = materializers
    BY DEF BeginCreateSchedule, CreateSchedule
  <1>3. ASSUME NEW w \in Workers, NEW s \in DOMAIN batches[w].rows
        PROVE  schedules'[s] = schedules[s]
    <2>1. s \in Schedules /\ Present(s)
      BY <1>3, OneHolder DEF PgIInv, FetchedIsCurrent
    <2>2. CASE \E u \in Schedules, cron \in Crons : BeginCreateSchedule(c, u, cron)
      BY <2>2 DEF BeginCreateSchedule
    <2>3. CASE CreateSchedule(c)
      <3>1. clients[c].id # s
        BY <2>1, <2>3 DEF CreateSchedule, PgIInv, IInv, CreationsPending, Present
      <3> QED
        BY <2>1, <2>3, <3>1 DEF CreateSchedule, PgIInv, IInv, TypeOK
    <2> QED
      BY <2>2, <2>3
  <1> QED
    BY <1>1, <1>2, <1>3, TableStep

LEMMA PgBeginSetEnabledKeeps ==
    ASSUME PgIInv, NEW c \in Clients, NEW s \in Schedules, NEW enabled \in BOOLEAN,
           PgBeginSetEnabled(c, s, enabled)
    PROVE  PgIInv'
  <1>1. IInv'
    BY BeginSetEnabledKeeps DEF PgIInv, PgBeginSetEnabled
  <1> QED
    BY <1>1, TableStep DEF PgBeginSetEnabled, BeginSetEnabled

LEMMA LockForPatchKeeps ==
    ASSUME PgIInv, NEW c \in Clients, LockForPatch(c)
    PROVE  PgIInv'
  <1> USE DEF LockForPatch
  <1>1. IInv'
    BY NextKeeps DEF PgIInv
  <1>2. PgTypeOK'
    <2>1. locks' \in [Schedules -> Workers \cup Clients \cup {Nobody}]
      BY DEF PgIInv, PgTypeOK
    <2>2. \A w \in Workers, s \in Schedules : locks'[s] = w <=> locks[s] = w
      BY PgSchedulesAssumption DEF PgIInv, PgTypeOK, Free
    <2> QED
      BY <1>1, <2>1, <2>2 DEF PgIInv, PgTypeOK, IInv
  <1>3. FetchedIsCurrent' /\ BatchesInPhase'
    BY DEF PgIInv, FetchedIsCurrent, BatchesInPhase, Present, vars
  <1> QED
    BY <1>1, <1>2, <1>3 DEF PgIInv

LEMMA CommitPatchKeeps ==
    ASSUME PgIInv, NEW c \in Clients, CommitPatch(c)
    PROVE  PgIInv'
  <1> USE DEF CommitPatch
  <1>1. IInv'
    BY SetScheduleEnabledKeeps DEF PgIInv
  <1>2. UNCHANGED <<batches, materializers, now>>
    BY DEF SetScheduleEnabled
  <1>3. \A w \in Workers, s \in Schedules : locks'[s] = w <=> locks[s] = w
    BY PgSchedulesAssumption DEF Release, PgIInv, PgTypeOK
  <1>4. PgTypeOK'
    <2>1. locks' \in [Schedules -> Workers \cup Clients \cup {Nobody}]
      BY DEF PgIInv, PgTypeOK, Release
    <2>2. \A w \in Workers : \A s \in DOMAIN batches[w].rows :
             s \in Schedules /\ locks[s] = w
      BY OneHolder DEF PgIInv
    <2> QED
      BY <1>1, <1>2, <1>3, <2>1, <2>2 DEF PgIInv, PgTypeOK, IInv
  <1>5. FetchedIsCurrent'
    <2>1. ASSUME NEW w \in Workers, NEW s \in DOMAIN batches[w].rows
          PROVE  schedules'[s] = schedules[s] /\ schedules[s].next_run_at \in Nat
      <3>1. s \in Schedules /\ clients[c].id # s
        BY <2>1, OneHolder DEF PgIInv
      <3> QED
        BY <3>1 DEF SetScheduleEnabled, PgIInv, IInv, TypeOK, Row
    <2>2. now \in Nat
      BY DEF PgIInv, IInv, TypeOK
    <2> QED
      BY <1>2, <2>1, <2>2, FetchedKept DEF PgIInv
  <1>6. BatchesInPhase'
    BY <1>2 DEF PgIInv, BatchesInPhase
  <1> QED
    BY <1>1, <1>4, <1>5, <1>6 DEF PgIInv

LEMMA PgDeleteScheduleKeeps ==
    ASSUME PgIInv, NEW s \in Schedules, PgDeleteSchedule(s)
    PROVE  PgIInv'
  <1> USE DEF PgDeleteSchedule
  <1>1. IInv'
    BY DeleteScheduleKeeps DEF PgIInv
  <1>2. ASSUME NEW w \in Workers, NEW u \in DOMAIN batches[w].rows
        PROVE  schedules'[u] = schedules[u]
    <2>1. u \in Schedules /\ u # s
      BY <1>2, OneHolder DEF PgIInv
    <2> QED
      BY <2>1 DEF DeleteSchedule, PgIInv, IInv, TypeOK
  <1> QED
    BY <1>1, <1>2, TableStep DEF DeleteSchedule

-----------------------------------------------------------------------------
(* The materializer *)

LEMMA PgBeginMaterializeKeeps ==
    ASSUME PgIInv, NEW w \in Workers, PgBeginMaterialize(w)
    PROVE  PgIInv'
  <1> USE DEF PgBeginMaterialize
  <1>1. IInv'
    BY ReadingTaken, ReadingsChange DEF PgIInv
  <1>2. /\ DOMAIN batches' = Workers
        /\ \A v \in Workers : v # w => batches'[v] = batches[v]
        /\ batches'[w] = [batches[w] EXCEPT !.phase = "begun"]
        /\ batches'[w].phase = "begun"
        /\ batches'[w].rows = batches[w].rows
        /\ IsBatch(batches'[w])
    BY DEF PgIInv, PgTypeOK, IsBatch, Phases
  <1>3. PgTypeOK'
    BY <1>1, <1>2 DEF PgIInv, PgTypeOK, IInv
  <1>4. FetchedIsCurrent'
    BY <1>2 DEF PgIInv, FetchedIsCurrent, Present
  <1>5. BatchesInPhase'
    <2>1. now \in Nat /\ now # NoTime /\ materializers \in [Workers -> Nat \cup {NoTime}]
      BY ScheduleAssumption DEF PgIInv, IInv, TypeOK
    <2>2. /\ materializers'[w] = now
          /\ \A v \in Workers : v # w => materializers'[v] = materializers[v]
      BY <2>1
    <2> QED
      BY <1>2, <2>1, <2>2 DEF PgIInv, BatchesInPhase
  <1> QED
    BY <1>1, <1>3, <1>4, <1>5 DEF PgIInv

LEMMA TakeSnapshotKeeps ==
    ASSUME PgIInv, NEW w \in Workers, TakeSnapshot(w)
    PROVE  PgIInv'
  <1> USE DEF TakeSnapshot
  <1> DEFINE snapshot == [s \in DueSchedules(materializers[w]) |-> schedules[s].next_run_at]
  <1>1. IInv'
    BY NextKeeps DEF PgIInv
  <1>2. IsFetched(snapshot)
    BY DEF IsFetched, DueSchedules, PgIInv, IInv, TypeOK, Row
  <1> HIDE DEF snapshot
  <1>3. /\ batches[w].phase = "begun"
        /\ batches' = [batches EXCEPT ![w].phase = "selected", ![w].snapshot = snapshot]
    BY DEF snapshot
  <1>4. /\ DOMAIN batches' = Workers
        /\ \A v \in Workers : v # w => batches'[v] = batches[v]
        /\ batches'[w].phase = "selected"
        /\ batches'[w].rows = batches[w].rows
        /\ IsBatch(batches'[w])
    BY <1>2, <1>3 DEF PgIInv, PgTypeOK, IsBatch, Phases
  <1>5. PgTypeOK'
    <2>1. locks' = locks
      OBVIOUS
    <2> HIDE DEF TakeSnapshot
    <2>2. TypeOK'
      BY <1>1 DEF IInv
    <2>3. locks' \in [Schedules -> Workers \cup Clients \cup {Nobody}]
      BY <2>1 DEF PgIInv, PgTypeOK
    <2>4. ASSUME NEW v \in Workers
          PROVE  /\ IsBatch(batches'[v])
                 /\ \A s \in DOMAIN batches'[v].rows : locks'[s] = v
                 /\ \A s \in Schedules : locks'[s] = v => batches'[v].phase = "selected"
      <3>1. /\ IsBatch(batches[v])
            /\ \A s \in DOMAIN batches[v].rows : locks[s] = v
            /\ \A s \in Schedules : locks[s] = v => batches[v].phase = "selected"
        BY DEF PgIInv, PgTypeOK
      <3>2. batches'[v].rows = batches[v].rows
        BY <1>4
      <3>3. IsBatch(batches'[v])
        BY <1>4, <3>1
      <3>4. batches[v].phase = "selected" => batches'[v].phase = "selected"
        BY <1>4
      <3> QED
        BY <2>1, <3>1, <3>2, <3>3, <3>4
    <2> QED
      BY <1>4, <2>2, <2>3, <2>4 DEF PgTypeOK
  <1>6. FetchedIsCurrent'
    BY <1>4 DEF PgIInv, FetchedIsCurrent, Present, vars
  <1>7. BatchesInPhase'
    BY <1>3, <1>4 DEF PgIInv, BatchesInPhase, vars
  <1> QED
    BY <1>1, <1>5, <1>6, <1>7 DEF PgIInv

LEMMA VisitKeeps ==
    ASSUME PgIInv, NEW w \in Workers, Visit(w)
    PROVE  PgIInv'
  <1> DEFINE b == batches[w]
  <1>1. /\ UNCHANGED vars
        /\ b.phase = "selected"
        /\ IsBatch(b)
        /\ DOMAIN batches = Workers
    BY DEF Visit, PgIInv, PgTypeOK
  <1>2. PICK s \in Earliest(b.snapshot) :
           LET rest == [u \in DOMAIN b.snapshot \ {s} |-> b.snapshot[u]]
               fetched == [u \in DOMAIN b.rows \cup {s} |->
                              IF u = s THEN Reread(w, s) ELSE b.rows[u]]
               full == Cardinality(DOMAIN fetched) = Limit
               lockable == Free(s) /\ Present(s)
           IN  /\ locks' = IF lockable THEN LockHeld(w, s) ELSE locks
               /\ batches' = IF lockable /\ StillDue(w, s)
                             THEN [batches EXCEPT
                                      ![w].snapshot = IF full THEN << >> ELSE rest,
                                      ![w].rows = fetched]
                             ELSE [batches EXCEPT ![w].snapshot = rest]
    BY DEF Visit
  <1> DEFINE rest == [u \in DOMAIN b.snapshot \ {s} |-> b.snapshot[u]]
             fetched == [u \in DOMAIN b.rows \cup {s} |->
                            IF u = s THEN Reread(w, s) ELSE b.rows[u]]
             full == Cardinality(DOMAIN fetched) = Limit
             left == IF full THEN << >> ELSE rest
             lockable == Free(s) /\ Present(s)
  <1>3. s \in Schedules
    BY <1>1 DEF Earliest, IsBatch, IsFetched
  <1>4. IInv'
    BY <1>1, NextKeeps DEF PgIInv
  <1>5. IsFetched(rest)
    BY <1>1 DEF IsBatch, IsFetched
  <1>6. /\ locks' \in [Schedules -> Workers \cup Clients \cup {Nobody}]
        /\ \A u \in Schedules : \/ locks'[u] = locks[u]
                                \/ u = s /\ locks[u] = Nobody /\ locks'[u] = w
    <2>1. locks' = IF lockable THEN LockHeld(w, s) ELSE locks
      BY <1>2
    <2> QED
      BY <1>3, <2>1 DEF LockHeld, PgIInv, PgTypeOK, Free
  <1>7. CASE lockable /\ StillDue(w, s)
    <2>1. /\ locks' = LockHeld(w, s)
          /\ batches' = [batches EXCEPT ![w].snapshot = left, ![w].rows = fetched]
      BY <1>2, <1>7
    <2>2. /\ DOMAIN fetched = DOMAIN b.rows \cup {s}
          /\ fetched[s] = schedules[s].next_run_at
          /\ \A u \in DOMAIN b.rows : u # s => fetched[u] = b.rows[u]
      BY DEF Reread
    <2>3. schedules[s].next_run_at \in Nat
      BY <1>3 DEF PgIInv, IInv, TypeOK, Row
    <2>4. IsFetched(fetched)
      BY <1>1, <1>3, <2>3 DEF IsBatch, IsFetched, Reread
    <2>5. IsFetched(left)
      BY <1>5 DEF IsFetched
    <2> HIDE DEF rest, fetched, full, left
    <2>6. /\ DOMAIN batches' = Workers
          /\ \A v \in Workers : v # w => batches'[v] = batches[v]
          /\ DOMAIN batches'[w] = {"phase", "snapshot", "rows", "inserted"}
          /\ batches'[w].phase = "selected"
          /\ batches'[w].snapshot = left
          /\ batches'[w].rows = fetched
          /\ batches'[w].inserted = b.inserted
      BY <1>1, <2>1 DEF IsBatch
    <2>7. IsBatch(batches'[w])
      BY <1>1, <2>2, <2>4, <2>5, <2>6 DEF IsBatch
    <2>8. locks'[s] = w
      BY <1>3, <2>1 DEF LockHeld, PgIInv, PgTypeOK
    <2>9. ASSUME NEW v \in Workers, NEW u \in DOMAIN batches'[v].rows
          PROVE  locks'[u] = v
      <3>1. CASE v = w /\ u = s
        BY <2>8, <3>1
      <3>2. CASE ~(v = w /\ u = s)
        <4>1. u \in DOMAIN batches[v].rows
          BY <2>2, <2>6, <2>9, <3>2
        <4>2. u \in Schedules /\ locks[u] = v /\ ~Free(u)
          BY <4>1, OneHolder DEF PgIInv
        <4> QED
          BY <1>6, <4>2 DEF Free
      <3> QED
        BY <3>1, <3>2
    <2>10. PgTypeOK'
      <3>1. \A v \in Workers, u \in Schedules : locks'[u] = v => batches'[v].phase = "selected"
        BY <1>6, <2>6 DEF PgIInv, PgTypeOK
      <3>2. \A v \in Workers : IsBatch(batches'[v])
        BY <2>6, <2>7 DEF PgIInv, PgTypeOK
      <3> QED
        BY <1>4, <1>6, <2>6, <2>9, <3>1, <3>2 DEF PgTypeOK, IInv
    <2>11. FetchedIsCurrent'
      <3>1. /\ Present(s) /\ schedules[s].enabled
            /\ schedules[s].next_run_at <= now
        <4>1. /\ materializers[w] # NoTime
              /\ materializers[w] \in Nat \cup {NoTime}
              /\ now \in Nat
          BY <1>1 DEF PgIInv, BatchesInPhase, IInv, TypeOK
        <4>2. materializers[w] \in Nat /\ materializers[w] <= now
          BY <4>1 DEF PgIInv, IInv, ReadingsPast
        <4> QED
          BY <1>7, <2>3, <4>1, <4>2 DEF StillDue, DueSchedules
      <3>2. ASSUME NEW v \in Workers, NEW u \in DOMAIN batches'[v].rows
            PROVE  /\ Present(u) /\ schedules[u].enabled
                   /\ batches'[v].rows[u] = schedules[u].next_run_at
                   /\ batches'[v].rows[u] <= now
        <4>1. CASE v = w /\ u = s
          BY <2>2, <2>6, <3>1, <4>1
        <4>2. CASE v = w /\ u # s
          BY <2>2, <2>6, <3>2, <4>2 DEF PgIInv, FetchedIsCurrent
        <4>3. CASE v # w
          BY <2>6, <3>2, <4>3 DEF PgIInv, FetchedIsCurrent
        <4> QED
          BY <4>1, <4>2, <4>3
      <3> QED
        BY <1>1, <3>2 DEF FetchedIsCurrent, Present, vars
    <2>12. BatchesInPhase'
      BY <1>1, <2>6 DEF PgIInv, BatchesInPhase, vars
    <2> QED
      BY <1>4, <2>10, <2>11, <2>12 DEF PgIInv
  <1>8. CASE ~(lockable /\ StillDue(w, s))
    <2>1. batches' = [batches EXCEPT ![w].snapshot = rest]
      BY <1>2, <1>8
    <2> HIDE DEF rest
    <2>2. /\ DOMAIN batches' = Workers
          /\ \A v \in Workers : v # w => batches'[v] = batches[v]
          /\ batches'[w].phase = "selected"
          /\ batches'[w].rows = b.rows
          /\ IsBatch(batches'[w])
      BY <1>1, <1>5, <2>1 DEF IsBatch
    <2>3. PgTypeOK'
      <3>1. ASSUME NEW v \in Workers, NEW u \in DOMAIN batches'[v].rows
            PROVE  locks'[u] = v
        <4>1. u \in DOMAIN batches[v].rows
          BY <2>2, <3>1
        <4>2. u \in Schedules /\ locks[u] = v /\ ~Free(u)
          BY <4>1, OneHolder DEF PgIInv
        <4> QED
          BY <1>6, <4>2 DEF Free
      <3>2. \A v \in Workers, u \in Schedules : locks'[u] = v => batches'[v].phase = "selected"
        BY <1>6, <2>2 DEF PgIInv, PgTypeOK
      <3>3. \A v \in Workers : IsBatch(batches'[v])
        BY <2>2 DEF PgIInv, PgTypeOK
      <3> QED
        BY <1>4, <1>6, <2>2, <3>1, <3>2, <3>3 DEF PgTypeOK, IInv
    <2>4. FetchedIsCurrent'
      BY <1>1, <2>2 DEF PgIInv, FetchedIsCurrent, Present, vars
    <2>5. BatchesInPhase'
      BY <1>1, <2>2 DEF PgIInv, BatchesInPhase, vars
    <2> QED
      BY <1>4, <2>3, <2>4, <2>5 DEF PgIInv
  <1> QED
    BY <1>7, <1>8

LEMMA InsertJobKeeps ==
    ASSUME PgIInv, NEW w \in Workers, InsertJob(w)
    PROVE  PgIInv'
  <1>1. PICK s \in ToInsert(w) : batches' = [batches EXCEPT ![w].inserted = @ \cup {s}]
    BY DEF InsertJob
  <1>2. UNCHANGED vars /\ UNCHANGED locks
    BY DEF InsertJob
  <1>3. IInv'
    BY <1>2, NextKeeps DEF PgIInv
  <1>4. /\ DOMAIN batches' = Workers
        /\ \A v \in Workers : v # w => batches'[v] = batches[v]
        /\ batches'[w].phase = batches[w].phase
        /\ batches'[w].rows = batches[w].rows
        /\ IsBatch(batches'[w])
    BY <1>1 DEF ToInsert, PgIInv, PgTypeOK, IsBatch
  <1>5. PgTypeOK'
    BY <1>2, <1>3, <1>4 DEF PgIInv, PgTypeOK, IInv
  <1>6. FetchedIsCurrent' /\ BatchesInPhase'
    BY <1>2, <1>4 DEF PgIInv, FetchedIsCurrent, BatchesInPhase, Present, vars
  <1> QED
    BY <1>3, <1>5, <1>6 DEF PgIInv

\* The end of a transaction gives its locks back, and no others.
LEMMA EndBatchKeeps ==
    ASSUME PgIInv, NEW w \in Workers, EndBatch(w), IInv', now' = now,
           \A s \in Schedules : locks[s] # w => schedules'[s] = schedules[s]
    PROVE  PgIInv'
  <1> USE DEF EndBatch
  <1>1. IsBatch(NoBatch) /\ DOMAIN NoBatch.rows = {} /\ NoBatch.phase = "idle"
    BY DEF NoBatch, IsBatch, IsFetched, Phases
  <1>2. /\ DOMAIN batches' = Workers
        /\ batches'[w] = NoBatch
        /\ \A v \in Workers : v # w => batches'[v] = batches[v]
        /\ \A v \in Workers : v # w => materializers'[v] = materializers[v]
    BY DEF PgIInv, PgTypeOK, IInv, TypeOK
  <1>3. \A v \in Workers : \A s \in Schedules : locks'[s] = v <=> v # w /\ locks[s] = v
    BY PgSchedulesAssumption DEF Release, PgIInv, PgTypeOK
  <1>4. PgTypeOK'
    <2>1. locks' \in [Schedules -> Workers \cup Clients \cup {Nobody}]
      BY DEF PgIInv, PgTypeOK, Release
    <2>2. ASSUME NEW v \in Workers
          PROVE  /\ IsBatch(batches'[v])
                 /\ \A s \in DOMAIN batches'[v].rows : locks'[s] = v
                 /\ \A s \in Schedules : locks'[s] = v => batches'[v].phase = "selected"
      <3>1. CASE v = w
        BY <1>1, <1>2, <1>3, <3>1
      <3>2. CASE v # w
        <4>1. /\ IsBatch(batches[v])
              /\ \A s \in DOMAIN batches[v].rows : s \in Schedules /\ locks[s] = v
              /\ \A s \in Schedules : locks[s] = v => batches[v].phase = "selected"
          BY OneHolder DEF PgIInv, PgTypeOK
        <4> QED
          BY <1>2, <1>3, <3>2, <4>1
      <3> QED
        BY <3>1, <3>2
    <2> QED
      BY <1>1, <1>2, <2>1, <2>2 DEF PgTypeOK, IInv
  <1>5. FetchedIsCurrent'
    <2>1. ASSUME NEW v \in Workers, NEW s \in DOMAIN batches'[v].rows
          PROVE  /\ s \in DOMAIN batches[v].rows
                 /\ batches'[v].rows[s] = batches[v].rows[s]
                 /\ schedules'[s] = schedules[s]
                 /\ schedules[s].next_run_at \in Nat
      <3>1. v # w /\ s \in DOMAIN batches[v].rows
        BY <1>1, <1>2, <2>1
      <3>2. s \in Schedules /\ locks[s] = v
        BY <3>1, OneHolder DEF PgIInv
      <3> QED
        BY <1>2, <3>1, <3>2 DEF PgIInv, IInv, TypeOK, Row
    <2>2. now \in Nat
      BY DEF PgIInv, IInv, TypeOK
    <2> QED
      BY <2>1, <2>2, FetchedKept DEF PgIInv
  <1>6. BatchesInPhase'
    BY <1>1, <1>2 DEF PgIInv, BatchesInPhase
  <1> QED
    BY <1>4, <1>5, <1>6 DEF PgIInv

\* A commit publishes the due occurrences of exactly the rows the batch has fetched.
LEMMA CommitGenerates ==
    ASSUME PgIInv, NEW w \in Workers, CommitBatch(w)
    PROVE  /\ DOMAIN batches[w].rows \in SUBSET Schedules
           /\ GeneratesBatch(DOMAIN batches[w].rows)
  <1> DEFINE rows == batches[w].rows
             batch == DOMAIN rows
  <1>1. batch \in SUBSET Schedules
    BY DEF PgIInv, PgTypeOK, IsBatch, IsFetched
  <1>2. \A s \in batch : /\ Present(s) /\ schedules[s].enabled
                         /\ rows[s] = schedules[s].next_run_at
                         /\ rows[s] <= now
    BY DEF PgIInv, FetchedIsCurrent
  <1>3. \A s \in batch : HasNextRun(schedules[s].cron, rows[s])
    BY DEF CommitBatch, ToInsert, MayGoOn
  <1>4. {<<s, rows[s]>> : s \in batch} = Keys(batch)
    BY <1>2 DEF Keys
  <1>5. \A s \in batch : AfterBatch(s, rows[s]) = Advanced(s, now)
    BY <1>2 DEF AfterBatch, Advanced
  <1>6. /\ generated' = [key \in DOMAIN generated \cup Keys(batch) |->
                            IF key \in Keys(batch) THEN RowsAfterInsert(key[1], key[2])
                            ELSE generated[key]]
        /\ UNCHANGED <<clients, passed_over, now>>
    BY <1>4 DEF CommitBatch
  <1>7. schedules' = [s \in Schedules |->
                         IF s \in batch THEN Advanced(s, now) ELSE schedules[s]]
    <2>1. schedules' = [s \in Schedules |->
                           IF s \in batch THEN AfterBatch(s, rows[s]) ELSE schedules[s]]
      BY DEF CommitBatch
    <2> QED
      BY <1>5, <2>1
  <1> QED
    BY <1>1, <1>2, <1>3, <1>6, <1>7 DEF GeneratesBatch, Due

LEMMA CommitBatchKeeps ==
    ASSUME PgIInv, NEW w \in Workers, CommitBatch(w)
    PROVE  PgIInv'
  <1>1. EndBatch(w) /\ now' = now
    BY DEF CommitBatch
  <1>2. IInv'
    BY <1>1, CommitGenerates, ReadingTaken, GeneratesBatchKeeps DEF EndBatch, PgIInv
  <1>3. \A s \in Schedules : locks[s] # w => schedules'[s] = schedules[s]
    <2>1. \A s \in Schedules : s \notin DOMAIN batches[w].rows => schedules'[s] = schedules[s]
      BY DEF CommitBatch
    <2>2. \A s \in DOMAIN batches[w].rows : locks[s] = w
      BY DEF PgIInv, PgTypeOK
    <2> QED
      BY <2>1, <2>2
  <1> QED
    BY <1>1, <1>2, <1>3, EndBatchKeeps

LEMMA RollBackBatchKeeps ==
    ASSUME PgIInv, NEW w \in Workers, RollBackBatch(w)
    PROVE  PgIInv'
  <1>1. EndBatch(w) /\ UNCHANGED <<schedules, generated, clients, passed_over, now>>
    BY DEF RollBackBatch
  <1>2. IInv'
    BY <1>1, ReadingTaken, ReadingsChange DEF EndBatch, PgIInv
  <1> QED
    BY <1>1, <1>2, EndBatchKeeps

LEMMA PgTickKeeps ==
    ASSUME PgIInv, Tick, UNCHANGED <<locks, batches>>
    PROVE  PgIInv'
  <1>1. IInv'
    BY TickKeeps DEF PgIInv
  <1> QED
    BY <1>1, TableStep DEF Tick

LEMMA PgNextKeeps ==
    ASSUME PgIInv, [PgNext]_pg_vars
    PROVE  PgIInv'
  <1>1. ASSUME NEW w \in Workers, MaterializerStep(w) \/ RollBackBatch(w) PROVE PgIInv'
    BY <1>1, PgBeginMaterializeKeeps, TakeSnapshotKeeps, VisitKeeps, InsertJobKeeps,
       CommitBatchKeeps, RollBackBatchKeeps DEF MaterializerStep
  <1>2. CASE UNCHANGED pg_vars
    <2>1. UNCHANGED vars /\ UNCHANGED <<locks, batches>>
      BY <1>2 DEF pg_vars
    <2>2. IInv'
      BY <2>1, NextKeeps DEF PgIInv
    <2> QED
      BY <2>1, <2>2, TableStep DEF vars
  <1> QED
    BY <1>1, <1>2, PgCreateScheduleKeeps, PgBeginSetEnabledKeeps, LockForPatchKeeps,
       CommitPatchKeeps, PgDeleteScheduleKeeps, PgTickKeeps DEF PgNext

-----------------------------------------------------------------------------

\* PgIInv is inductive: no interleaving of statements, commits and rollbacks breaks it.
THEOREM PgInvariance ==
    PgSpec => []PgIInv
  BY PgInitInvariant, PgNextKeeps, PTL DEF PgSpec

\* The tables stay well typed, a batch holds the locks of the rows it fetched, and a
\* materializer outside a transaction holds none.
THEOREM PgTypeCorrectness ==
    PgSpec => []PgTypeOK
  <1>1. PgIInv => PgTypeOK
    BY DEF PgIInv
  <1> QED
    BY <1>1, PgInvariance, PTL

\* With PostgreSQL, too, no occurrence has two jobs.
THEOREM PgOneJobPerOccurrence ==
    PgSpec => []OneJobPerOccurrence
  <1>1. PgIInv => OneJobPerOccurrence
    BY DEF PgIInv, IInv
  <1> QED
    BY <1>1, PgInvariance, PTL

\* With PostgreSQL, too, only a PATCH that enables a schedule passes over an occurrence.
THEOREM PgNothingSkipped ==
    PgSpec => []NothingSkipped
  <1>1. PgIInv => NothingSkipped
    BY DEF PgIInv, IInv
  <1> QED
    BY <1>1, PgInvariance, PTL

\* However many materializers run, none waits for an insert of another.
THEOREM PgBatchesNeverWait ==
    PgSpec => []BatchesNeverWait
  <1>1. PgIInv => BatchesNeverWait
    <2> SUFFICES ASSUME PgIInv, NEW w \in Workers, NEW s \in ToInsert(w)
                 PROVE  ~WaitsForInsert(w, s)
      BY DEF BatchesNeverWait
    <2>1. s \in DOMAIN batches[w].rows
      BY DEF ToInsert
    <2>2. ASSUME NEW v \in Workers \ {w} PROVE <<s, batches[w].rows[s]>> \notin Pending(v)
      <3>1. s \notin DOMAIN batches[v].rows
        BY <2>1, <2>2, OneHolder DEF PgIInv
      <3>2. s \notin batches[v].inserted
        BY <3>1 DEF PgIInv, PgTypeOK, IsBatch
      <3> QED
        BY <3>2 DEF Pending
    <2> QED
      BY <2>2 DEF WaitsForInsert
  <1> QED
    BY <1>1, PgInvariance, PTL

\* What PostgreSQL has committed keeps the promise of ScheduleContract.
THEOREM PgRefinement ==
    PgSpec => ImplementsContract
  <1>1. PgInit => Contract!Init
    BY InitContract DEF PgInit
  <1>2. PgIInv /\ [PgNext]_pg_vars => [Contract!Next]_(Contract!vars)
    <2> SUFFICES ASSUME PgIInv, [PgNext]_pg_vars PROVE [Contract!Next]_(Contract!vars)
      OBVIOUS
    <2>1. IInv
      BY DEF PgIInv
    <2>2. ASSUME UNCHANGED vars PROVE UNCHANGED Contract!vars
      BY <2>2, ContractIdle DEF vars
    <2>3. ASSUME NEW c \in Clients, Request(c) PROVE Contract!Next
      BY <2>1, <2>3, RequestStep
    <2>4. ASSUME NEW s \in Schedules, PgDeleteSchedule(s) PROVE Contract!Next
      BY <2>1, <2>4, DeleteStep DEF PgDeleteSchedule
    <2>5. ASSUME NEW w \in Workers, CommitBatch(w) PROVE Contract!Next
      BY <2>1, <2>5, CommitGenerates, BatchStep
    <2>6. ASSUME NEW w \in Workers,
                 PgBeginMaterialize(w) \/ TakeSnapshot(w) \/ Visit(w) \/ InsertJob(w)
                    \/ RollBackBatch(w)
          PROVE  UNCHANGED Contract!vars
      BY <2>2, <2>6, ContractIdle
         DEF PgBeginMaterialize, TakeSnapshot, Visit, InsertJob, RollBackBatch
    <2>7. ASSUME Tick PROVE Contract!Next
      BY <2>7, TickStep
    <2>8. ASSUME NEW c \in Clients,
                 \/ PgCreateSchedule(c)
                 \/ \E s \in Schedules, enabled \in BOOLEAN : PgBeginSetEnabled(c, s, enabled)
                 \/ CommitPatch(c)
          PROVE  Request(c)
      BY <2>8 DEF PgCreateSchedule, PgBeginSetEnabled, CommitPatch, Request
    <2>9. ASSUME NEW c \in Clients, LockForPatch(c) PROVE UNCHANGED Contract!vars
      BY <2>2, <2>9 DEF LockForPatch
    <2>10. CASE UNCHANGED pg_vars
      BY <2>2, <2>10 DEF pg_vars
    <2> QED
      BY <2>3, <2>4, <2>5, <2>6, <2>7, <2>8, <2>9, <2>10 DEF PgNext, MaterializerStep
  <1> QED
    BY <1>1, <1>2, PgInvariance, PTL DEF PgSpec, ImplementsContract, Contract!Spec

\* Nor does a batch of PostgreSQL, which found the schedule due in a snapshot and inserts
\* its job in a later statement: what counts is the row when the batch commits.
THEOREM PgPauseHolds ==
    PgSpec => Contract!PauseHolds
  BY PgRefinement, ContractHoldsPause, PTL DEF ImplementsContract

=============================================================================
