--------------------------- MODULE HeartbeatProofs ---------------------------
(***************************************************************************)
(* Theorems about Heartbeats, for any number of threads, any intervals,    *)
(* any longest timeout and any number of database errors.                  *)
(***************************************************************************)
EXTENDS Heartbeats, FiniteSetTheorems, TLAPS

USE DEF Phases, InSync, TakesTime

-----------------------------------------------------------------------------
(* Numbers *)

LEMMA Numbers ==
    /\ SyncInterval \in Nat /\ PollInterval \in Nat /\ Timeout \in Nat /\ MaxFailures \in Nat
    /\ Longest \in Nat /\ Timeout <= Longest /\ PollInterval <= Longest
  BY HeartbeatAssumption DEF Longest

\* One more database error is worth one more longest handler.
LEMMA Delays ==
    ASSUME NEW f \in Nat
    PROVE  /\ Longest * f \in Nat
           /\ Longest * (1 + f) = Longest * f + Longest
           /\ Longest * (f + 1) = Longest * f + Longest
           /\ Longest * (1 + (f + 1)) = Longest * f + Longest + Longest
  <1>1. Longest \in Nat
    BY Numbers
  <1> QED
    BY <1>1

LEMMA AgeCapType ==
    AgeCap \in Nat /\ SyncInterval < AgeCap
  <1>1. /\ Longest * MaxFailures \in Nat
        /\ Longest * (1 + MaxFailures) = Longest * MaxFailures + Longest
    BY Numbers, Delays
  <1> QED
    BY <1>1, Numbers DEF AgeCap

-----------------------------------------------------------------------------
(* Counting threads *)

LEMMA Counts ==
    /\ IsFiniteSet(Busy) /\ IsFiniteSet(Alive)
    /\ Cardinality(Busy) \in Nat /\ Cardinality(Alive) \in Nat
    /\ Cardinality(Threads) \in Nat
    /\ Cardinality(Alive) <= Cardinality(Threads)
  <1>1. Busy \subseteq Threads /\ Alive \subseteq Threads
    BY DEF Busy, Alive
  <1> QED
    BY <1>1, HeartbeatAssumption, FS_Subset, FS_CardinalityType

\* A thread that is alive and not busy makes the busy ones fewer than the alive ones.
LEMMA OneNotBusy ==
    ASSUME NEW t \in Threads, threads[t].phase \notin {"none", "busy"}
    PROVE  Cardinality(Busy) + 1 <= Cardinality(Alive)
  <1>1. /\ t \notin Busy
        /\ Busy \cup {t} \subseteq Alive
    BY DEF Busy, Alive
  <1>2. Cardinality(Busy \cup {t}) = Cardinality(Busy) + 1
    BY <1>1, Counts, FS_AddElement
  <1>3. Cardinality(Busy \cup {t}) <= Cardinality(Alive)
    BY <1>1, Counts, FS_Subset
  <1> QED
    BY <1>2, <1>3

-----------------------------------------------------------------------------
(* What a step does to the threads *)

\* t goes to another place, and nobody else moves.
LEMMA GotoEffect ==
    ASSUME TypeOK, NEW t \in Threads, NEW phase \in Phases, Goto(t, phase)
    PROVE  /\ threads' \in [Threads -> [phase : Phases, time : 0..Longest]]
           /\ threads'[t].phase = phase
           /\ threads'[t].time = 0
           /\ \A u \in Threads : u # t => threads'[u] = threads[u]
  <1>1. At(phase) \in [phase : Phases, time : 0..Longest]
    BY Numbers DEF At
  <1> QED
    BY <1>1 DEF Goto, TypeOK, At

\* The number of busy threads follows the one that moves.
LEMMA BusyFollows ==
    ASSUME NEW t \in Threads, \A u \in Threads : u # t => threads'[u] = threads[u]
    PROVE  Cardinality(Busy') =
              IF threads[t].phase = "busy"
              THEN IF threads'[t].phase = "busy" THEN Cardinality(Busy)
                                                 ELSE Cardinality(Busy) - 1
              ELSE IF threads'[t].phase = "busy" THEN Cardinality(Busy) + 1
                                                 ELSE Cardinality(Busy)
  <1>1. IsFiniteSet(Busy) /\ Cardinality(Busy) \in Nat
    BY Counts
  <1>2. CASE threads[t].phase = "busy" /\ threads'[t].phase # "busy"
    <2>1. Busy' = Busy \ {t} /\ t \in Busy
      BY <1>2 DEF Busy
    <2> QED
      BY <1>1, <1>2, <2>1, FS_RemoveElement
  <1>3. CASE threads[t].phase # "busy" /\ threads'[t].phase = "busy"
    <2>1. Busy' = Busy \cup {t} /\ t \notin Busy
      BY <1>3 DEF Busy
    <2> QED
      BY <1>1, <1>3, <2>1, FS_AddElement
  <1>4. CASE threads[t].phase = "busy" <=> threads'[t].phase = "busy"
    <2>1. Busy' = Busy
      BY <1>4 DEF Busy
    <2> QED
      BY <1>4, <2>1
  <1> QED
    BY <1>2, <1>3, <1>4

\* No thread joins when one that is alive moves.
LEMMA NobodyJoins ==
    ASSUME NEW t \in Threads, threads[t].phase # "none",
           \A u \in Threads : u # t => threads'[u] = threads[u]
    PROVE  Alive' \subseteq Alive /\ Cardinality(Alive') <= Cardinality(Alive)
  <1>1. Alive' \subseteq Alive
    BY DEF Alive
  <1> QED
    BY <1>1, Counts, FS_Subset

-----------------------------------------------------------------------------
(* Steps of one thread that leave the row alone *)

\* What each part of the invariant asks of such a step.
LEMMA MoveKeeps ==
    ASSUME IInv, NEW t \in Threads, threads[t].phase # "none",
           NEW phase \in Phases, Goto(t, phase),
           UNCHANGED <<process, sync_age, row, row_age, deserted>>,
           \/ failures' = failures
           \/ failures < MaxFailures /\ failures' = failures + 1,
           busy_workers' = IF threads[t].phase = "busy"
                           THEN IF phase = "busy" THEN busy_workers ELSE busy_workers - 1
                           ELSE IF phase = "busy" THEN busy_workers + 1 ELSE busy_workers,
           \/ counted' = counted
           \/ threads[t].phase \in InSync /\ counted' \in 0..Cardinality(Threads),
           phase \in InSync => threads[t].phase \in InSync \/ SyncLockFree,
           threads[t].phase \in InSync /\ phase \notin InSync => failures' = failures + 1,
           phase = "report" => Cardinality(Alive) <= counted',
           phase \in {"ready"} \cup TakesTime /\ up /\ ~deserted
               /\ (\A u \in Threads : u # t => threads[u].phase \notin InSync)
               => row_age <= SyncInterval + Longest * failures'
    PROVE  IInv'
  <1>1. /\ threads' \in [Threads -> [phase : Phases, time : 0..Longest]]
        /\ threads'[t].phase = phase
        /\ threads'[t].time = 0
        /\ \A u \in Threads : u # t => threads'[u] = threads[u]
    BY GotoEffect DEF IInv
  <1>2. failures \in Nat /\ failures' \in 0..MaxFailures
    BY Numbers DEF IInv, TypeOK
  <1>3. row_age \in Nat /\ sync_age \in Nat
    BY DEF IInv, TypeOK
  <1>4. TypeOK'
    <2>1. busy_workers' = Cardinality(Busy')
      BY <1>1, BusyFollows DEF IInv, TypeOK
    <2>2. row_age' \in 0..AgeCap' /\ counted' \in 0..Cardinality(Threads)
      BY DEF IInv, TypeOK, AgeCap
    <2> QED
      BY <1>1, <1>2, <2>1, <2>2 DEF IInv, TypeOK, process
  <1>5. BusyBelowActive'
    BY DEF IInv, BusyBelowActive, process
  <1>6. PICK b \in Nat : b = Longest * failures
    BY <1>2, Delays
  <1>7. /\ Longest * (1 + failures) = b + Longest
        /\ Longest * failures' = IF failures' = failures THEN b ELSE b + Longest
        /\ Longest * (1 + failures') = IF failures' = failures THEN b + Longest
                                                               ELSE b + Longest + Longest
    BY <1>2, <1>6, Delays
  <1>8. up /\ ~deserted => row_age <= SyncInterval + b + Longest
    BY <1>3, <1>6, <1>7, Numbers DEF IInv, HeartbeatDelayBounded, DelayBound
  <1>9. HeartbeatDelayBounded'
    BY <1>3, <1>7, <1>8, Numbers DEF HeartbeatDelayBounded, DelayBound, process
  <1>10. OneInSync'
    BY <1>1 DEF IInv, OneInSync, SyncLockFree
  <1>11. CountHolds'
    <2> SUFFICES ASSUME ~embedded, NEW u \in Threads, threads'[u].phase = "report"
                 PROVE  Cardinality(Alive') <= counted'
      BY DEF CountHolds, process
    <2>1. Cardinality(Alive') <= Cardinality(Alive) /\ Cardinality(Alive') \in Nat
      <3>1. Cardinality(Alive') <= Cardinality(Alive) /\ Alive' \subseteq Alive
        BY <1>1, NobodyJoins
      <3> QED
        BY <3>1, Counts, FS_Subset, FS_CardinalityType
    <2>2. Cardinality(Alive) <= counted'
      <3>1. CASE u = t
        BY <1>1, <3>1
      <3>2. CASE u # t
        <4>1. threads[u].phase = "report"
          BY <1>1, <3>2
        <4>2. threads[t].phase \notin InSync
          BY <3>2, <4>1 DEF IInv, OneInSync
        <4> QED
          BY <4>1, <4>2 DEF IInv, CountHolds
      <3> QED
        BY <3>1, <3>2
    <2>3. Cardinality(Alive) \in Nat /\ counted' \in Nat
      BY Counts, <1>4 DEF TypeOK
    <2> QED
      BY <2>1, <2>2, <2>3
  <1>12. AgeBySync'
    BY DEF IInv, AgeBySync, SyncIsDue
  <1>13. AgeByThread'
    <2> SUFFICES ASSUME up, ~deserted, SyncLockFree', NEW u \in Threads,
                        threads'[u].phase \in {"ready"} \cup TakesTime
                 PROVE  row_age <= SyncInterval + Longest * failures' + threads'[u].time
      BY DEF AgeByThread, process
    <2>1. \A v \in Threads : v # t => threads[v].phase \notin InSync
      BY <1>1 DEF SyncLockFree
    <2>2. threads'[u].time \in Nat
      BY <1>1, Numbers
    <2>3. CASE u = t
      <3>1. row_age <= SyncInterval + Longest * failures'
        BY <1>1, <2>1, <2>3
      <3> QED
        BY <1>1, <1>3, <1>6, <1>7, <2>3, <3>1, Numbers
    <2>4. CASE u # t /\ threads[t].phase \notin InSync
      <3>1. SyncLockFree
        BY <2>1, <2>4 DEF SyncLockFree
      <3>2. row_age <= SyncInterval + b + threads'[u].time
        BY <1>1, <1>6, <2>4, <3>1 DEF IInv, AgeByThread
      <3> QED
        BY <1>3, <1>7, <2>2, <3>2, Numbers
    <2>5. CASE u # t /\ threads[t].phase \in InSync
      <3>1. failures' = failures + 1
        BY <1>1, <2>5 DEF SyncLockFree
      <3>2. Longest * failures' = b + Longest
        BY <1>2, <1>7, <3>1
      <3> QED
        BY <1>3, <1>8, <2>2, <3>2, Numbers
    <2> QED
      BY <2>3, <2>4, <2>5
  <1>14. OnlyTakesTime'
    BY <1>1 DEF IInv, OnlyTakesTime
  <1> QED
    BY <1>4, <1>5, <1>9, <1>10, <1>11, <1>12, <1>13, <1>14 DEF IInv

\* A thread that is out of the sync has its time, and so the row its age, in bounds.
LEMMA AgeOf ==
    ASSUME IInv, NEW t \in Threads, threads[t].phase \in {"ready"} \cup TakesTime,
           up, ~deserted, SyncLockFree
    PROVE  /\ row_age <= SyncInterval + Longest * failures + threads[t].time
           /\ threads[t].phase = "ready" => row_age <= SyncInterval + Longest * failures
  <1>1. row_age <= SyncInterval + Longest * failures + threads[t].time
    BY DEF IInv, AgeByThread
  <1>2. Longest * failures \in Nat
    BY Delays DEF IInv, TypeOK
  <1>3. threads[t].phase = "ready" => threads[t].time = 0
    BY DEF IInv, OnlyTakesTime
  <1> QED
    BY <1>1, <1>2, <1>3, Numbers

LEMMA PassHeadKeeps ==
    ASSUME IInv, NEW t \in Threads, PassHead(t)
    PROVE  IInv'
  <1>1. PICK phase \in Phases :
           phase = IF ~up THEN "none"
                   ELSE IF SyncIsDue /\ SyncLockFree THEN "sync" ELSE "ready"
    OBVIOUS
  <1>2. /\ threads[t].phase = "head" /\ Goto(t, phase)
        /\ UNCHANGED <<process, busy_workers, sync_age, report, failures>>
    BY <1>1 DEF PassHead
  <1>3. ASSUME phase = "ready", up, \A u \in Threads : u # t => threads[u].phase \notin InSync
        PROVE  row_age <= SyncInterval + Longest * failures
    <2>1. SyncLockFree
      BY <1>2, <1>3 DEF SyncLockFree
    <2>2. row_age <= sync_age /\ sync_age <= SyncInterval
      BY <1>1, <1>3, <2>1 DEF IInv, TypeOK, AgeBySync
    <2>3. /\ Longest * failures \in Nat /\ SyncInterval \in Nat
          /\ row_age \in Nat /\ sync_age \in Nat
      BY Delays, Numbers DEF IInv, TypeOK
    <2> QED
      BY <2>2, <2>3
  <1> QED
    BY <1>1, <1>2, <1>3, MoveKeeps DEF report

LEMMA CountThreadsKeeps ==
    ASSUME IInv, NEW t \in Threads, CountThreads(t)
    PROVE  IInv'
  <1>1. Cardinality(Alive) \in 0..Cardinality(Threads)
    BY Counts
  <1> QED
    BY <1>1, Counts, MoveKeeps DEF CountThreads

LEMMA SyncFailsKeeps ==
    ASSUME IInv, NEW t \in Threads, SyncFails(t)
    PROVE  IInv'
  <1>1. Longest * (1 + failures) = Longest * failures'
    BY Delays DEF SyncFails, IInv, TypeOK
  <1>2. up /\ ~deserted => row_age <= SyncInterval + Longest * failures'
    BY <1>1 DEF IInv, HeartbeatDelayBounded, DelayBound
  <1>3. 0 \in 0..Cardinality(Threads)
    BY Counts
  <1> QED
    BY <1>2, <1>3, MoveKeeps DEF SyncFails

\* From "ready" a thread goes on at time 0.
LEMMA FromReadyKeeps ==
    ASSUME IInv, NEW t \in Threads, ClaimJob(t) \/ WaitForPoll(t) \/ Leave(t)
    PROVE  IInv'
  <1>1. threads[t].phase = "ready" /\ UNCHANGED <<process, sync_age, report, failures>>
    BY DEF ClaimJob, WaitForPoll, Leave
  <1>2. ASSUME up, ~deserted, \A u \in Threads : u # t => threads[u].phase \notin InSync
        PROVE  row_age <= SyncInterval + Longest * failures
    <2>1. SyncLockFree
      BY <1>1, <1>2 DEF SyncLockFree
    <2> QED
      BY <1>1, <1>2, <2>1, AgeOf
  <1>3. CASE ClaimJob(t)
    BY <1>1, <1>2, <1>3, MoveKeeps DEF ClaimJob, report
  <1>4. CASE WaitForPoll(t)
    BY <1>1, <1>2, <1>4, MoveKeeps DEF WaitForPoll, report
  <1>5. CASE Leave(t)
    BY <1>1, <1>2, <1>5, MoveKeeps DEF Leave, report
  <1> QED
    BY <1>3, <1>4, <1>5

LEMMA BackToHeadKeeps ==
    ASSUME IInv, NEW t \in Threads, FinishJob(t) \/ Poll(t) \/ LeaveBusy(t)
    PROVE  IInv'
  <1>1. CASE FinishJob(t)
    BY <1>1, MoveKeeps DEF FinishJob, NoLongerBusy, report
  <1>2. CASE Poll(t)
    BY <1>2, MoveKeeps DEF Poll, report
  <1>3. CASE LeaveBusy(t)
    BY <1>3, MoveKeeps DEF LeaveBusy, NoLongerBusy, report
  <1> QED
    BY <1>1, <1>2, <1>3

-----------------------------------------------------------------------------
(* The report *)

LEMMA HeartbeatWorkerKeeps ==
    ASSUME IInv, NEW t \in Threads, HeartbeatWorker(t)
    PROVE  IInv'
  <1>1. /\ threads[t].phase = "report" /\ Goto(t, "ready")
        /\ row' = [active |-> counted, busy |-> busy_workers]
        /\ row_age' = 0 /\ sync_age' = 0 /\ counted' = 0 /\ deserted' = FALSE
        /\ UNCHANGED <<process, busy_workers, failures>>
    BY DEF HeartbeatWorker
  <1>2. /\ threads' \in [Threads -> [phase : Phases, time : 0..Longest]]
        /\ threads'[t].phase = "ready"
        /\ threads'[t].time = 0
        /\ \A u \in Threads : u # t => threads'[u] = threads[u]
    BY <1>1, GotoEffect DEF IInv
  <1>3. busy_workers = Cardinality(Busy) /\ busy_workers \in Nat /\ counted \in Nat
    BY Counts DEF IInv, TypeOK
  <1>4. TypeOK'
    <2>1. busy_workers' = Cardinality(Busy')
      BY <1>1, <1>2, <1>3, BusyFollows
    <2>2. row' \in [active : Nat, busy : Nat]
      BY <1>1, <1>3
    <2>3. /\ row_age' \in 0..AgeCap' /\ sync_age' \in 0..SyncInterval
          /\ counted' \in 0..Cardinality(Threads)
      BY <1>1, AgeCapType, Numbers, Counts DEF AgeCap
    <2> QED
      BY <1>1, <1>2, <2>1, <2>2, <2>3 DEF IInv, TypeOK, process
  <1>5. BusyBelowActive'
    <2> SUFFICES ASSUME ~embedded PROVE busy_workers < counted
      BY <1>1 DEF BusyBelowActive, process
    <2>1. Cardinality(Alive) <= counted
      BY <1>1 DEF IInv, CountHolds
    <2>2. Cardinality(Busy) + 1 <= Cardinality(Alive)
      BY <1>1, OneNotBusy
    <2> QED
      BY <1>3, <2>1, <2>2, Counts
  <1>6. \A f \in Nat, d \in Nat : 0 <= SyncInterval + Longest * f + d
    BY Delays, Numbers
  <1>7. HeartbeatDelayBounded'
    <2>1. Longest * (1 + failures') \in Nat
      BY <1>1, Delays DEF IInv, TypeOK
    <2> QED
      BY <1>1, <2>1, Numbers DEF HeartbeatDelayBounded, DelayBound
  <1>8. \A u \in Threads : threads'[u].phase \notin InSync
    BY <1>1, <1>2 DEF IInv, OneInSync
  <1>9. OneInSync' /\ CountHolds' /\ AgeBySync'
    BY <1>1, <1>8 DEF OneInSync, CountHolds, AgeBySync
  <1>10. AgeByThread'
    BY <1>1, <1>2, <1>6, Numbers, SMTT(30) DEF AgeByThread, IInv, TypeOK
  <1>11. OnlyTakesTime'
    BY <1>2 DEF IInv, OnlyTakesTime
  <1> QED
    BY <1>4, <1>5, <1>7, <1>9, <1>10, <1>11 DEF IInv

-----------------------------------------------------------------------------
(* Threads join *)

\* New threads at the head, and perhaps one thread further in its sync.
JoinsOrSyncs(u) ==
    \/ threads'[u] = threads[u]
    \/ threads[u].phase = "none" /\ threads'[u] = At("head")
    \/ threads[u].phase = "sync" /\ threads'[u] = At("counted")

LEMMA JoinKeeps ==
    ASSUME IInv, UNCHANGED <<process, busy_workers, sync_age, report, failures>>,
           DOMAIN threads' = Threads, threads' = [u \in Threads |-> threads'[u]],
           \A u \in Threads : JoinsOrSyncs(u),
           embedded \/ \E t \in Threads : threads[t].phase = "sync"
    PROVE  IInv'
  <1>1. UNCHANGED <<embedded, up, busy_workers, sync_age, counted, row, row_age,
                    deserted, failures>>
    BY DEF process, report
  <1>2. \A u \in Threads :
           /\ threads'[u] \in [phase : Phases, time : 0..Longest]
           /\ threads'[u].phase = "busy" <=> threads[u].phase = "busy"
           /\ threads'[u].phase \in InSync <=> threads[u].phase \in InSync
           /\ threads'[u].phase = "report" => threads[u].phase = "report"
           /\ threads'[u].phase \in {"ready"} \cup TakesTime => threads'[u] = threads[u]
           /\ threads'[u].phase \notin TakesTime => threads'[u].time = 0
    <2> SUFFICES ASSUME NEW u \in Threads
                 PROVE  /\ threads'[u] \in [phase : Phases, time : 0..Longest]
                        /\ threads'[u].phase = "busy" <=> threads[u].phase = "busy"
                        /\ threads'[u].phase \in InSync <=> threads[u].phase \in InSync
                        /\ threads'[u].phase = "report" => threads[u].phase = "report"
                        /\ threads'[u].phase \in {"ready"} \cup TakesTime =>
                              threads'[u] = threads[u]
                        /\ threads'[u].phase \notin TakesTime => threads'[u].time = 0
      OBVIOUS
    <2>1. threads[u] \in [phase : Phases, time : 0..Longest]
      BY DEF IInv, TypeOK
    <2>2. threads[u].phase \notin TakesTime => threads[u].time = 0
      BY DEF IInv, OnlyTakesTime
    <2>3. /\ At("head") \in [phase : Phases, time : 0..Longest]
          /\ At("head").phase = "head" /\ At("head").time = 0
          /\ At("counted") \in [phase : Phases, time : 0..Longest]
          /\ At("counted").phase = "counted" /\ At("counted").time = 0
      BY Numbers DEF At
    <2>4. CASE threads'[u] = threads[u]
      BY <2>1, <2>2, <2>4
    <2>5. CASE threads[u].phase = "none" /\ threads'[u] = At("head")
      BY <2>3, <2>5
    <2>6. CASE threads[u].phase = "sync" /\ threads'[u] = At("counted")
      BY <2>3, <2>6
    <2> QED
      BY <2>4, <2>5, <2>6 DEF JoinsOrSyncs
  <1>3. TypeOK'
    <2>1. Busy' = Busy
      BY <1>2 DEF Busy
    <2>2. threads' \in [Threads -> [phase : Phases, time : 0..Longest]]
      BY <1>2
    <2> QED
      BY <1>1, <2>1, <2>2 DEF IInv, TypeOK, AgeCap
  <1>4. BusyBelowActive' /\ HeartbeatDelayBounded' /\ AgeBySync'
    BY <1>1 DEF IInv, BusyBelowActive, HeartbeatDelayBounded, DelayBound, AgeBySync, SyncIsDue
  <1>5. OneInSync'
    BY <1>2 DEF IInv, OneInSync
  <1>6. CountHolds'
    <2> SUFFICES ASSUME ~embedded, NEW u \in Threads, threads'[u].phase = "report"
                 PROVE  FALSE
      BY <1>1 DEF CountHolds
    <2>1. PICK t \in Threads : threads[t].phase = "sync"
      BY <1>1
    <2>2. threads[u].phase = "report"
      BY <1>2
    <2> QED
      BY <2>1, <2>2 DEF IInv, OneInSync
  <1>7. AgeByThread'
    <2>1. SyncLockFree' => SyncLockFree
      BY <1>2 DEF SyncLockFree
    <2> QED
      BY <1>1, <1>2, <2>1 DEF IInv, AgeByThread
  <1>8. OnlyTakesTime'
    BY <1>2 DEF OnlyTakesTime
  <1> QED
    BY <1>3, <1>4, <1>5, <1>6, <1>7, <1>8 DEF IInv

LEMMA SyncConfigKeeps ==
    ASSUME IInv, NEW t \in Threads, SyncConfig(t)
    PROVE  IInv'
  <1> DEFINE before == [threads EXCEPT ![t] = At("counted")]
  <1>1. PICK recruits \in SUBSET (Threads \ Alive) :
           threads' = [u \in Threads |-> IF u \in recruits THEN At("head") ELSE before[u]]
    BY DEF SyncConfig, StartThreads
  <1>2. \A u \in Threads : before[u] = IF u = t THEN At("counted") ELSE threads[u]
    BY DEF IInv, TypeOK
  <1>3. threads[t].phase = "sync"
        /\ UNCHANGED <<process, busy_workers, sync_age, report, failures>>
    BY DEF SyncConfig
  <1> HIDE DEF before
  <1>4. \A u \in Threads : JoinsOrSyncs(u)
    BY <1>1, <1>2, <1>3 DEF JoinsOrSyncs, Alive
  <1>5. threads' = [u \in Threads |-> threads'[u]] /\ DOMAIN threads' = Threads
    BY <1>1
  <1> QED
    BY <1>3, <1>4, <1>5, JoinKeeps

LEMMA PatchConfigKeeps ==
    ASSUME IInv, PatchConfig
    PROVE  IInv'
  <1>1. PICK recruits \in SUBSET (Threads \ Alive) :
           threads' = [u \in Threads |-> IF u \in recruits THEN At("head") ELSE threads[u]]
    BY DEF PatchConfig, StartThreads
  <1>2. \A u \in Threads : JoinsOrSyncs(u)
    BY <1>1 DEF JoinsOrSyncs, Alive
  <1>3. threads' = [u \in Threads |-> threads'[u]] /\ DOMAIN threads' = Threads
    BY <1>1
  <1> QED
    BY <1>2, <1>3, JoinKeeps DEF PatchConfig

-----------------------------------------------------------------------------
(* Time, the stop event, and the theorems *)

\* While there is a thread, its time in a handler or between polls bounds the delay.
LEMMA TickKeeps ==
    ASSUME IInv, Tick
    PROVE  IInv'
  <1>1. /\ \A t \in Alive : threads[t].phase \in TakesTime /\ threads[t].time < Limit(t)
        /\ threads' = [t \in Threads |-> IF t \in Alive
                                         THEN [threads[t] EXCEPT !.time = @ + 1]
                                         ELSE threads[t]]
        /\ sync_age' = IF SyncIsDue THEN sync_age ELSE sync_age + 1
        /\ row_age' = IF row_age < AgeCap THEN row_age + 1 ELSE row_age
        /\ deserted' = (deserted \/ Alive = {})
        /\ UNCHANGED <<embedded, up, busy_workers, counted, row, failures>>
    BY DEF Tick, process
  <1>2. row_age \in Nat /\ sync_age \in 0..SyncInterval /\ failures \in Nat
    BY DEF IInv, TypeOK
  <1>3. \A t \in Alive : /\ threads'[t].phase = threads[t].phase
                         /\ threads[t].time \in Nat
                         /\ threads'[t].time = threads[t].time + 1
                         /\ threads[t].time + 1 <= Longest
                         /\ threads'[t] \in [phase : Phases, time : 0..Longest]
    <2> SUFFICES ASSUME NEW t \in Alive
                 PROVE  /\ threads'[t].phase = threads[t].phase
                        /\ threads[t].time \in Nat
                        /\ threads'[t].time = threads[t].time + 1
                        /\ threads[t].time + 1 <= Longest
                        /\ threads'[t] \in [phase : Phases, time : 0..Longest]
      OBVIOUS
    <2>1. t \in Threads /\ threads[t] \in [phase : Phases, time : 0..Longest]
      BY DEF Alive, IInv, TypeOK
    <2>2. Limit(t) \in Nat /\ Limit(t) <= Longest
      BY Numbers DEF Limit
    <2>3. threads[t].time \in Nat /\ threads[t].time + 1 <= Longest
      BY <1>1, <2>1, <2>2, Numbers
    <2>4. threads'[t] = [threads[t] EXCEPT !.time = @ + 1]
      BY <1>1, <2>1
    <2> QED
      BY <2>1, <2>3, <2>4, Numbers
  <1>4. \A t \in Threads : t \notin Alive => threads'[t] = threads[t]
    BY <1>1
  <1>5. \A t \in Threads : threads'[t].phase = threads[t].phase
    BY <1>3, <1>4
  <1>6. TypeOK'
    <2>1. threads' \in [Threads -> [phase : Phases, time : 0..Longest]]
      BY <1>1, <1>3, <1>4 DEF IInv, TypeOK
    <2>2. Busy' = Busy
      BY <1>5 DEF Busy
    <2>3. sync_age' \in 0..SyncInterval
      BY <1>1, <1>2, Numbers DEF SyncIsDue
    <2>4. row_age' \in 0..AgeCap /\ AgeCap' = AgeCap
      BY <1>1, AgeCapType DEF IInv, TypeOK, AgeCap
    <2>5. deserted' \in BOOLEAN
      BY <1>1
    <2> QED
      BY <1>1, <2>1, <2>2, <2>3, <2>4, <2>5 DEF IInv, TypeOK
  <1>7. row_age' <= row_age + 1 /\ row_age' \in Nat
    BY <1>1, <1>2
  <1>8. SyncLockFree
    <2>1. \A t \in Threads : threads[t].phase \notin TakesTime => t \notin Alive
      BY <1>1
    <2> QED
      BY <2>1 DEF SyncLockFree, Alive
  <1>9. PICK b \in Nat : b = Longest * failures /\ Longest * (1 + failures) = b + Longest
    BY <1>2, Delays
  <1>10. ASSUME up, ~deserted, NEW t \in Alive
         PROVE  row_age' <= SyncInterval + b + threads'[t].time
    <2>1. threads[t].phase \in TakesTime /\ t \in Threads
      BY <1>1 DEF Alive
    <2>2. row_age <= SyncInterval + b + threads[t].time
      BY <1>8, <1>9, <1>10, <2>1 DEF IInv, AgeByThread
    <2> QED
      BY <1>2, <1>3, <1>7, <2>2, Numbers
  <1>11. HeartbeatDelayBounded'
    <2> SUFFICES ASSUME up, ~deserted' PROVE row_age' <= SyncInterval + b + Longest
      BY <1>1, <1>9, Numbers DEF HeartbeatDelayBounded, DelayBound
    <2>1. ~deserted
      BY <1>1
    <2>2. PICK t : t \in Alive
      BY <1>1
    <2>3. row_age' <= SyncInterval + b + threads'[t].time
      BY <1>10, <2>1, <2>2
    <2> QED
      BY <1>3, <1>7, <2>2, <2>3, Numbers
  <1>12. AgeByThread'
    <2> SUFFICES ASSUME up, ~deserted', NEW t \in Threads,
                        threads'[t].phase \in {"ready"} \cup TakesTime
                 PROVE  row_age' <= SyncInterval + b + threads'[t].time
      BY <1>1, <1>9 DEF AgeByThread
    <2>1. ~deserted
      BY <1>1
    <2>2. t \in Alive
      BY <1>5 DEF Alive
    <2> QED
      BY <1>10, <2>1, <2>2
  <1>13. AgeBySync'
    <2> SUFFICES ASSUME sync_age' # SyncInterval PROVE row_age' <= sync_age'
      BY DEF AgeBySync, SyncIsDue
    <2>1. ~SyncIsDue
      BY <1>1 DEF SyncIsDue
    <2>2. row_age <= sync_age /\ sync_age' = sync_age + 1
      BY <1>1, <2>1 DEF IInv, AgeBySync
    <2> QED
      BY <1>2, <1>7, <2>2
  <1>14. Alive' = Alive
    BY <1>5 DEF Alive
  <1>15. BusyBelowActive' /\ OneInSync' /\ CountHolds'
    BY <1>1, <1>5, <1>14 DEF IInv, BusyBelowActive, OneInSync, CountHolds
  <1>16. OnlyTakesTime'
    BY <1>1, <1>4, <1>5 DEF IInv, OnlyTakesTime
  <1> QED
    BY <1>6, <1>11, <1>12, <1>13, <1>15, <1>16 DEF IInv

LEMMA NoStepKeeps ==
    ASSUME IInv, up' \in BOOLEAN, up' => up,
           UNCHANGED <<embedded, threads, busy_workers, sync_age, report, failures>>
    PROVE  IInv'
  BY DEF IInv, TypeOK, AgeCap, report, Busy, Alive, BusyBelowActive, HeartbeatDelayBounded,
         DelayBound, OneInSync, CountHolds, AgeBySync, SyncIsDue, AgeByThread, SyncLockFree,
         OnlyTakesTime

LEMMA InitInvariant ==
    Init => IInv
  <1> SUFFICES ASSUME Init PROVE IInv
    OBVIOUS
  <1>1. \A phase \in {"head", "none"} : /\ At(phase) \in [phase : Phases, time : 0..Longest]
                                        /\ At(phase).phase = phase /\ At(phase).time = 0
    BY Numbers DEF At
  <1>2. PICK started \in SUBSET Threads :
           threads = [t \in Threads |-> At(IF t \in started THEN "head" ELSE "none")]
    BY DEF Init
  <1>3. threads \in [Threads -> [phase : Phases, time : 0..Longest]]
    BY <1>1, <1>2
  <1>4. \A t \in Threads : threads[t].phase \in {"head", "none"} /\ threads[t].time = 0
    BY <1>1, <1>2
  <1>5. TypeOK
    <2>1. Busy = {}
      BY <1>4 DEF Busy
    <2>2. Cardinality(Busy) = 0
      BY <2>1, FS_EmptySet
    <2>3. 0 \in 0..AgeCap /\ SyncInterval \in 0..SyncInterval /\ 0 \in 0..MaxFailures
      BY AgeCapType, Numbers
    <2>4. 0 \in 0..Cardinality(Threads)
      BY Counts
    <2> QED
      BY <1>3, <2>2, <2>3, <2>4 DEF Init, TypeOK
  <1>6. HeartbeatDelayBounded
    <2>1. failures = 0 /\ row_age = 0
      BY DEF Init
    <2>2. Longest * (1 + failures) \in Nat
      BY <2>1, Delays, Numbers
    <2> QED
      BY <2>1, <2>2, Numbers DEF HeartbeatDelayBounded, DelayBound
  <1>7. BusyBelowActive /\ AgeBySync
    BY Numbers DEF Init, BusyBelowActive, AgeBySync, SyncIsDue
  <1>8. OneInSync /\ CountHolds /\ AgeByThread /\ OnlyTakesTime
    BY <1>4 DEF OneInSync, CountHolds, AgeByThread, OnlyTakesTime
  <1> QED
    BY <1>5, <1>6, <1>7, <1>8 DEF IInv

LEMMA NextKeeps ==
    IInv /\ [Next]_vars => IInv'
  <1> SUFFICES ASSUME IInv, [Next]_vars PROVE IInv'
    OBVIOUS
  <1>1. ASSUME UNCHANGED vars PROVE IInv'
    <2>1. up' \in BOOLEAN /\ up' = up
      BY <1>1 DEF vars, process, IInv, TypeOK
    <2> QED
      BY <1>1, <2>1, NoStepKeeps DEF vars, process
  <1>2. ASSUME Stop PROVE IInv'
    BY <1>2, NoStepKeeps DEF Stop
  <1> QED
    BY <1>1, <1>2, PassHeadKeeps, SyncConfigKeeps, CountThreadsKeeps, HeartbeatWorkerKeeps,
       SyncFailsKeeps, FromReadyKeeps, BackToHeadKeeps, PatchConfigKeeps, TickKeeps DEF Next

\* However the steps of the threads interleave, counters, reports and their age agree
\* with where the threads are.
THEOREM Invariance ==
    Spec => []IInv
  BY InitInvariant, NextKeeps, PTL DEF Spec

\* busy_workers is the number of threads in process_one, for any number of threads and
\* however their attempts end.
THEOREM TypeCorrectness ==
    Spec => []TypeOK
  <1>1. IInv => TypeOK
    BY DEF IInv
  <1> QED
    BY <1>1, Invariance, PTL

\* A worker container of any size never reports all its threads busy.
THEOREM BusyBelowActiveTheorem ==
    Spec => []BusyBelowActive
  <1>1. IInv => BusyBelowActive
    BY DEF IInv
  <1> QED
    BY <1>1, Invariance, PTL

\* The row of a process that has threads is never older than a sync interval and one
\* longest wait, plus one for each database error.
THEOREM HeartbeatDelayTheorem ==
    Spec => []HeartbeatDelayBounded
  <1>1. IInv => HeartbeatDelayBounded
    BY DEF IInv
  <1> QED
    BY <1>1, Invariance, PTL

=============================================================================
