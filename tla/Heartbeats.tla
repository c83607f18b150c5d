------------------------------ MODULE Heartbeats ------------------------------
(***************************************************************************)
(* The row of worker_instances a worker process reports itself with, and   *)
(* what GET /metrics can conclude from it (app/worker.py, the heartbeat    *)
(* methods of app/repository.py).                                          *)
(*                                                                         *)
(* No thread is there for heartbeats: whichever worker thread comes to the *)
(* head of its loop when a sync is due counts the threads, then the busy   *)
(* ones, then writes the row.  A thread in a handler cannot, so how old    *)
(* the row of a healthy process gets depends on how long handlers run.     *)
(*                                                                         *)
(* Time is a number of units.  Handlers and the wait between polls take    *)
(* time, up to their limits; everything else a thread does, database calls *)
(* included, is taken to be quick: Tick waits for it.  Slots, resizes and  *)
(* the configuration are module WorkerPool; here a thread may be added     *)
(* where the code reconciles and may leave where it may find itself        *)
(* surplus.                                                                *)
(***************************************************************************)
EXTENDS Naturals, FiniteSets

CONSTANTS
    Threads,        \* thread objects; one that returned can be used again
    SyncInterval,   \* config_sync_interval_seconds
    PollInterval,   \* poll_interval_seconds
    Timeout,        \* longest timeout_seconds of a job
    MaxFailures,    \* bound on the database errors
    NoRow           \* the process has not reported itself yet

ASSUME HeartbeatAssumption ==
    /\ IsFiniteSet(Threads)
    /\ Threads # {}
    /\ {SyncInterval, PollInterval, Timeout, MaxFailures} \subseteq Nat
    /\ NoRow \notin [active : Nat, busy : Nat]

VARIABLES
    embedded,       \* the process serves the API too, whose PATCH /config reconciles
    up,             \* the process lives and its stop event is not set
    threads,        \* per thread: where it is, and for how long
    busy_workers,   \* _busy_workers
    sync_age,       \* time since _last_config_sync, counted up to SyncInterval
    counted,        \* active threads, as the thread in the sync has counted them
    row,            \* the process's row of worker_instances
    row_age,        \* time since its last_seen_at, before the first row since the start
    deserted,       \* history: the process had no thread since it last reported
    failures        \* database errors so far

process == <<embedded, up>>
report == <<counted, row, row_age, deserted>>
vars == <<process, threads, busy_workers, sync_age, report, failures>>

\* "head": at the head of _worker_loop.  "sync", "counted" and "report": in
\* _maybe_sync_runtime_config, before each of its last three accesses.  "ready": about
\* to claim.  "busy": in the try of process_one.  "waiting": for the next poll.
InSync == {"sync", "counted", "report"}
TakesTime == {"busy", "waiting"}
Phases == {"none", "head", "ready"} \cup InSync \cup TakesTime

Longest == IF Timeout > PollInterval THEN Timeout ELSE PollInterval

\* A row gets this old at most, see HeartbeatDelayBounded; ages stop one above.
DelayBound == SyncInterval + Longest * (1 + failures)
AgeCap == SyncInterval + Longest * (1 + MaxFailures) + 1

At(phase) == [phase |-> phase, time |-> 0]
Alive == {t \in Threads : threads[t].phase # "none"}
Busy == {t \in Threads : threads[t].phase = "busy"}

Init ==
    /\ embedded \in BOOLEAN
    /\ up = TRUE
    /\ \E started \in SUBSET Threads \ {{}} :
          threads = [t \in Threads |-> At(IF t \in started THEN "head" ELSE "none")]
    /\ busy_workers = 0
    /\ sync_age = SyncInterval
    /\ counted = 0
    /\ row = NoRow
    /\ row_age = 0
    /\ deserted = FALSE
    /\ failures = 0

-----------------------------------------------------------------------------
(* The loop.  X_Slip definitions are slips X might contain.                      *)

Goto(t, phase) == threads' = [threads EXCEPT ![t] = At(phase)]

\* reconcile(), for some desired number of threads
StartThreads(before) ==
    \E recruits \in SUBSET (Threads \ Alive) :
        threads' = [t \in Threads |-> IF t \in recruits THEN At("head") ELSE before[t]]

SyncIsDue == sync_age = SyncInterval
SyncLockFree_NoLock == TRUE
SyncLockFree == \A t \in Threads : threads[t].phase \notin InSync

PassHead(t) ==
    /\ threads[t].phase = "head"
    /\ Goto(t, IF ~up THEN "none"
               ELSE IF SyncIsDue /\ SyncLockFree THEN "sync" ELSE "ready")
    /\ UNCHANGED <<process, busy_workers, sync_age, report, failures>>

\* Reconcile if the configuration changed.
SyncConfig(t) ==
    /\ threads[t].phase = "sync"
    /\ StartThreads([threads EXCEPT ![t] = At("counted")])
    /\ UNCHANGED <<process, busy_workers, sync_age, report, failures>>

\* len(self._threads), after the dead ones are dropped, then busy_workers
CountThreads_ThenReconcile(t) ==
    /\ threads[t].phase = "counted"
    /\ counted' = Cardinality(Alive)
    /\ StartThreads([threads EXCEPT ![t] = At("report")])
    /\ UNCHANGED <<process, busy_workers, sync_age, row, row_age, deserted, failures>>
CountThreads(t) ==
    /\ threads[t].phase = "counted"
    /\ counted' = Cardinality(Alive)
    /\ Goto(t, "report")
    /\ UNCHANGED <<process, busy_workers, sync_age, row, row_age, deserted, failures>>

\* heartbeat_worker with busy_workers as it is by now
HeartbeatWorker_OnlyChanges(t) ==
    /\ threads[t].phase = "report"
    /\ row' = [active |-> counted, busy |-> busy_workers]
    /\ row_age' = IF row' = row THEN row_age ELSE 0
    /\ sync_age' = 0
    /\ counted' = 0
    /\ deserted' = FALSE
    /\ Goto(t, "ready")
    /\ UNCHANGED <<process, busy_workers, failures>>
HeartbeatWorker(t) ==
    /\ threads[t].phase = "report"
    /\ row' = [active |-> counted, busy |-> busy_workers]
    /\ row_age' = 0
    /\ sync_age' = 0
    /\ counted' = 0
    /\ deserted' = FALSE
    /\ Goto(t, "ready")
    /\ UNCHANGED <<process, busy_workers, failures>>

\* A database error in the sync is logged; the sync remains due.
SyncFails(t) ==
    /\ threads[t].phase \in InSync
    /\ failures < MaxFailures
    /\ failures' = failures + 1
    /\ counted' = 0
    /\ Goto(t, "ready")
    /\ UNCHANGED <<process, busy_workers, sync_age, row, row_age, deserted>>

ClaimJob(t) ==
    /\ threads[t].phase = "ready"
    /\ busy_workers' = busy_workers + 1
    /\ Goto(t, "busy")
    /\ UNCHANGED <<process, sync_age, report, failures>>

\* finally: the attempt is over, and its outcome stored or not.
NoLongerBusy_UnlessRaised(leaves) == IF leaves THEN busy_workers ELSE busy_workers - 1
NoLongerBusy(leaves) == busy_workers - 1

FinishJob(t) ==
    /\ threads[t].phase = "busy"
    /\ busy_workers' = NoLongerBusy(FALSE)
    /\ Goto(t, "head")
    /\ UNCHANGED <<process, sync_age, report, failures>>

\* claim_next_job returned None.
WaitForPoll(t) ==
    /\ threads[t].phase = "ready"
    /\ Goto(t, "waiting")
    /\ UNCHANGED <<process, busy_workers, sync_age, report, failures>>

\* The poll interval is over, or the stop event cuts it short.
Poll(t) ==
    /\ threads[t].phase = "waiting"
    /\ threads[t].time = PollInterval \/ ~up
    /\ Goto(t, "head")
    /\ UNCHANGED <<process, busy_workers, sync_age, report, failures>>

\* The slot is above the desired number, or claim_next_job raised.
Leave(t) ==
    /\ threads[t].phase = "ready"
    /\ Goto(t, "none")
    /\ UNCHANGED <<process, busy_workers, sync_age, report, failures>>

\* _record_failure raised.
LeaveBusy(t) ==
    /\ threads[t].phase = "busy"
    /\ failures < MaxFailures
    /\ failures' = failures + 1
    /\ busy_workers' = NoLongerBusy(TRUE)
    /\ Goto(t, "none")
    /\ UNCHANGED <<process, sync_age, report>>

\* PATCH /config, where the process serves it.
PatchConfig ==
    /\ embedded /\ up
    /\ StartThreads(threads)
    /\ UNCHANGED <<process, busy_workers, sync_age, report, failures>>

\* stop(); a killed process is one whose threads also stop where they are.
Stop ==
    /\ up
    /\ up' = FALSE
    /\ UNCHANGED <<embedded, threads, busy_workers, sync_age, report, failures>>

Limit(t) == IF threads[t].phase = "busy" THEN Timeout ELSE PollInterval

Tick ==
    /\ \A t \in Alive : threads[t].phase \in TakesTime /\ threads[t].time < Limit(t)
    /\ threads' = [t \in Threads |-> IF t \in Alive
                                     THEN [threads[t] EXCEPT !.time = @ + 1]
                                     ELSE threads[t]]
    /\ sync_age' = IF SyncIsDue THEN sync_age ELSE sync_age + 1
    /\ row_age' = IF row_age < AgeCap THEN row_age + 1 ELSE row_age
    /\ deserted' = (deserted \/ Alive = {})
    /\ UNCHANGED <<process, busy_workers, counted, row, failures>>

-----------------------------------------------------------------------------

Next ==
    \/ \E t \in Threads : \/ PassHead(t)
                          \/ SyncConfig(t)
                          \/ CountThreads(t)
                          \/ HeartbeatWorker(t)
                          \/ SyncFails(t)
                          \/ ClaimJob(t)
                          \/ FinishJob(t)
                          \/ WaitForPoll(t)
                          \/ Poll(t)
                          \/ Leave(t)
                          \/ LeaveBusy(t)
    \/ PatchConfig
    \/ Stop
    \/ Tick

Spec == Init /\ [][Next]_vars

-----------------------------------------------------------------------------
(* Properties *)

\* Type correctness, and busy_workers is the number of threads in process_one,
\* however their attempts end.
TypeOK ==
    /\ embedded \in BOOLEAN
    /\ up \in BOOLEAN
    /\ threads \in [Threads -> [phase : Phases, time : 0..Longest]]
    /\ busy_workers = Cardinality(Busy)
    /\ sync_age \in 0..SyncInterval
    /\ counted \in 0..Cardinality(Threads)
    /\ row \in {NoRow} \cup [active : Nat, busy : Nat]
    /\ row_age \in 0..AgeCap
    /\ deserted \in BOOLEAN
    /\ failures \in 0..MaxFailures

\* A worker container never reports all its threads busy, whoever joins, leaves or
\* finishes while it counts: worker_utilization stays below 1 however loaded it is.
\* Only where an API request may start threads during the count can it be otherwise.
BusyBelowActive == row # NoRow /\ ~embedded => row.busy < row.active

\* A process that is up reports itself again within one sync interval and one
\* handler's timeout, plus a timeout for each sync that failed, unless it has lost all
\* its threads.  So GET /metrics counts it at all times only if that is at most
\* max_age_seconds, and leaves it out, busy as it is, where handlers may run longer.
HeartbeatDelayBounded == up /\ ~deserted => row_age <= DelayBound

\* What these invariants rest on: one thread at a time is in the sync, ...
OneInSync ==
    \A t, u \in Threads :
        threads[t].phase \in InSync /\ threads[u].phase \in InSync => t = u

\* ... nobody joins a worker container between its two counts, ...
CountHolds ==
    ~embedded => \A t \in Threads :
                    threads[t].phase = "report" => Cardinality(Alive) <= counted

\* ... and the row is no older than the last sync; once a sync is due, it gets older only
\* while the threads that have not come to the head since are in a handler or waiting.
AgeBySync == ~SyncIsDue => row_age <= sync_age
AgeByThread ==
    up /\ ~deserted /\ SyncLockFree =>
        \A t \in Threads :
            threads[t].phase \in {"ready"} \cup TakesTime =>
                row_age <= SyncInterval + Longest * failures + threads[t].time

\* A thread that takes no time is at time 0.
OnlyTakesTime == \A t \in Threads : threads[t].phase \notin TakesTime => threads[t].time = 0

IInv ==
    /\ TypeOK
    /\ BusyBelowActive
    /\ HeartbeatDelayBounded
    /\ OneInSync
    /\ CountHolds
    /\ AgeBySync
    /\ AgeByThread
    /\ OnlyTakesTime

=============================================================================
