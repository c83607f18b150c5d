------------------------------ MODULE WorkerPool ------------------------------
(***************************************************************************)
(* The pool of worker threads of one process (app/worker.py): slots,       *)
(* resizing, synchronisation with the shared configuration, and shutdown.  *)
(*                                                                         *)
(* The number of threads is asked for in three places: the row of          *)
(* runtime_config, which the API of any process patches; the process's     *)
(* RuntimeConfigStore, a copy; and the list _threads.  A thread copies the *)
(* row into the store once per sync interval, and so do the requests of    *)
(* the process's own API, if it serves one (GET /config, GET /metrics,     *)
(* PATCH /config); reconcile() adds threads up to the stored number; a     *)
(* thread whose slot lies above the stored number leaves its loop.  Every  *)
(* access to the row, to the store and to _threads is a step of its own.   *)
(* The comparison that decides whether to reconcile covers the whole       *)
(* configuration, not just worker_concurrency.                             *)
(*                                                                         *)
(* What a thread does with jobs is module JobQueue, where slots appear as  *)
(* WorkerIds: two live threads with one slot share a worker id.            *)
(***************************************************************************)
EXTENDS Naturals, FiniteSets

CONSTANTS
    Threads,        \* thread objects; one that is dead and forgotten can be used again
    Requests,       \* API requests the process serves at a time
    Configs,        \* runtime configurations: worker_concurrency and the rest
    MaxFailures,    \* bound on the database errors a thread meets
    NoConfig        \* a request or a thread that has read nothing

ASSUME PoolAssumption ==
    /\ Configs # {}
    /\ IsFiniteSet(Threads)
    /\ \A c \in Configs :
          c.worker_concurrency \in 1..Cardinality(Threads)
    /\ MaxFailures \in Nat
    /\ NoConfig \notin Configs

VARIABLES
    shared,         \* the row of runtime_config
    config,         \* the process's RuntimeConfigStore
    lifecycle,      \* of the pool: what _started and _stop_event say
    pool,           \* the list _threads
    threads,        \* per thread: where it is, its slot, and what it read
    sync_due,       \* config_sync_interval_seconds have passed since the last sync
    requests,       \* per request: where it is and what it read
    failures        \* database errors so far

vars == <<shared, config, lifecycle, pool, threads, sync_due, requests, failures>>

\* "dead": no thread, or one that returned.  "top": at the head of _worker_loop.
\* "read", "compared" and "replaced" lie in _maybe_sync_runtime_config, after
\* get_runtime_config, after the comparison and after replace.  "synced": about to
\* look at its slot.  "working": in the rest of the round, process_one included.
\* "leaving": out of the loop but still alive.
Syncing == {"read", "compared", "replaced"}
Phases == {"dead", "top", "synced", "working", "leaving"} \cup Syncing

MaybeConfig == Configs \cup {NoConfig}
Thread == [phase : Phases, slot : Nat, read : MaybeConfig, changed : BOOLEAN]
Request == [phase : {"idle", "read", "reconcile"}, patch : BOOLEAN, read : MaybeConfig]

NoThread == [phase |-> "dead", slot |-> 0, read |-> NoConfig, changed |-> FALSE]
NoRequest == [phase |-> "idle", patch |-> FALSE, read |-> NoConfig]

Alive == {t \in Threads : threads[t].phase # "dead"}
Slot(t) == threads[t].slot
Running == lifecycle = "running"
Started == lifecycle \in {"running", "stopping"}
StopEvent == lifecycle \in {"stopping", "stopped"}
desired_concurrency == config.worker_concurrency

Init ==
    /\ shared \in Configs
    /\ config \in Configs
    /\ lifecycle = "new"
    /\ pool = {}
    /\ threads = [t \in Threads |-> NoThread]
    /\ sync_due = TRUE
    /\ requests = [r \in Requests |-> NoRequest]
    /\ failures = 0

-----------------------------------------------------------------------------
(* Starting threads.  X_Slip definitions are slips X might contain.              *)

\* range(current + 1, desired + 1)
NewSlots_Absolute(n) == 1..n
NewSlots(n) == (Cardinality(pool \cap Alive) + 1)..n

Recruit(slot) == [phase |-> "top", slot |-> slot, read |-> NoConfig, changed |-> FALSE]

\* _ensure_threads_locked: forget the dead, then start a thread for each new slot.
EnsureThreads(n, before) ==
    \E recruits \in SUBSET (Threads \ Alive) :
        /\ Cardinality(recruits) = Cardinality(NewSlots(n))
        /\ \E slot_of \in [recruits -> NewSlots(n)] :
              /\ \A t, u \in recruits : slot_of[t] = slot_of[u] => t = u
              /\ threads' = [t \in Threads |->
                                IF t \in recruits
                                THEN Recruit(slot_of[t])
                                ELSE before[t]]
              /\ pool' = (pool \cap Alive) \cup recruits

Reconcile(before) ==
    IF Started THEN EnsureThreads(desired_concurrency, before)
    ELSE threads' = before /\ UNCHANGED pool

-----------------------------------------------------------------------------
(* The configuration row and the API *)

\* PATCH /config served by another process.
PatchElsewhere ==
    /\ shared' \in Configs \ {shared}
    /\ UNCHANGED <<config, lifecycle, pool, threads, sync_due, requests, failures>>

\* GET /config, GET /metrics and PATCH /config read or update the row, ...
BeginRequest(r) ==
    /\ Running
    /\ requests[r].phase = "idle"
    /\ \/ /\ requests' = [requests EXCEPT ![r] =
                             [phase |-> "read", patch |-> FALSE, read |-> shared]]
          /\ UNCHANGED shared
       \/ \E c \in Configs :
             /\ requests' = [requests EXCEPT ![r] =
                                [phase |-> "read", patch |-> TRUE, read |-> c]]
             /\ shared' = c
    /\ UNCHANGED <<config, lifecycle, pool, threads, sync_due, failures>>

\* ... then copy it into the store, ...
ReplaceConfig(r) ==
    /\ requests[r].phase = "read"
    /\ config' = requests[r].read
    /\ requests' = [requests EXCEPT ![r] =
                       IF requests[r].patch
                       THEN [phase |-> "reconcile", patch |-> TRUE, read |-> NoConfig]
                       ELSE NoRequest]
    /\ UNCHANGED <<shared, lifecycle, pool, threads, sync_due, failures>>

\* ... and only PATCH reconciles the pool.
ReconcileRequest(r) ==
    /\ requests[r].phase = "reconcile"
    /\ Reconcile(threads)
    /\ requests' = [requests EXCEPT ![r] = NoRequest]
    /\ UNCHANGED <<shared, config, lifecycle, sync_due, failures>>

-----------------------------------------------------------------------------
(* Lifecycle: main() and lifespan() start and stop the pool once, and requests   *)
(* are served in between.                                                        *)

Start ==
    /\ lifecycle = "new"
    /\ config' = shared
    /\ lifecycle' = "running"
    /\ EnsureThreads(shared.worker_concurrency, threads)
    /\ UNCHANGED <<shared, sync_due, requests, failures>>

\* lifespan shuts down when the last response has been sent.
BeginStop ==
    /\ Running
    /\ \A r \in Requests : requests[r].phase = "idle"
    /\ lifecycle' = "stopping"
    /\ UNCHANGED <<shared, config, pool, threads, sync_due, requests, failures>>

\* Every join has returned, with its thread dead or by its timeout.
FinishStop_ClearsList ==
    /\ lifecycle = "stopping"
    /\ lifecycle' = "stopped"
    /\ pool' = {}
    /\ UNCHANGED <<shared, config, threads, sync_due, requests, failures>>
FinishStop ==
    /\ lifecycle = "stopping"
    /\ lifecycle' = "stopped"
    /\ pool' = pool \cap Alive
    /\ UNCHANGED <<shared, config, threads, sync_due, requests, failures>>

-----------------------------------------------------------------------------
(* _worker_loop *)

Place(t, phase, read) ==
    [threads EXCEPT ![t] =
        [phase |-> phase, slot |-> Slot(t), read |-> read, changed |-> FALSE]]
Goto(t, phase) == Place(t, phase, NoConfig)

SyncLockFree == \A t \in Threads : threads[t].phase \notin Syncing

\* The sync interval passes.
SyncFallsDue ==
    /\ ~sync_due
    /\ sync_due' = TRUE
    /\ UNCHANGED <<shared, config, lifecycle, pool, threads, requests, failures>>

\* The head of the loop: leave on the stop event, else synchronise if it is due and
\* nobody else does.
BeginRound_IgnoresStop(t) ==
    /\ threads[t].phase = "top"
    /\ threads' = IF sync_due /\ SyncLockFree
                  THEN Place(t, "read", shared)
                  ELSE Goto(t, "synced")
    /\ UNCHANGED <<shared, config, lifecycle, pool, sync_due, requests, failures>>
BeginRound(t) ==
    /\ threads[t].phase = "top"
    /\ threads' = IF StopEvent THEN Goto(t, "leaving")
                  ELSE IF sync_due /\ SyncLockFree
                  THEN Place(t, "read", shared)
                  ELSE Goto(t, "synced")
    /\ UNCHANGED <<shared, config, lifecycle, pool, sync_due, requests, failures>>

CompareConfig(t) ==
    /\ threads[t].phase = "read"
    /\ threads' = [threads EXCEPT ![t] =
                      [phase |-> "compared", slot |-> Slot(t), read |-> threads[t].read,
                       changed |-> threads[t].read # config]]
    /\ UNCHANGED <<shared, config, lifecycle, pool, sync_due, requests, failures>>

CopyConfig_Dropped(t) ==
    /\ threads[t].phase = "compared"
    /\ threads' = [threads EXCEPT ![t].phase = "replaced"]
    /\ UNCHANGED <<shared, config, lifecycle, pool, sync_due, requests, failures>>
CopyConfig(t) ==
    /\ threads[t].phase = "compared"
    /\ config' = threads[t].read
    /\ threads' = [threads EXCEPT ![t].phase = "replaced"]
    /\ UNCHANGED <<shared, lifecycle, pool, sync_due, requests, failures>>

\* The pool is reconciled only when the comparison saw a change; the heartbeat follows.
FinishSync(t) ==
    /\ threads[t].phase = "replaced"
    /\ IF threads[t].changed THEN Reconcile(Goto(t, "synced"))
       ELSE threads' = Goto(t, "synced") /\ pool' = pool \cap Alive
    /\ sync_due' = FALSE
    /\ UNCHANGED <<shared, config, lifecycle, requests, failures>>

\* A database error on the way is logged and the round goes on.
SyncFails(t) ==
    /\ threads[t].phase \in Syncing \ {"compared"}
    /\ failures < MaxFailures
    /\ failures' = failures + 1
    /\ IF threads[t].phase = "replaced" /\ threads[t].changed
       THEN Reconcile(Goto(t, "synced"))
       ELSE threads' = Goto(t, "synced") /\ UNCHANGED pool
    /\ UNCHANGED <<shared, config, lifecycle, sync_due, requests>>

Surplus_AtLimit(t) == Slot(t) >= desired_concurrency
Surplus(t) == Slot(t) > desired_concurrency

CheckSlot(t) ==
    /\ threads[t].phase = "synced"
    /\ threads' = Goto(t, IF Surplus(t) THEN "leaving" ELSE "working")
    /\ UNCHANGED <<shared, config, lifecycle, pool, sync_due, requests, failures>>

\* A round ends whatever its job did: the handler is not waited for beyond its timeout.
FinishRound(t) ==
    /\ threads[t].phase = "working"
    /\ threads' = Goto(t, "top")
    /\ UNCHANGED <<shared, config, lifecycle, pool, sync_due, requests, failures>>

Exit(t) ==
    /\ threads[t].phase = "leaving"
    /\ threads' = [threads EXCEPT ![t] = NoThread]
    /\ UNCHANGED <<shared, config, lifecycle, pool, sync_due, requests, failures>>

\* claim_next_job or _record_failure raised: nothing catches it.
DieOfException(t) ==
    /\ threads[t].phase = "working"
    /\ failures < MaxFailures
    /\ failures' = failures + 1
    /\ threads' = [threads EXCEPT ![t] = NoThread]
    /\ UNCHANGED <<shared, config, lifecycle, pool, sync_due, requests>>

-----------------------------------------------------------------------------

LoopStep(t) ==
    \/ BeginRound(t)
    \/ CompareConfig(t)
    \/ CopyConfig(t)
    \/ FinishSync(t)
    \/ CheckSlot(t)
    \/ FinishRound(t)
    \/ Exit(t)

RequestStep(r) == ReplaceConfig(r) \/ ReconcileRequest(r)

Next ==
    \/ PatchElsewhere
    \/ \E r \in Requests : BeginRequest(r) \/ RequestStep(r)
    \/ Start
    \/ BeginStop
    \/ FinishStop
    \/ SyncFallsDue
    \/ \E t \in Threads : LoopStep(t) \/ SyncFails(t) \/ DieOfException(t)

Spec == Init /\ [][Next]_vars

\* Threads are scheduled, requests are answered, and time passes; nobody has to patch,
\* and nobody has to stop the pool.
FairSpec ==
    /\ Spec
    /\ WF_vars(Start) /\ WF_vars(FinishStop) /\ WF_vars(SyncFallsDue)
    /\ \A t \in Threads : WF_vars(LoopStep(t))
    /\ \A r \in Requests : WF_vars(RequestStep(r))

-----------------------------------------------------------------------------
(* Properties *)

\* Type correctness, and no live thread is missing from _threads.
TypeOK ==
    /\ shared \in Configs
    /\ config \in Configs
    /\ lifecycle \in {"new", "running", "stopping", "stopped"}
    /\ threads \in [Threads -> Thread]
    /\ pool \subseteq Threads
    /\ Alive \subseteq pool
    /\ sync_due \in BOOLEAN
    /\ requests \in [Requests -> Request]
    /\ failures \in 0..MaxFailures

\* However resizes, synchronisations, slow threads and dying threads overlap, the
\* process never runs more threads than some configuration asked for.
ThreadsBounded ==
    \E c \in Configs : Cardinality(Alive) <= c.worker_concurrency

\* Without database errors, no sequence of resizes leaves the process without a
\* thread: the thread of slot 1 stays in its loop while the pool runs.
FirstSlotServes ==
    Running /\ failures = 0 =>
        \E t \in Alive : Slot(t) = 1 /\ threads[t].phase # "leaving"

\* What the two invariants above rest on: no thread lives before start().
NoThreadBeforeStart == lifecycle = "new" => Alive = {}

\* ... and whoever is about to copy a configuration has read one.
ReadingsHeld ==
    /\ \A r \in Requests : requests[r].phase = "read" => requests[r].read \in Configs
    /\ \A t \in Threads :
          threads[t].phase \in {"read", "compared"} => threads[t].read \in Configs

IInv ==
    /\ TypeOK
    /\ ReadingsHeld
    /\ NoThreadBeforeStart
    /\ ThreadsBounded
    /\ FirstSlotServes

\* Every copy of the configuration is c: the row, the store, and what requests and
\* threads have read and not yet copied.
SettledOn(c) ==
    /\ shared = c /\ config = c
    /\ \A r \in Requests : requests[r].phase = "read" => requests[r].read = c
    /\ \A t \in Threads : threads[t].phase \in {"read", "compared"} => threads[t].read = c

\* Once it has settled, no old reading unsettles it before the next PATCH, and the
\* threads above it only get fewer, whoever reconciles or dies meanwhile.
SurplusNeverGrows ==
    [][\A c \in Configs :
          Running /\ Running' /\ SettledOn(c) /\ shared' = c =>
             /\ SettledOn(c)'
             /\ \A t \in Alive' : Slot(t)' > c.worker_concurrency =>
                   t \in Alive /\ Slot(t) > c.worker_concurrency]_vars

\* When the configuration settles, the threads above it leave, whichever thread or
\* request copied which version of the row before.
SurplusLeaves ==
    \A c \in Configs :
        <>[](Running /\ shared = c) => <>[](\A t \in Alive : Slot(t) <= c.worker_concurrency)

\* After stop() every thread ends, those started by a reconcile() that stop()
\* overtook included.
StopEndsThreads == StopEvent ~> Alive = {}

\* When the configuration settles, the process runs as many threads as it asks for.
PoolConverges ==
    \A c \in Configs :
        <>[](Running /\ shared = c) => <>[](Cardinality(Alive) = c.worker_concurrency)

=============================================================================
