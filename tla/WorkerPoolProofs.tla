-------------------------- MODULE WorkerPoolProofs --------------------------
(***************************************************************************)
(* Theorems about WorkerPool, for every finite set of threads, every set   *)
(* of configurations and any number of requests and database errors.       *)
(***************************************************************************)
EXTENDS WorkerPool, FiniteSetTheorems, TLAPS

USE DEF Phases, Syncing

-----------------------------------------------------------------------------
(* Starting threads *)

\* Every configuration asks for at least one thread.
LEMMA ConcurrencyPositive ==
    ASSUME NEW c \in Configs
    PROVE  c.worker_concurrency \in Nat /\ c.worker_concurrency >= 1
  <1>1. Cardinality(Threads) \in Nat
    BY PoolAssumption, FS_CardinalityType
  <1> QED
    BY <1>1, PoolAssumption

\* As many threads as slots 1..n, no two with one slot: one of them has slot 1.
LEMMA SomebodyGetsSlotOne ==
    ASSUME NEW S, IsFiniteSet(S), NEW n \in Nat, n >= 1, Cardinality(S) = n,
           NEW slot_of \in [S -> 1..n],
           \A t, u \in S : slot_of[t] = slot_of[u] => t = u
    PROVE  \E t \in S : slot_of[t] = 1
  <1> SUFFICES ASSUME \A t \in S : slot_of[t] # 1
               PROVE  FALSE
    OBVIOUS
  <1>1. slot_of \in [S -> 2..n]
    OBVIOUS
  <1>2. IsFiniteSet(2..n) /\ Cardinality(2..n) = n - 1
    BY FS_Interval
  <1>3. \E t, u \in S : t # u /\ slot_of[t] = slot_of[u]
    BY <1>1, <1>2, FS_PigeonHole
  <1> QED
    BY <1>3

\* _ensure_threads_locked(n) keeps every live thread in _threads, takes the process to
\* at most n threads unless it had more, and gives the first of an empty pool slot 1.
LEMMA EnsureThreadsEffect ==
    ASSUME TypeOK, NEW n \in Nat, NEW before \in [Threads -> Thread],
           \A t \in Threads : before[t].phase # "dead" <=> t \in Alive,
           EnsureThreads(n, before)
    PROVE  /\ threads' \in [Threads -> Thread]
           /\ pool' \subseteq Threads
           /\ Alive' \subseteq pool'
           /\ \A t \in Alive : t \in Alive' /\ threads'[t] = before[t]
           /\ \A t \in Threads : threads'[t] = before[t] \/ threads'[t].phase = "top"
           /\ \A t \in Threads : threads'[t] = before[t] \/ threads'[t].slot <= n
           /\ Alive' = Alive \/ Cardinality(Alive') <= n
           /\ Alive = {} /\ n >= 1 =>
                 \E t \in Alive' : threads'[t].slot = 1 /\ threads'[t].phase # "leaving"
  <1> DEFINE Hires(recruits, slot_of) ==
                /\ \A t, u \in recruits : slot_of[t] = slot_of[u] => t = u
                /\ threads' = [t \in Threads |->
                                  IF t \in recruits
                                  THEN Recruit(slot_of[t])
                                  ELSE before[t]]
                /\ pool' = (pool \cap Alive) \cup recruits
  <1>0. PICK recruits \in SUBSET (Threads \ Alive) :
           /\ Cardinality(recruits) = Cardinality(NewSlots(n))
           /\ \E slot_of \in [recruits -> NewSlots(n)] : Hires(recruits, slot_of)
    BY DEF EnsureThreads
  <1>1. PICK slot_of \in [recruits -> NewSlots(n)] : Hires(recruits, slot_of)
    BY <1>0
  <1>2. /\ Alive \subseteq Threads
        /\ pool \cap Alive = Alive
    BY DEF TypeOK, Alive
  <1>3. IsFiniteSet(Alive) /\ IsFiniteSet(recruits)
    BY <1>1, <1>2, FS_Subset, PoolAssumption
  <1>4. /\ Cardinality(Alive) \in Nat
        /\ Cardinality(recruits) \in Nat
    BY <1>3, FS_CardinalityType
  <1>5. NewSlots(n) = (Cardinality(Alive) + 1)..n
    BY <1>2 DEF NewSlots
  <1>6. Cardinality(recruits) = IF Cardinality(Alive) + 1 > n THEN 0 ELSE n - Cardinality(Alive)
    <2> DEFINE a == Cardinality(Alive) + 1
    <2>1. a \in Int /\ n \in Int
      BY <1>4
    <2> HIDE DEF a
    <2>2. Cardinality(a..n) = IF a > n THEN 0 ELSE n - a + 1
      BY <2>1, FS_Interval
    <2>3. Cardinality(recruits) = Cardinality(a..n)
      BY <1>0, <1>5 DEF a
    <2> QED
      BY <1>4, <2>2, <2>3 DEF a
  <1>7. \A t \in recruits :
           /\ slot_of[t] \in Nat /\ slot_of[t] <= n
           /\ threads'[t] \in Thread
           /\ threads'[t].phase = "top"
           /\ threads'[t].slot = slot_of[t]
    BY <1>1, <1>4, <1>5 DEF Recruit, Thread, MaybeConfig
  <1>8. \A t \in Threads \ recruits : threads'[t] = before[t]
    BY <1>1
  <1>9. threads' \in [Threads -> Thread]
    BY <1>1, <1>7, <1>8
  <1>10. Alive' = Alive \cup recruits
    BY <1>1, <1>2, <1>7, <1>8 DEF Alive
  <1>11. Alive' = Alive \/ Cardinality(Alive') <= n
    <2>1. CASE Cardinality(Alive) + 1 > n
      BY <1>3, <1>6, <1>10, <2>1, FS_EmptySet
    <2>2. CASE ~(Cardinality(Alive) + 1 > n)
      <3>1. Cardinality(Alive \cap recruits) = 0
        <4>1. Alive \cap recruits = {}
          OBVIOUS
        <4> QED
          BY <4>1, FS_EmptySet
      <3>2. Cardinality(Alive \cup recruits) =
               Cardinality(Alive) + Cardinality(recruits) - Cardinality(Alive \cap recruits)
        BY <1>3, FS_Union
      <3>3. Cardinality(Alive \cup recruits) = n
        BY <1>4, <1>6, <2>2, <3>1, <3>2
      <3> QED
        BY <1>10, <3>3
    <2> QED
      BY <2>1, <2>2
  <1>12. ASSUME Alive = {}, n >= 1
         PROVE  \E t \in Alive' : threads'[t].slot = 1 /\ threads'[t].phase # "leaving"
    <2>1. Cardinality(Alive) = 0
      BY <1>12, FS_EmptySet
    <2>2. Cardinality(recruits) = n /\ NewSlots(n) = 1..n
      BY <1>5, <1>6, <1>12, <2>1
    <2>3. slot_of \in [recruits -> 1..n]
      BY <2>2
    <2>4. \A t, u \in recruits : slot_of[t] = slot_of[u] => t = u
      BY <1>1
    <2>5. \E t \in recruits : slot_of[t] = 1
      BY <1>3, <1>12, <2>2, <2>3, <2>4, SomebodyGetsSlotOne
    <2> QED
      BY <1>7, <1>10, <2>5
  <1> QED
    BY <1>1, <1>2, <1>7, <1>8, <1>9, <1>10, <1>11, <1>12


\* The same of reconcile(), which does nothing before start() and after stop().
LEMMA ReconcileEffect ==
    ASSUME TypeOK, NEW before \in [Threads -> Thread],
           \A t \in Threads : before[t].phase # "dead" <=> t \in Alive,
           Reconcile(before)
    PROVE  /\ threads' \in [Threads -> Thread]
           /\ pool' \subseteq Threads
           /\ Alive' \subseteq pool'
           /\ \A t \in Alive : t \in Alive' /\ threads'[t] = before[t]
           /\ \A t \in Threads : threads'[t] = before[t] \/ threads'[t].phase = "top"
           /\ \A t \in Threads :
                 threads'[t] = before[t] \/ threads'[t].slot <= desired_concurrency
           /\ Alive' = Alive \/ \E c \in Configs : Cardinality(Alive') <= c.worker_concurrency
  <1>1. config \in Configs /\ desired_concurrency \in Nat
    BY ConcurrencyPositive DEF TypeOK, desired_concurrency
  <1>2. CASE Started
    <2>1. EnsureThreads(desired_concurrency, before)
      BY <1>2 DEF Reconcile
    <2> QED
      BY <1>1, <2>1, EnsureThreadsEffect DEF desired_concurrency
  <1>3. CASE ~Started
    <2>1. threads' = before /\ pool' = pool
      BY <1>3 DEF Reconcile
    <2>2. Alive' = Alive
      BY <2>1 DEF Alive
    <2> QED
      BY <2>1, <2>2 DEF TypeOK, Alive
  <1> QED
    BY <1>2, <1>3

-----------------------------------------------------------------------------
(* The invariant *)

LEMMA InitInvariant == Init => IInv
  <1> SUFFICES ASSUME Init PROVE IInv
    OBVIOUS
  <1>1. NoThread \in Thread /\ NoRequest \in Request /\ NoThread.phase = "dead"
    BY DEF NoThread, NoRequest, Thread, Request, MaybeConfig
  <1>2. Alive = {}
    BY <1>1 DEF Init, Alive
  <1>3. TypeOK
    BY <1>1, <1>2, PoolAssumption DEF Init, TypeOK
  <1>4. ThreadsBounded
    <2>1. PICK c \in Configs : TRUE
      BY PoolAssumption
    <2>2. Cardinality(Alive) = 0
      BY <1>2, FS_EmptySet
    <2> QED
      BY <2>1, <2>2, ConcurrencyPositive DEF ThreadsBounded
  <1>5. ReadingsHeld
    BY <1>1 DEF Init, ReadingsHeld, NoRequest
  <1> QED
    BY <1>2, <1>3, <1>4, <1>5 DEF Init, IInv, NoThreadBeforeStart, FirstSlotServes, Running

\* What a step has to keep: nothing starts before start(), threads are added up to what
\* some configuration asks for, and a thread that serves slot 1 goes on, unless the
\* pool stops or a database error happens.
LEMMA StepKeeps ==
    ASSUME IInv, TypeOK', ReadingsHeld',
           lifecycle' = "new" => lifecycle = "new" /\ Alive' \subseteq Alive,
           \/ Alive' \subseteq Alive
           \/ \E c \in Configs : Cardinality(Alive') <= c.worker_concurrency,
           Running' /\ failures' = 0 =>
              /\ Running /\ failures = 0
              /\ \A t \in Alive : Slot(t) = 1 /\ threads[t].phase # "leaving" =>
                    /\ t \in Alive'
                    /\ threads'[t].slot = 1
                    /\ threads'[t].phase # "leaving"
    PROVE  IInv'
  <1>1. NoThreadBeforeStart'
    BY DEF IInv, NoThreadBeforeStart
  <1>2. ThreadsBounded'
    <2>1. CASE Alive' \subseteq Alive
      <3>1. PICK c \in Configs : Cardinality(Alive) <= c.worker_concurrency
        BY DEF IInv, ThreadsBounded
      <3>2. IsFiniteSet(Alive)
        BY PoolAssumption, FS_Subset DEF Alive
      <3>3. /\ Cardinality(Alive') <= Cardinality(Alive)
            /\ Cardinality(Alive') \in Nat
            /\ Cardinality(Alive) \in Nat
        BY <2>1, <3>2, FS_Subset, FS_CardinalityType
      <3>4. c.worker_concurrency \in Nat
        BY ConcurrencyPositive
      <3> QED
        BY <3>1, <3>3, <3>4 DEF ThreadsBounded
    <2>2. CASE \E c \in Configs : Cardinality(Alive') <= c.worker_concurrency
      BY <2>2 DEF ThreadsBounded
    <2> QED
      BY <2>1, <2>2
  <1>3. FirstSlotServes'
    <2> SUFFICES ASSUME Running', failures' = 0
                 PROVE  \E t \in Alive' : threads'[t].slot = 1 /\ threads'[t].phase # "leaving"
      BY DEF FirstSlotServes, Slot
    <2>1. PICK t \in Alive : Slot(t) = 1 /\ threads[t].phase # "leaving"
      BY DEF IInv, FirstSlotServes
    <2> QED
      BY <2>1
  <1> QED
    BY <1>1, <1>2, <1>3 DEF IInv

\* A step that moves one thread, by a record the caller names, and no thread of slot 1
\* to "leaving" while the pool runs.
LEMMA MoveKeeps ==
    ASSUME IInv, NEW t \in Alive, NEW r \in Thread,
           threads' = [threads EXCEPT ![t] = r],
           r.slot = Slot(t),
           r.phase # "dead",
           r.phase \in {"read", "compared"} => r.read \in Configs,
           Running /\ Slot(t) = 1 => r.phase # "leaving",
           config' \in Configs,
           UNCHANGED <<shared, lifecycle, pool, sync_due, requests, failures>>
    PROVE  IInv'
  <1>1. /\ Alive \subseteq Threads
        /\ threads \in [Threads -> Thread]
    BY DEF IInv, TypeOK, Alive
  <1>2. /\ threads'[t] = r
        /\ \A u \in Threads : u # t => threads'[u] = threads[u]
        /\ threads' \in [Threads -> Thread]
    BY <1>1
  <1>3. Alive' = Alive
    BY <1>1, <1>2 DEF Alive
  <1>4. TypeOK'
    BY <1>2, <1>3 DEF IInv, TypeOK
  <1>5. \A u \in Alive : Slot(u) = 1 /\ threads[u].phase # "leaving" /\ Running =>
           threads'[u].slot = 1 /\ threads'[u].phase # "leaving"
    BY <1>1, <1>2 DEF Slot
  <1>6. ReadingsHeld'
    BY <1>2 DEF IInv, ReadingsHeld
  <1> QED
    BY <1>3, <1>4, <1>5, <1>6, StepKeeps DEF Running

\* A step that leaves the threads alone.
LEMMA QuietKeeps ==
    ASSUME IInv, TypeOK', ReadingsHeld', UNCHANGED threads,
           lifecycle' = "new" => lifecycle = "new",
           Running' /\ failures' = 0 => Running /\ failures = 0
    PROVE  IInv'
  <1>1. Alive' = Alive
    BY DEF Alive
  <1> QED
    BY <1>1, StepKeeps DEF Slot

\* A thread that has left its loop, or has met a database error, ends.
LEMMA EndKeeps ==
    ASSUME IInv, NEW t \in Threads,
           threads' = [threads EXCEPT ![t] = NoThread],
           failures' \in 0..MaxFailures,
           threads[t].phase = "leaving" \/ failures' # 0,
           failures' = 0 => failures = 0,
           UNCHANGED <<shared, config, lifecycle, pool, sync_due, requests>>
    PROVE  IInv'
  <1>1. NoThread \in Thread /\ NoThread.phase = "dead"
    BY DEF NoThread, Thread, MaybeConfig
  <1>2. /\ threads \in [Threads -> Thread]
        /\ threads'[t] = NoThread
        /\ \A u \in Threads : u # t => threads'[u] = threads[u]
    BY DEF IInv, TypeOK
  <1>3. Alive' \subseteq Alive
    BY <1>1, <1>2 DEF Alive
  <1>4. TypeOK'
    BY <1>1, <1>2, <1>3 DEF IInv, TypeOK
  <1>5. ASSUME failures' = 0, NEW u \in Alive, threads[u].phase # "leaving"
        PROVE  u \in Alive' /\ threads'[u] = threads[u]
    BY <1>2, <1>5 DEF Alive
  <1>6. ReadingsHeld'
    BY <1>1, <1>2 DEF IInv, ReadingsHeld
  <1> QED
    BY <1>3, <1>4, <1>5, <1>6, StepKeeps DEF Running, Slot

\* A step that reconciles the pool, after it may have moved one thread.
LEMMA ReconcileKeeps ==
    ASSUME IInv, NEW before \in [Threads -> Thread],
           \A t \in Threads :
              /\ before[t].phase # "dead" <=> t \in Alive
              /\ before[t].slot = Slot(t)
              /\ before[t].phase = "leaving" => threads[t].phase = "leaving"
              /\ before[t].phase \notin {"read", "compared"} \/ before[t] = threads[t],
           Reconcile(before),
           failures' \in 0..MaxFailures,
           failures' = 0 => failures = 0,
           sync_due' \in BOOLEAN,
           requests' \in [Requests -> Request],
           \A r \in Requests : requests'[r].phase = "read" => requests'[r] = requests[r],
           UNCHANGED <<shared, config, lifecycle>>
    PROVE  IInv'
  <1>1. /\ threads' \in [Threads -> Thread]
        /\ pool' \subseteq Threads
        /\ Alive' \subseteq pool'
        /\ \A t \in Alive : t \in Alive' /\ threads'[t] = before[t]
        /\ \A t \in Threads : threads'[t] = before[t] \/ threads'[t].phase = "top"
        /\ Alive' = Alive \/ \E c \in Configs : Cardinality(Alive') <= c.worker_concurrency
    BY ReconcileEffect DEF IInv
  <1>2. TypeOK'
    BY <1>1 DEF IInv, TypeOK
  <1>3. lifecycle = "new" => Alive' = Alive
    <2>1. ASSUME lifecycle = "new"
          PROVE  threads' = before
      BY <2>1 DEF Reconcile, Started
    <2> QED
      BY <2>1 DEF Alive
  <1>4. Alive \subseteq Threads
    BY DEF Alive
  <1>5. \A t \in Alive : Slot(t) = 1 /\ threads[t].phase # "leaving" =>
           t \in Alive' /\ threads'[t].slot = 1 /\ threads'[t].phase # "leaving"
    BY <1>1, <1>4
  <1>6. ReadingsHeld'
    BY <1>1 DEF IInv, ReadingsHeld
  <1> QED
    BY <1>1, <1>2, <1>3, <1>5, <1>6, StepKeeps DEF Running

-----------------------------------------------------------------------------
(* The actions *)

LEMMA RequestsKeep ==
    ASSUME IInv, NEW r \in Requests, BeginRequest(r) \/ RequestStep(r)
    PROVE  IInv'
  <1>1. /\ NoRequest \in Request
        /\ NoRequest.phase = "idle"
        /\ \A phase \in {"read", "reconcile"}, patch \in BOOLEAN, c \in MaybeConfig :
              /\ [phase |-> phase, patch |-> patch, read |-> c] \in Request
              /\ [phase |-> phase, patch |-> patch, read |-> c].phase = phase
              /\ [phase |-> phase, patch |-> patch, read |-> c].read = c
    BY DEF NoRequest, Request, MaybeConfig
  <1>2. CASE BeginRequest(r)
    <2>1. PICK c \in Configs, patch \in BOOLEAN :
             /\ requests' = [requests EXCEPT ![r] =
                                [phase |-> "read", patch |-> patch, read |-> c]]
             /\ shared' \in Configs
      BY <1>2 DEF BeginRequest, IInv, TypeOK
    <2>2. /\ requests' \in [Requests -> Request]
          /\ requests'[r].phase = "read" => requests'[r].read \in Configs
          /\ \A q \in Requests : q # r => requests'[q] = requests[q]
      BY <1>1, <2>1 DEF IInv, TypeOK, MaybeConfig
    <2>3. TypeOK' /\ ReadingsHeld'
      BY <1>2, <2>1, <2>2 DEF BeginRequest, IInv, TypeOK, Alive, ReadingsHeld
    <2> QED
      BY <1>2, <2>3, QuietKeeps DEF BeginRequest, Running
  <1>3. CASE ReplaceConfig(r)
    <2>1. requests[r].read \in Configs
      BY <1>3 DEF ReplaceConfig, IInv, ReadingsHeld
    <2>2. /\ requests' \in [Requests -> Request]
          /\ requests'[r].phase # "read"
          /\ \A q \in Requests : q # r => requests'[q] = requests[q]
      BY <1>1, <1>3, ZenonT(60) DEF ReplaceConfig, IInv, TypeOK, MaybeConfig
    <2>3. TypeOK' /\ ReadingsHeld'
      BY <1>3, <2>1, <2>2 DEF ReplaceConfig, IInv, TypeOK, Alive, ReadingsHeld
    <2> QED
      BY <1>3, <2>3, QuietKeeps DEF ReplaceConfig, Running
  <1>4. CASE ReconcileRequest(r)
    <2>1. /\ threads \in [Threads -> Thread]
          /\ failures \in 0..MaxFailures
          /\ sync_due \in BOOLEAN
          /\ requests' \in [Requests -> Request]
          /\ \A q \in Requests : requests'[q].phase = "read" => requests'[q] = requests[q]
      BY <1>1, <1>4 DEF ReconcileRequest, IInv, TypeOK
    <2> QED
      BY <1>4, <2>1, ReconcileKeeps DEF ReconcileRequest, Alive, Slot
  <1> QED
    BY <1>2, <1>3, <1>4 DEF RequestStep

LEMMA LifecycleKeeps ==
    ASSUME IInv, PatchElsewhere \/ Start \/ BeginStop \/ FinishStop \/ SyncFallsDue
    PROVE  IInv'
  <1>1. CASE PatchElsewhere
    <2>1. TypeOK' /\ ReadingsHeld'
      BY <1>1 DEF PatchElsewhere, IInv, TypeOK, Alive, ReadingsHeld
    <2> QED
      BY <1>1, <2>1, QuietKeeps DEF PatchElsewhere, Running
  <1>2. CASE Start
    <2>1. /\ shared \in Configs
          /\ shared.worker_concurrency \in Nat
          /\ shared.worker_concurrency >= 1
      BY ConcurrencyPositive DEF IInv, TypeOK
    <2>2. /\ TypeOK
          /\ threads \in [Threads -> Thread]
          /\ Alive = {}
          /\ \A t \in Threads : threads[t].phase # "dead" <=> t \in Alive
          /\ EnsureThreads(shared.worker_concurrency, threads)
      BY <1>2 DEF Start, IInv, TypeOK, NoThreadBeforeStart, Alive
    <2>3. /\ threads' \in [Threads -> Thread]
          /\ pool' \subseteq Threads
          /\ Alive' \subseteq pool'
          /\ \A t \in Threads : threads'[t] = threads[t] \/ threads'[t].phase = "top"
          /\ Alive' = Alive \/ Cardinality(Alive') <= shared.worker_concurrency
          /\ \E t \in Alive' : threads'[t].slot = 1 /\ threads'[t].phase # "leaving"
      BY <2>1, <2>2, EnsureThreadsEffect
    <2>4. TypeOK'
      BY <1>2, <2>1, <2>3 DEF Start, IInv, TypeOK
    <2>5. ReadingsHeld'
      BY <1>2, <2>3 DEF Start, IInv, ReadingsHeld
    <2>6. ThreadsBounded'
      BY <2>1, <2>3 DEF IInv, ThreadsBounded
    <2>7. FirstSlotServes' /\ NoThreadBeforeStart'
      BY <1>2, <2>3 DEF Start, FirstSlotServes, Slot, NoThreadBeforeStart
    <2> QED
      BY <2>4, <2>5, <2>6, <2>7 DEF IInv
  <1>3. CASE BeginStop
    <2>1. TypeOK' /\ ReadingsHeld'
      BY <1>3 DEF BeginStop, IInv, TypeOK, Alive, ReadingsHeld
    <2> QED
      BY <1>3, <2>1, QuietKeeps DEF BeginStop, Running
  <1>4. CASE FinishStop
    <2>1. TypeOK' /\ ReadingsHeld'
      BY <1>4 DEF FinishStop, IInv, TypeOK, Alive, ReadingsHeld
    <2> QED
      BY <1>4, <2>1, QuietKeeps DEF FinishStop, Running
  <1>5. CASE SyncFallsDue
    <2>1. TypeOK' /\ ReadingsHeld'
      BY <1>5 DEF SyncFallsDue, IInv, TypeOK, Alive, ReadingsHeld
    <2> QED
      BY <1>5, <2>1, QuietKeeps DEF SyncFallsDue, Running
  <1> QED
    BY <1>1, <1>2, <1>3, <1>4, <1>5

\* What the record of a moved thread looks like.
LEMMA PlaceFacts ==
    ASSUME TypeOK, NEW t \in Threads, NEW phase \in Phases, NEW read \in MaybeConfig
    PROVE  \E r \in Thread :
              /\ Place(t, phase, read) = [threads EXCEPT ![t] = r]
              /\ r.phase = phase /\ r.slot = Slot(t) /\ r.read = read
  <1> DEFINE r == [phase |-> phase, slot |-> Slot(t), read |-> read, changed |-> FALSE]
  <1>1. Slot(t) \in Nat
    BY DEF TypeOK, Slot, Thread
  <1>2. r \in Thread
    BY <1>1 DEF Thread
  <1>3. Place(t, phase, read) = [threads EXCEPT ![t] = r]
    BY DEF Place
  <1>4. r.phase = phase /\ r.slot = Slot(t) /\ r.read = read
    OBVIOUS
  <1> HIDE DEF r
  <1> QED
    BY <1>2, <1>3, <1>4

\* A thread that goes to a phase where it holds no configuration.
LEMMA GotoKeeps ==
    ASSUME IInv, NEW t \in Alive, NEW phase \in {"top", "synced", "working", "leaving"},
           threads' = Goto(t, phase),
           Running /\ Slot(t) = 1 => phase # "leaving",
           UNCHANGED <<shared, config, lifecycle, pool, sync_due, requests, failures>>
    PROVE  IInv'
  <1>1. t \in Threads /\ phase \in Phases /\ NoConfig \in MaybeConfig /\ config' \in Configs
    BY DEF IInv, TypeOK, Alive, MaybeConfig
  <1>2. PICK r \in Thread :
           /\ threads' = [threads EXCEPT ![t] = r]
           /\ r.phase = phase /\ r.slot = Slot(t)
    BY <1>1, PlaceFacts DEF Goto, IInv
  <1>3. phase # "dead" /\ phase \notin {"read", "compared"}
    OBVIOUS
  <1> QED
    BY <1>1, <1>2, <1>3, MoveKeeps

\* A thread that goes back to its slot, as reconcile() finds it.
LEMMA GotoSyncedBefore ==
    ASSUME IInv, NEW t \in Alive
    PROVE  /\ Goto(t, "synced") \in [Threads -> Thread]
           /\ \A u \in Threads :
                 LET b == Goto(t, "synced")[u]
                 IN  /\ b.phase # "dead" <=> u \in Alive
                     /\ b.slot = Slot(u)
                     /\ b.phase = "leaving" => threads[u].phase = "leaving"
                     /\ b.phase \notin {"read", "compared"} \/ b = threads[u]
  <1>1. t \in Threads /\ "synced" \in Phases /\ NoConfig \in MaybeConfig /\ TypeOK
    BY DEF IInv, Alive, MaybeConfig
  <1>2. PICK r \in Thread :
           /\ Goto(t, "synced") = [threads EXCEPT ![t] = r]
           /\ r.phase = "synced" /\ r.slot = Slot(t)
    BY <1>1, PlaceFacts DEF Goto
  <1>3. /\ Goto(t, "synced") \in [Threads -> Thread]
        /\ Goto(t, "synced")[t] = r
        /\ \A u \in Threads : u # t => Goto(t, "synced")[u] = threads[u]
    BY <1>1, <1>2 DEF TypeOK
  <1> HIDE DEF Goto
  <1> QED
    BY <1>1, <1>2, <1>3 DEF Alive, Slot

LEMMA SyncKeeps ==
    ASSUME IInv, NEW t \in Threads,
           CompareConfig(t) \/ CopyConfig(t) \/ FinishSync(t) \/ SyncFails(t)
    PROVE  IInv'
  <1>1. /\ t \in Alive
        /\ threads \in [Threads -> Thread]
        /\ Slot(t) \in Nat
        /\ threads[t].read \in MaybeConfig
        /\ config \in Configs
        /\ failures \in 0..MaxFailures /\ MaxFailures \in Nat
        /\ sync_due \in BOOLEAN
        /\ requests \in [Requests -> Request]
    BY PoolAssumption
    DEF CompareConfig, CopyConfig, FinishSync, SyncFails, IInv, TypeOK, Alive, Slot, Thread
  <1>2. CASE CompareConfig(t)
    <2> DEFINE r == [phase |-> "compared", slot |-> Slot(t), read |-> threads[t].read,
                     changed |-> threads[t].read # config]
    <2>1. r \in Thread
      BY <1>1 DEF Thread
    <2>2. threads' = [threads EXCEPT ![t] = r]
      BY <1>2 DEF CompareConfig
    <2>3. r.slot = Slot(t) /\ r.phase = "compared" /\ r.read \in Configs
      BY <1>2 DEF CompareConfig, IInv, ReadingsHeld
    <2> HIDE DEF r
    <2> QED
      BY <1>1, <1>2, <2>1, <2>2, <2>3, MoveKeeps DEF CompareConfig
  <1>3. CASE CopyConfig(t)
    <2> DEFINE r == [threads[t] EXCEPT !.phase = "replaced"]
    <2>1. r \in Thread /\ r.slot = Slot(t) /\ r.phase = "replaced"
      BY <1>1 DEF Thread, Slot
    <2>2. threads' = [threads EXCEPT ![t] = r]
      BY <1>3 DEF CopyConfig
    <2>3. config' \in Configs
      BY <1>3 DEF CopyConfig, IInv, ReadingsHeld
    <2> HIDE DEF r
    <2> QED
      BY <1>1, <1>3, <2>1, <2>2, <2>3, MoveKeeps DEF CopyConfig
  <1>4. ASSUME Reconcile(Goto(t, "synced")),
               failures' \in 0..MaxFailures,
               failures' = 0 => failures = 0,
               sync_due' \in BOOLEAN,
               UNCHANGED <<shared, config, lifecycle, requests>>
        PROVE  IInv'
    <2> DEFINE before == Goto(t, "synced")
    <2>1. /\ before \in [Threads -> Thread]
          /\ \A u \in Threads :
                /\ before[u].phase # "dead" <=> u \in Alive
                /\ before[u].slot = Slot(u)
                /\ before[u].phase = "leaving" => threads[u].phase = "leaving"
                /\ before[u].phase \notin {"read", "compared"} \/ before[u] = threads[u]
      BY <1>1, GotoSyncedBefore
    <2>2. Reconcile(before)
      BY <1>4
    <2> HIDE DEF before
    <2> QED
      BY <1>1, <1>4, <2>1, <2>2, ReconcileKeeps
  <1>5. ASSUME threads' = Goto(t, "synced"),
               pool' = pool \/ pool' = pool \cap Alive,
               failures' \in 0..MaxFailures,
               failures' = 0 => failures = 0,
               sync_due' \in BOOLEAN,
               UNCHANGED <<shared, config, lifecycle, requests>>
        PROVE  IInv'
    <2>1. /\ threads' \in [Threads -> Thread]
          /\ \A u \in Threads :
                /\ threads'[u].phase # "dead" <=> u \in Alive
                /\ threads'[u].slot = Slot(u)
                /\ threads'[u].phase = "leaving" => threads[u].phase = "leaving"
                /\ threads'[u].phase \notin {"read", "compared"} \/ threads'[u] = threads[u]
      BY <1>1, <1>5, GotoSyncedBefore
    <2>2. Alive' = Alive /\ Alive \subseteq Threads
      BY <2>1 DEF Alive
    <2>3. TypeOK' /\ ReadingsHeld'
      BY <1>5, <2>1, <2>2 DEF IInv, TypeOK, ReadingsHeld
    <2> QED
      BY <1>5, <2>1, <2>2, <2>3, StepKeeps DEF Running
  <1>6. CASE FinishSync(t)
    BY <1>1, <1>4, <1>5, <1>6 DEF FinishSync
  <1>7. CASE SyncFails(t)
    <2>1. /\ failures' \in 0..MaxFailures
          /\ failures' # 0
      BY <1>1, <1>7 DEF SyncFails
    <2> QED
      BY <1>1, <1>4, <1>5, <1>7, <2>1 DEF SyncFails
  <1> QED
    BY <1>2, <1>3, <1>6, <1>7

LEMMA RoundKeeps ==
    ASSUME IInv, NEW t \in Threads,
           \/ BeginRound(t) \/ CheckSlot(t) \/ FinishRound(t)
           \/ Exit(t) \/ DieOfException(t)
    PROVE  IInv'
  <1>1. /\ t \in Alive
        /\ NoConfig \in MaybeConfig /\ Configs \subseteq MaybeConfig
        /\ shared \in Configs /\ config \in Configs
        /\ failures \in 0..MaxFailures /\ MaxFailures \in Nat
        /\ TypeOK
    BY PoolAssumption
    DEF BeginRound, CheckSlot, FinishRound, Exit, DieOfException, IInv, TypeOK, Alive, MaybeConfig
  <1>2. CASE BeginRound(t)
    <2>1. CASE threads' = Goto(t, "leaving") /\ StopEvent
      BY <1>1, <1>2, <2>1, GotoKeeps DEF BeginRound, StopEvent, Running
    <2>2. CASE threads' = Place(t, "read", shared)
      <3>1. PICK r \in Thread :
               /\ threads' = [threads EXCEPT ![t] = r]
               /\ r.phase = "read" /\ r.slot = Slot(t) /\ r.read = shared
        BY <1>1, <2>2, PlaceFacts
      <3> QED
        BY <1>1, <1>2, <3>1, MoveKeeps DEF BeginRound
    <2>3. CASE threads' = Goto(t, "synced")
      BY <1>1, <1>2, <2>3, GotoKeeps DEF BeginRound
    <2> QED
      BY <1>2, <2>1, <2>2, <2>3 DEF BeginRound
  <1>3. CASE CheckSlot(t)
    <2>1. CASE Surplus(t)
      <3>1. Slot(t) # 1
        BY <1>1, <2>1, ConcurrencyPositive DEF Surplus, desired_concurrency
      <3> QED
        BY <1>1, <1>3, <2>1, <3>1, GotoKeeps DEF CheckSlot
    <2>2. CASE ~Surplus(t)
      BY <1>1, <1>3, <2>2, GotoKeeps DEF CheckSlot
    <2> QED
      BY <2>1, <2>2
  <1>4. CASE FinishRound(t)
    BY <1>1, <1>4, GotoKeeps DEF FinishRound
  <1>5. CASE Exit(t)
    BY <1>1, <1>5, EndKeeps DEF Exit
  <1>6. CASE DieOfException(t)
    <2>1. failures' \in 0..MaxFailures /\ failures' # 0
      BY <1>1, <1>6 DEF DieOfException
    <2> QED
      BY <1>1, <1>6, <2>1, EndKeeps DEF DieOfException
  <1> QED
    BY <1>2, <1>3, <1>4, <1>5, <1>6

LEMMA NextKeeps == IInv /\ [Next]_vars => IInv'
  <1> SUFFICES ASSUME IInv, [Next]_vars PROVE IInv'
    OBVIOUS
  <1>1. CASE UNCHANGED vars
    <2>1. TypeOK' /\ ReadingsHeld'
      BY <1>1 DEF vars, IInv, TypeOK, Alive, ReadingsHeld
    <2> QED
      BY <1>1, <2>1, QuietKeeps DEF vars, Running
  <1>2. CASE Next
    BY <1>2, RequestsKeep, LifecycleKeeps, SyncKeeps, RoundKeeps DEF Next, LoopStep
  <1> QED
    BY <1>1, <1>2

-----------------------------------------------------------------------------
(* The theorems *)

\* IInv holds in every reachable state of the pool (app/worker.py, WorkerPool).
THEOREM Invariance == Spec => []IInv
  BY InitInvariant, NextKeeps, PTL DEF Spec

\* Whatever the number of threads: the state of the pool stays well typed, and no live
\* thread is missing from _threads, where stop() looks for threads to join.
THEOREM TypeCorrectness == Spec => []TypeOK
  <1>1. IInv => TypeOK
    BY DEF IInv
  <1> QED
    BY <1>1, Invariance, PTL

\* reconcile(), the synchronisation of the threads and PATCH /config together never
\* take the process above the largest worker_concurrency ever configured.
THEOREM ThreadsBoundedTheorem == Spec => []ThreadsBounded
  <1>1. IInv => ThreadsBounded
    BY DEF IInv
  <1> QED
    BY <1>1, Invariance, PTL

\* While the pool runs and the database answers, _worker_loop of slot 1 goes on.
THEOREM FirstSlotServesTheorem == Spec => []FirstSlotServes
  <1>1. IInv => FirstSlotServes
    BY DEF IInv
  <1> QED
    BY <1>1, Invariance, PTL

-----------------------------------------------------------------------------
(* The configuration settles *)

\* What a step of a settled pool does: nobody gets another configuration to copy, and
\* a thread above the limit was there before.
Settles(c) ==
    /\ config' = c
    /\ \A r \in Requests : requests'[r].phase = "read" => requests'[r].read = c
    /\ \A t \in Threads : threads'[t].phase \in {"read", "compared"} => threads'[t].read = c
    /\ \A t \in Threads :
          threads'[t].phase # "dead" /\ threads'[t].slot > c.worker_concurrency =>
             threads[t].phase # "dead" /\ Slot(t) > c.worker_concurrency

\* A thread that moves on keeps its slot and the configuration it has read, if any.
LEMMA MoveSettles ==
    ASSUME TypeOK, NEW c \in Configs, SettledOn(c), config' = c, UNCHANGED requests,
           NEW t \in Threads, NEW r \in Thread,
           threads' = [threads EXCEPT ![t] = r],
           r.phase \in {"read", "compared"} => r.read = c,
           r.phase # "dead" => threads[t].phase # "dead" /\ r.slot = Slot(t)
    PROVE  Settles(c)
  <1>1. /\ threads'[t] = r
        /\ \A u \in Threads : u # t => threads'[u] = threads[u]
    BY DEF TypeOK
  <1> QED
    BY <1>1 DEF Settles, SettledOn, Slot

\* Threads that reconcile() starts have slots up to the configured number.
LEMMA ReconcileSettles ==
    ASSUME TypeOK, NEW c \in Configs, SettledOn(c), UNCHANGED config,
           \A r \in Requests : requests'[r].phase = "read" => requests'[r] = requests[r],
           NEW before \in [Threads -> Thread],
           \A t \in Threads :
              /\ before[t].phase # "dead" <=> t \in Alive
              /\ before[t].slot = Slot(t)
              /\ before[t].phase \notin {"read", "compared"} \/ before[t] = threads[t],
           Reconcile(before)
    PROVE  Settles(c)
  <1>1. /\ threads' \in [Threads -> Thread]
        /\ \A t \in Threads : threads'[t] = before[t] \/ threads'[t].phase = "top"
        /\ \A t \in Threads : threads'[t] = before[t] \/ threads'[t].slot <= c.worker_concurrency
    BY ReconcileEffect DEF SettledOn, desired_concurrency
  <1>2. c.worker_concurrency \in Nat
    BY ConcurrencyPositive
  <1>3. \A t \in Threads : threads'[t].slot \in Nat
    BY <1>1 DEF Thread
  <1>4. ASSUME NEW t \in Threads,
               threads'[t].phase # "dead", threads'[t].slot > c.worker_concurrency
        PROVE  threads[t].phase # "dead" /\ Slot(t) > c.worker_concurrency
    <2>1. threads'[t] = before[t]
      BY <1>1, <1>2, <1>3, <1>4
    <2> QED
      BY <1>4, <2>1 DEF Alive
  <1>5. \A t \in Threads : threads'[t].phase \in {"read", "compared"} => threads'[t] = threads[t]
    BY <1>1
  <1> QED
    BY <1>4, <1>5 DEF Settles, SettledOn

LEMMA RequestSettles ==
    ASSUME TypeOK, NEW c \in Configs, SettledOn(c), shared' = c,
           NEW r \in Requests, BeginRequest(r) \/ RequestStep(r)
    PROVE  Settles(c)
  <1>1. /\ requests \in [Requests -> Request]
        /\ threads \in [Threads -> Thread]
        /\ NoRequest.phase = "idle"
    BY DEF TypeOK, NoRequest
  <1>2. CASE BeginRequest(r)
    <2>1. /\ requests'[r].read = c
          /\ \A q \in Requests : q # r => requests'[q] = requests[q]
      BY <1>1, <1>2 DEF BeginRequest, SettledOn
    <2> QED
      BY <1>2, <2>1 DEF BeginRequest, Settles, SettledOn, Slot
  <1>3. CASE ReplaceConfig(r)
    <2>1. /\ requests'[r].phase # "read"
          /\ \A q \in Requests : q # r => requests'[q] = requests[q]
      BY <1>1, <1>3 DEF ReplaceConfig
    <2> QED
      BY <1>3, <2>1 DEF ReplaceConfig, Settles, SettledOn, Slot
  <1>4. CASE ReconcileRequest(r)
    <2>1. \A q \in Requests : requests'[q].phase = "read" => requests'[q] = requests[q]
      BY <1>1, <1>4 DEF ReconcileRequest
    <2> QED
      BY <1>1, <1>4, <2>1, ReconcileSettles DEF ReconcileRequest, Alive, Slot
  <1> QED
    BY <1>2, <1>3, <1>4 DEF RequestStep

\* A thread that goes where it holds no configuration.
LEMMA GotoSettles ==
    ASSUME TypeOK, NEW c \in Configs, SettledOn(c), config' = c, UNCHANGED requests,
           NEW t \in Alive, NEW phase \in {"top", "synced", "working", "leaving"},
           threads' = Goto(t, phase)
    PROVE  Settles(c)
  <1>1. t \in Threads /\ phase \in Phases /\ NoConfig \in MaybeConfig
    BY DEF Alive, MaybeConfig
  <1>2. PICK r \in Thread :
           /\ threads' = [threads EXCEPT ![t] = r]
           /\ r.phase = phase /\ r.slot = Slot(t)
    BY <1>1, PlaceFacts DEF Goto
  <1> QED
    BY <1>1, <1>2, MoveSettles DEF Alive

LEMMA SyncSettles ==
    ASSUME IInv, NEW c \in Configs, SettledOn(c), NEW t \in Threads,
           CompareConfig(t) \/ CopyConfig(t) \/ FinishSync(t) \/ SyncFails(t)
    PROVE  Settles(c)
  <1>1. /\ TypeOK
        /\ t \in Alive
        /\ threads \in [Threads -> Thread]
        /\ Slot(t) \in Nat
        /\ threads[t].read \in MaybeConfig
    BY DEF CompareConfig, CopyConfig, FinishSync, SyncFails, IInv, TypeOK, Alive, Slot, Thread
  <1>2. CASE CompareConfig(t)
    <2> DEFINE r == [phase |-> "compared", slot |-> Slot(t), read |-> threads[t].read,
                     changed |-> threads[t].read # config]
    <2>1. r \in Thread
      BY <1>1 DEF Thread
    <2>2. threads' = [threads EXCEPT ![t] = r]
      BY <1>2 DEF CompareConfig
    <2>3. r.slot = Slot(t) /\ r.read = c
      BY <1>2 DEF CompareConfig, SettledOn
    <2>4. config' = c /\ UNCHANGED requests
      BY <1>2 DEF CompareConfig, SettledOn
    <2> HIDE DEF r
    <2> QED
      BY <1>1, <2>1, <2>2, <2>3, <2>4, MoveSettles DEF Alive
  <1>3. CASE CopyConfig(t)
    <2> DEFINE r == [threads[t] EXCEPT !.phase = "replaced"]
    <2>1. r \in Thread /\ r.slot = Slot(t) /\ r.phase = "replaced"
      BY <1>1 DEF Thread, Slot
    <2>2. threads' = [threads EXCEPT ![t] = r]
      BY <1>3 DEF CopyConfig
    <2>3. config' = c /\ UNCHANGED requests
      BY <1>3 DEF CopyConfig, SettledOn
    <2> HIDE DEF r
    <2> QED
      BY <1>1, <2>1, <2>2, <2>3, MoveSettles DEF Alive
  <1>4. ASSUME Reconcile(Goto(t, "synced")), UNCHANGED <<config, requests>>
        PROVE  Settles(c)
    <2> DEFINE before == Goto(t, "synced")
    <2>1. /\ before \in [Threads -> Thread]
          /\ \A u \in Threads :
                /\ before[u].phase # "dead" <=> u \in Alive
                /\ before[u].slot = Slot(u)
                /\ before[u].phase \notin {"read", "compared"} \/ before[u] = threads[u]
      BY <1>1, GotoSyncedBefore
    <2>2. Reconcile(before)
      BY <1>4
    <2> HIDE DEF before
    <2> QED
      BY <1>1, <1>4, <2>1, <2>2, ReconcileSettles
  <1>5. ASSUME threads' = Goto(t, "synced"), UNCHANGED <<config, requests>>
        PROVE  Settles(c)
    <2>1. config' = c
      BY <1>5 DEF SettledOn
    <2> QED
      BY <1>1, <1>5, <2>1, GotoSettles
  <1>6. CASE FinishSync(t)
    BY <1>4, <1>5, <1>6 DEF FinishSync
  <1>7. CASE SyncFails(t)
    BY <1>4, <1>5, <1>7 DEF SyncFails
  <1> QED
    BY <1>2, <1>3, <1>6, <1>7

LEMMA RoundSettles ==
    ASSUME IInv, NEW c \in Configs, SettledOn(c), NEW t \in Threads,
           \/ BeginRound(t) \/ CheckSlot(t) \/ FinishRound(t)
           \/ Exit(t) \/ DieOfException(t)
    PROVE  Settles(c)
  <1>1. /\ TypeOK
        /\ t \in Alive
        /\ Configs \subseteq MaybeConfig
        /\ shared = c
        /\ config' = c
        /\ UNCHANGED requests
    BY DEF BeginRound, CheckSlot, FinishRound, Exit, DieOfException, IInv, SettledOn,
           Alive, MaybeConfig
  <1>2. CASE threads' = Place(t, "read", shared)
    <2>1. PICK r \in Thread :
             /\ threads' = [threads EXCEPT ![t] = r]
             /\ r.phase = "read" /\ r.slot = Slot(t) /\ r.read = shared
      BY <1>1, <1>2, PlaceFacts
    <2> QED
      BY <1>1, <2>1, MoveSettles DEF Alive
  <1>3. CASE threads' = [threads EXCEPT ![t] = NoThread]
    <2>1. NoThread \in Thread /\ NoThread.phase = "dead"
      BY DEF NoThread, Thread, MaybeConfig
    <2> QED
      BY <1>1, <1>3, <2>1, MoveSettles DEF Alive
  <1>4. CASE \E phase \in {"top", "synced", "working", "leaving"} : threads' = Goto(t, phase)
    BY <1>1, <1>4, GotoSettles
  <1> QED
    BY <1>2, <1>3, <1>4 DEF BeginRound, CheckSlot, FinishRound, Exit, DieOfException

\* The step that makes SurplusLeaves true: under a settled configuration neither a late
\* copy of an older row nor reconcile() brings a thread above it back.
THEOREM SurplusNeverGrowsTheorem ==
    Spec => SurplusNeverGrows
  <1>1. ASSUME IInv, [Next]_vars, NEW c \in Configs,
               Running, Running', SettledOn(c), shared' = c
        PROVE  /\ SettledOn(c)'
               /\ \A t \in Alive' : Slot(t)' > c.worker_concurrency =>
                     t \in Alive /\ Slot(t) > c.worker_concurrency
    <2>1. CASE UNCHANGED <<config, requests, threads>>
      BY <1>1, <2>1 DEF SettledOn, Alive, Slot
    <2>2. CASE Settles(c)
      BY <1>1, <2>2 DEF Settles, SettledOn, Alive, Slot
    <2>3. CASE PatchElsewhere \/ Start \/ BeginStop \/ FinishStop \/ SyncFallsDue
      BY <1>1, <2>1, <2>3
         DEF PatchElsewhere, Start, BeginStop, FinishStop, SyncFallsDue, SettledOn, Running
    <2>4. CASE \E r \in Requests : BeginRequest(r) \/ RequestStep(r)
      BY <1>1, <2>2, <2>4, RequestSettles DEF IInv
    <2>5. CASE \E t \in Threads : LoopStep(t) \/ SyncFails(t) \/ DieOfException(t)
      BY <1>1, <2>2, <2>5, SyncSettles, RoundSettles DEF LoopStep
    <2>6. CASE UNCHANGED vars
      BY <2>1, <2>6 DEF vars
    <2> QED
      BY <1>1, <2>3, <2>4, <2>5, <2>6 DEF Next
  <1>2. IInv /\ [Next]_vars =>
          [\A c \in Configs :
              Running /\ Running' /\ SettledOn(c) /\ shared' = c =>
                 /\ SettledOn(c)'
                 /\ \A t \in Alive' : Slot(t)' > c.worker_concurrency =>
                       t \in Alive /\ Slot(t) > c.worker_concurrency]_vars
    BY <1>1
  <1> QED
    BY <1>2, Invariance, PTL DEF Spec, SurplusNeverGrows

=============================================================================
