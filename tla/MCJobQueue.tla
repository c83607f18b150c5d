----------------------------- MODULE MCJobQueue -----------------------------
(***************************************************************************)
(* Instances of JobQueue for TLC.                                          *)
(***************************************************************************)
EXTENDS JobQueue, TLC

\* Every thread has a worker id of its own.
MCDistinctIds == [t \in Threads |-> t]

\* All threads carry the same worker id, as after a shrink and a growth of the pool
\* (app.worker._ensure_threads_locked reuses slot numbers of threads that still run).
MCSharedId == [t \in Threads |-> CHOOSE w \in WorkerIds : TRUE]

MCShortBackoff == {[base |-> 1, max |-> 1]}
MCGrowingBackoff == {[base |-> 1, max |-> 2]}

MCJobSymmetry == Permutations(Jobs)
MCSymmetry == Permutations(Jobs) \cup Permutations(Threads)

=============================================================================
