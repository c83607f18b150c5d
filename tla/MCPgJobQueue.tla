---------------------------- MODULE MCPgJobQueue ----------------------------
(***************************************************************************)
(* Instances of PgJobQueue for TLC.                                        *)
(***************************************************************************)
EXTENDS PgJobQueue, TLC

MCDistinctIds == [t \in Workers |-> t]
MCSharedId == [t \in Workers |-> CHOOSE w \in WorkerIds : TRUE]

MCSymmetry == Permutations(Jobs) \cup Permutations(Workers) \cup Permutations(Clients)

\* Any two transactions may be open at once, while handlers run; a state with three
\* is checked, and not explored further.
TwoTransactionsOpen ==
    Cardinality({s \in Sessions : sessions[s].task \notin {"idle", "run"}}) <= 2

=============================================================================
