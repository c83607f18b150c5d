---------------------------- MODULE MCPgSchedules ----------------------------
(* Instances of PgSchedules for TLC: "* * * * *" goes on beyond the horizon. *)
EXTENDS PgSchedules, TLC

MCOccurrences == [cron \in Crons |-> 1..(Horizon + 2)]

MCSymmetry ==
    Permutations(Clients) \cup Permutations(Workers) \cup Permutations(Schedules)

\* Any two of the requests and materializers may be under way at once; a state with
\* three is checked, and not explored further.
TwoUnderWay ==
    Cardinality({c \in Clients : clients[c] # NoRequest})
        + Cardinality({w \in Workers : batches[w].phase # "idle"}) <= 2

=============================================================================
