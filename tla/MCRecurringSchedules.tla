------------------------- MODULE MCRecurringSchedules -------------------------
(* Instances of RecurringSchedules for TLC. *)
EXTENDS RecurringSchedules, TLC

CONSTANTS everyTwo, once

\* "1-59/2 * * * *" goes on beyond the horizon; an expression with a year field has a
\* last occurrence.
MCOccurrences ==
    [cron \in Crons |-> IF cron = once THEN {1}
                        ELSE {o \in 0..(Horizon + 2) : o % 2 = 1}]

MCSymmetry == Permutations(Clients) \cup Permutations(Workers)

=============================================================================
