----------------------------- MODULE MCHeartbeats -----------------------------
(* Instances of Heartbeats for TLC. *)
EXTENDS Heartbeats, TLC

MCSymmetry == Permutations(Threads)

=============================================================================
