----------------------------- MODULE MCSubmission -----------------------------
(* Instances of Submission for TLC. *)
EXTENDS Submission, TLC

MCInitConfigs == {[default_timeout |-> 1, max_timeout |-> 2]}

MCSymmetry == Permutations(Calls) \cup Permutations(Processes) \cup Permutations(JobIds)

=============================================================================
