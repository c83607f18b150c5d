---------------------------- MODULE JobContract ----------------------------
(***************************************************************************)
(* What PulseQueue promises to the client that submitted a job, with no    *)
(* worker, lease, clock or transaction in sight.                           *)
(*                                                                         *)
(* A job is accepted with a retry budget and waits; it is attempted, one   *)
(* attempt at a time; every attempt appends exactly one outcome to the     *)
(* job's ledger; the job ends succeeded with one success as the last entry *)
(* of its ledger, dead-lettered after exactly budget + 1 unsuccessful      *)
(* entries, or cancelled while it waited.  A job that ended never changes  *)
(* again.  Several jobs may move in one step, because a batch submission,  *)
(* a drain of the queue and the lease reaper are single transactions over  *)
(* many rows.                                                              *)
(***************************************************************************)
EXTENDS Naturals, Sequences

CONSTANTS
    Jobs,           \* identities of jobs
    RetryLimits     \* values max_retries may take

VARIABLES
    state,          \* [Jobs -> States]
    budget,         \* [Jobs -> Nat]: max_retries of an accepted job
    ledger          \* [Jobs -> Seq(Outcomes)]: what became of each attempt

vars == <<state, budget, ledger>>

Waiting == "queued"
Attempting == "running"
Settled == {"succeeded", "dead_lettered", "cancelled"}

Init ==
    /\ state = [j \in Jobs |-> "absent"]
    /\ budget = [j \in Jobs |-> 0]
    /\ ledger = [j \in Jobs |-> << >>]

\* The client's request becomes a waiting job.
Accept(j) ==
    /\ state[j] = "absent"
    /\ state'[j] = Waiting
    /\ budget'[j] \in RetryLimits
    /\ ledger'[j] = ledger[j]

\* Some worker takes the job.
Start(j) ==
    /\ state[j] = Waiting
    /\ state'[j] = Attempting
    /\ UNCHANGED <<budget[j], ledger[j]>>

Succeed(j) ==
    /\ state[j] = Attempting
    /\ state'[j] = "succeeded"
    /\ ledger'[j] = Append(ledger[j], "succeeded")
    /\ UNCHANGED budget[j]

\* An attempt that failed, overran its time or was abandoned: the job waits
\* again exactly when the budget still covers a retry.
Fail(j) ==
    /\ state[j] = Attempting
    /\ \E outcome \in {"failed", "timed_out", "abandoned"} :
          ledger'[j] = Append(ledger[j], outcome)
    /\ state'[j] = IF Len(ledger'[j]) <= budget[j] THEN Waiting ELSE "dead_lettered"
    /\ UNCHANGED budget[j]

Cancel(j) ==
    /\ state[j] = Waiting
    /\ state'[j] = "cancelled"
    /\ UNCHANGED <<budget[j], ledger[j]>>

Keep(j) == UNCHANGED <<state[j], budget[j], ledger[j]>>

Move(j) == Keep(j) \/ Accept(j) \/ Start(j) \/ Succeed(j) \/ Fail(j) \/ Cancel(j)

Next ==
    /\ DOMAIN state' = Jobs
    /\ DOMAIN budget' = Jobs
    /\ DOMAIN ledger' = Jobs
    /\ \A j \in Jobs : Move(j)

Spec == Init /\ [][Next]_vars

-----------------------------------------------------------------------------
(* What follows for the client, whoever keeps the contract *)

Failures == {"failed", "timed_out", "abandoned"}
NoSuccess(s) == \A n \in 1..Len(s) : s[n] # "succeeded"

\* The ledger of a job explains its state: a job that may still run has budget left
\* and has not succeeded; one success ends a ledger and the job; a dead letter has
\* budget + 1 entries, all of them unsuccessful.
LedgerExplains(j) ==
    LET tries == Len(ledger[j])
    IN  /\ ledger[j] \in Seq(Failures \cup {"succeeded"})
        /\ state[j] = "absent" => tries = 0
        /\ state[j] \in {Waiting, Attempting, "cancelled"} =>
              tries <= budget[j] /\ NoSuccess(ledger[j])
        /\ state[j] = "dead_lettered" =>
              tries = budget[j] + 1 /\ NoSuccess(ledger[j])
        /\ state[j] = "succeeded" =>
              /\ tries \in 1..(budget[j] + 1)
              /\ \A n \in 1..tries : ledger[j][n] = "succeeded" <=> n = tries
LedgersExplain == \A j \in Jobs : LedgerExplains(j)

\* Nothing is ever taken back: a settled job keeps its state and its ledger, an
\* accepted one keeps its budget, and a ledger keeps the entries it has.
NothingTakenBack ==
    [][\A j \in Jobs :
          /\ state[j] \in Settled => state'[j] = state[j] /\ ledger'[j] = ledger[j]
          /\ state[j] # "absent" => state'[j] # "absent" /\ budget'[j] = budget[j]
          /\ \A n \in 1..Len(ledger[j]) :
                n \in 1..Len(ledger'[j]) /\ ledger'[j][n] = ledger[j][n]]_vars

\* A job is attempted at most budget + 1 times: at any time, what it is being attempted
\* for and what it may still be attempted for fit in what the client asked for.
AttemptsWithinBudget ==
    \A j \in Jobs :
        Len(ledger[j]) + (IF state[j] = Attempting THEN 1 ELSE 0) <= budget[j] + 1

=============================================================================
