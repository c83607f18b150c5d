--------------------------- MODULE JobContractProofs ---------------------------
(***************************************************************************)
(* What JobContract gives a client, proved once from the contract.  Both   *)
(* job queues inherit it through their refinements.                        *)
(***************************************************************************)
EXTENDS JobContract, TLAPS

\* The values max_retries may take are natural numbers: a hypothesis of the theorems,
\* and an assumption of the modules that implement the contract.
Numbers == RetryLimits \subseteq Nat

Entries == Failures \cup {"succeeded"}

\* State, budget and ledger of a job are in their ranges and fit together.
States == {"absent", Waiting, Attempting} \cup Settled
Explained(j) ==
    /\ state[j] \in States
    /\ budget[j] \in Nat
    /\ LedgerExplains(j)
ContractInv == \A j \in Jobs : Explained(j)

\* Appending to a ledger keeps its entries.
LEMMA Appended ==
    ASSUME NEW s \in Seq(Entries), NEW e \in Entries
    PROVE  /\ Append(s, e) \in Seq(Entries)
           /\ Len(Append(s, e)) = Len(s) + 1
           /\ Len(s) \in Nat
           /\ \A n \in 1..Len(s) : Append(s, e)[n] = s[n]
           /\ Append(s, e)[Len(s) + 1] = e
  OBVIOUS

\* The empty ledger of a job nobody has submitted.
LEMMA InitExplained ==
    Init => ContractInv
  <1> SUFFICES ASSUME Init, NEW j \in Jobs PROVE Explained(j)
    BY DEF ContractInv
  <1>1. state[j] = "absent" /\ budget[j] = 0 /\ ledger[j] = << >>
    BY DEF Init
  <1>2. ledger[j] \in Seq(Failures \cup {"succeeded"}) /\ Len(ledger[j]) = 0
    BY <1>1
  <1> QED
    BY <1>1, <1>2 DEF Explained, LedgerExplains, States, Waiting, Attempting, Settled

\* A failed attempt leaves a waiting job with budget or a dead letter without.
LEMMA FailExplained ==
    ASSUME NEW j \in Jobs, Explained(j), Fail(j)
    PROVE  Explained(j)'
  <1> DEFINE s == ledger[j]
             t == ledger'[j]
  <1>1. PICK e \in Failures : t = Append(s, e)
    BY DEF Fail, Failures
  <1>2. s \in Seq(Entries) /\ e \in Entries /\ budget[j] \in Nat /\ e # "succeeded"
    BY <1>1 DEF Explained, LedgerExplains, Entries, Failures
  <1>3. /\ t \in Seq(Entries) /\ Len(t) = Len(s) + 1 /\ Len(s) \in Nat
        /\ \A n \in 1..Len(s) : t[n] = s[n]
        /\ t[Len(s) + 1] = e
    BY <1>1, <1>2, Appended
  <1>4. Len(s) <= budget[j] /\ NoSuccess(s)
    BY DEF Explained, LedgerExplains, Fail, Attempting
  <1>5. NoSuccess(t)
    BY <1>2, <1>3, <1>4 DEF NoSuccess
  <1>6. /\ budget'[j] = budget[j]
        /\ state'[j] = IF Len(t) <= budget[j] THEN Waiting ELSE "dead_lettered"
    BY DEF Fail
  <1> HIDE DEF s, t
  <1>7. t = ledger'[j]
    BY DEF t
  <1> QED
    BY <1>2, <1>3, <1>4, <1>5, <1>6, <1>7
       DEF Explained, LedgerExplains, States, Settled, Waiting, Attempting, Entries

\* A successful attempt is the last entry of a ledger and its only success.
LEMMA SucceedExplained ==
    ASSUME NEW j \in Jobs, Explained(j), Succeed(j)
    PROVE  Explained(j)'
  <1> DEFINE s == ledger[j]
             t == ledger'[j]
  <1>1. t = Append(s, "succeeded") /\ "succeeded" \in Entries
    BY DEF Succeed, Entries
  <1>2. s \in Seq(Entries) /\ budget[j] \in Nat
    BY DEF Explained, LedgerExplains, Entries
  <1>3. /\ t \in Seq(Entries) /\ Len(t) = Len(s) + 1 /\ Len(s) \in Nat
        /\ \A n \in 1..Len(s) : t[n] = s[n]
        /\ t[Len(s) + 1] = "succeeded"
    BY <1>1, <1>2, Appended
  <1>4. Len(s) <= budget[j] /\ NoSuccess(s)
    BY DEF Explained, LedgerExplains, Succeed, Attempting
  <1>5. \A n \in 1..Len(t) : t[n] = "succeeded" <=> n = Len(t)
    BY <1>3, <1>4 DEF NoSuccess
  <1>6. budget'[j] = budget[j] /\ state'[j] = "succeeded"
    BY DEF Succeed
  <1>7. Len(t) \in 1..(budget[j] + 1)
    BY <1>2, <1>3, <1>4
  <1> HIDE DEF s, t
  <1>8. t = ledger'[j]
    BY DEF t
  <1> QED
    BY <1>2, <1>3, <1>5, <1>6, <1>7, <1>8
       DEF Explained, LedgerExplains, States, Settled, Waiting, Attempting, Entries

\* No move of the contract leaves a job unexplained.
LEMMA MoveExplained ==
    ASSUME Numbers, NEW j \in Jobs, Explained(j), Move(j)
    PROVE  Explained(j)'
  <1>1. CASE Keep(j)
    BY <1>1 DEF Keep, Explained, LedgerExplains, NoSuccess
  <1>2. CASE Accept(j)
    <2>1. Len(ledger[j]) = 0 /\ budget'[j] \in Nat /\ 0 <= budget'[j]
      <3>1. budget'[j] \in Nat
        BY <1>2 DEF Accept, Numbers
      <3>2. Len(ledger[j]) = 0
        BY <1>2 DEF Accept, Explained, LedgerExplains
      <3> QED
        BY <3>1, <3>2
    <2>2. ledger'[j] = ledger[j] /\ state'[j] = "queued"
      BY <1>2 DEF Accept, Waiting
    <2>3. NoSuccess(ledger'[j])
      BY <2>1, <2>2 DEF NoSuccess
    <2> QED
      BY <2>1, <2>2, <2>3 DEF Explained, LedgerExplains, States, Settled, Waiting, Attempting
  <1>3. CASE Start(j) \/ Cancel(j)
    <2>1. /\ state[j] = "queued" /\ state'[j] \in {"running", "cancelled"}
          /\ ledger'[j] = ledger[j] /\ budget'[j] = budget[j]
      BY <1>3 DEF Start, Cancel, Waiting, Attempting
    <2>2. Len(ledger[j]) <= budget[j] /\ NoSuccess(ledger[j])
      BY <2>1 DEF Explained, LedgerExplains, Waiting
    <2> QED
      BY <2>1, <2>2
         DEF Explained, LedgerExplains, States, Settled, Waiting, Attempting
  <1>4. CASE Succeed(j)
    BY <1>4, SucceedExplained
  <1>5. CASE Fail(j)
    BY <1>5, FailExplained
  <1> QED
    BY <1>1, <1>2, <1>3, <1>4, <1>5 DEF Move

\* The invariant of the contract.
THEOREM Invariance ==
    ASSUME Numbers
    PROVE  Spec => []ContractInv
  <1>1. Numbers /\ ContractInv /\ [Next]_vars => ContractInv'
    <2>1. ASSUME Numbers, ContractInv, Next PROVE ContractInv'
      BY <2>1, MoveExplained DEF ContractInv, Next
    <2>2. ASSUME ContractInv, UNCHANGED vars PROVE ContractInv'
      BY <2>2 DEF ContractInv, Explained, LedgerExplains, NoSuccess, vars
    <2> QED
      BY <2>1, <2>2
  <1> QED
    BY <1>1, InitExplained, PTL DEF Spec

\* At any time the ledger of a job explains its state.
THEOREM LedgersExplainTheorem ==
    ASSUME Numbers
    PROVE  Spec => []LedgersExplain
  <1>1. ContractInv => LedgersExplain
    BY DEF ContractInv, Explained, LedgersExplain
  <1> QED
    BY <1>1, Invariance, PTL

\* No job is attempted more than budget + 1 times, the running attempt included.
THEOREM AttemptsWithinBudgetTheorem ==
    ASSUME Numbers
    PROVE  Spec => []AttemptsWithinBudget
  <1>1. ContractInv => AttemptsWithinBudget
    <2> SUFFICES ASSUME ContractInv, NEW j \in Jobs
                 PROVE  Len(ledger[j]) + (IF state[j] = Attempting THEN 1 ELSE 0)
                           <= budget[j] + 1
      BY DEF AttemptsWithinBudget
    <2>1. Explained(j) /\ budget[j] \in Nat
      BY DEF ContractInv, Explained
    <2>2. Len(ledger[j]) \in Nat
      BY <2>1 DEF Explained, LedgerExplains
    <2>3. Len(ledger[j]) <= budget[j] + 1
      BY <2>1, <2>2 DEF Explained, LedgerExplains, States, Settled, Waiting, Attempting
    <2>4. state[j] = Attempting => Len(ledger[j]) <= budget[j]
      BY <2>1 DEF Explained, LedgerExplains
    <2>5. CASE state[j] = Attempting
      BY <2>1, <2>2, <2>4, <2>5
    <2>6. CASE state[j] # Attempting
      BY <2>1, <2>2, <2>3, <2>6
    <2> QED
      BY <2>5, <2>6
  <1> QED
    BY <1>1, Invariance, PTL

\* No step takes back a result, an entry of a ledger or a budget.
THEOREM NothingTakenBackTheorem ==
    ASSUME Numbers
    PROVE  Spec => NothingTakenBack
  <1> DEFINE Kept(j) ==
        /\ state[j] \in Settled => state'[j] = state[j] /\ ledger'[j] = ledger[j]
        /\ state[j] # "absent" => state'[j] # "absent" /\ budget'[j] = budget[j]
        /\ \A n \in 1..Len(ledger[j]) :
              n \in 1..Len(ledger'[j]) /\ ledger'[j][n] = ledger[j][n]
  <1>1. ASSUME NEW j \in Jobs, Explained(j), Move(j)
        PROVE  Kept(j)
    <2>1. ledger[j] \in Seq(Entries) /\ Len(ledger[j]) \in Nat
      BY <1>1 DEF Explained, LedgerExplains, Entries
    <2>2. ASSUME NEW e \in Entries, ledger'[j] = Append(ledger[j], e)
          PROVE  \A n \in 1..Len(ledger[j]) :
                    n \in 1..Len(ledger'[j]) /\ ledger'[j][n] = ledger[j][n]
      BY <2>1, <2>2, Appended
    <2>3. CASE Succeed(j) \/ Fail(j)
      <3>1. /\ state[j] = "running" /\ state'[j] # "absent"
            /\ budget'[j] = budget[j]
        BY <2>3 DEF Succeed, Fail, Attempting, Waiting
      <3>2. PICK e \in Entries : ledger'[j] = Append(ledger[j], e)
        BY <2>3 DEF Succeed, Fail, Entries, Failures
      <3> QED
        BY <2>2, <3>1, <3>2 DEF Settled
    <2>4. CASE Keep(j) \/ Accept(j) \/ Start(j) \/ Cancel(j)
      BY <2>1, <2>4 DEF Keep, Accept, Start, Cancel, Waiting, Attempting, Settled
    <2> QED
      BY <1>1, <2>3, <2>4 DEF Move
  <1>2. ContractInv /\ [Next]_vars => [\A j \in Jobs : Kept(j)]_vars
    BY <1>1 DEF ContractInv, Next
  <1> QED
    BY <1>2, Invariance, PTL DEF Spec, NothingTakenBack

=============================================================================
