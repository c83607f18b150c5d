------------------------------ MODULE Submission ------------------------------
(***************************************************************************)
(* Submitting a job: POST /jobs with its Idempotency-Key, and the runtime  *)
(* configuration the defaults come from (app/main.py, app/config_store.py, *)
(* create_job and the configuration methods of app/repository.py).         *)
(*                                                                         *)
(* Several API processes share the database.  A request resolves the       *)
(* timeout and the retry budget against its own process's copy of the      *)
(* configuration, looks the key up, inserts, and looks again when the      *)
(* unique index refuses the row: four steps, between which other requests  *)
(* and configuration changes happen.  The answer may be lost, with or      *)
(* without its process, and the client sends the same request again, to    *)
(* any process.                                                            *)
(*                                                                         *)
(* Of the two resolved limits only timeout_seconds is modelled:            *)
(* max_retries is resolved the same way, without an upper bound.           *)
(***************************************************************************)
EXTENDS Naturals, FiniteSets

CONSTANTS
    Processes,      \* API processes
    Calls,          \* what clients want to submit; each may be sent several times
    JobIds,         \* uuid4
    Keys,           \* idempotency keys
    NoKey,          \* a request without the header
    EmptyKey,       \* a header without a value: the code looks up neither, but the
                    \* unique index tells them apart
    Payloads,       \* payload, priority and run_at of a request
    Timeouts,       \* timeouts requested, defaulted or configured as maximum
    Unset,          \* a request without timeout_seconds
    InitConfigs,    \* configuration of the environment of the first process
    MaxInTransit,   \* bound on the configurations read but not yet stored
    None            \* no job, no process, no payload

ASSUME SubmissionAssumption ==
    /\ NoKey \notin Keys
    /\ EmptyKey \notin Keys \cup {NoKey}
    /\ Unset \notin Timeouts
    /\ None \notin JobIds \cup Processes \cup Payloads
    /\ MaxInTransit \in Nat
    /\ Timeouts \subseteq Nat
    /\ InitConfigs \subseteq [default_timeout : Timeouts, max_timeout : Timeouts]

VARIABLES
    jobs,           \* table jobs: the columns a submission fills in
    shared,         \* the row of runtime_config
    store,          \* RuntimeConfigStore of each process
    in_transit,     \* <<process, config>> read or patched but not yet in the store
    calls           \* what each client and the request it sent hold

vars == <<jobs, shared, store, in_transit, calls>>

Config == [default_timeout : Timeouts, max_timeout : Timeouts]

\* job_request_fingerprint hashes the request together with its effective limits; the
\* pair stands for the hash.
Fingerprint == [payload : Payloads, asked : Timeouts \cup {Unset}, timeout : Timeouts]
Header == Keys \cup {NoKey, EmptyKey}
Job == [key : Header, fingerprint : Fingerprint]
NoRow == [key |-> NoKey]

\* "accepted", "conflict" (409) and "rejected" (422) are answers the client has seen;
\* "lost" is the absence of one.
Answers == {"accepted", "conflict", "rejected"}
Phases == {"new", "lost", "lookup", "insert", "reread"} \cup Answers
Call ==
    [phase : Phases, process : Processes \cup {None}, key : Header,
     payload : Payloads \cup {None}, asked : Timeouts \cup {Unset},
     timeout : Timeouts \cup {Unset}, job : JobIds \cup {None}]

NewCall ==
    [phase |-> "new", process |-> None, key |-> NoKey, payload |-> None, asked |-> Unset,
     timeout |-> Unset, job |-> None]
InFlight(k) == calls[k].phase \in {"lookup", "insert", "reread"}

\* What remains of a call with this outcome.
Outcome(k, phase, job) == [calls[k] EXCEPT !.phase = phase, !.process = None, !.job = job]
Lost(k) == [Outcome(k, "lost", None) EXCEPT !.timeout = Unset]

Init ==
    /\ jobs = [i \in JobIds |-> NoRow]
    /\ shared \in InitConfigs
    /\ store = [p \in Processes |-> shared]
    /\ in_transit = {}
    /\ calls = [k \in Calls |-> NewCall]

-----------------------------------------------------------------------------
(* Runtime configuration *)

\* merge_runtime_config caps the default at the maximum.
Merge_NoCap(default, max) == [default_timeout |-> default, max_timeout |-> max]
Merge(default, max) ==
    [default_timeout |-> IF default <= max THEN default ELSE max, max_timeout |-> max]

\* PATCH /config of one field or both, one transaction; the store follows.
PatchConfig(p) ==
    /\ \E default \in Timeouts \cup {shared.default_timeout},
          max \in Timeouts \cup {shared.max_timeout} :
          /\ shared' = Merge(default, max)
          /\ shared' # shared
          /\ Cardinality(in_transit) < MaxInTransit
          /\ in_transit' = in_transit \cup {<<p, shared'>>}
    /\ UNCHANGED <<jobs, store, calls>>

\* GET /config and GET /metrics copy the row as well.
ReadConfig(p) ==
    /\ Cardinality(in_transit) < MaxInTransit
    /\ in_transit' = in_transit \cup {<<p, shared>>}
    /\ UNCHANGED <<jobs, shared, store, calls>>

\* RuntimeConfigStore.replace
ReplaceConfig(p) ==
    /\ \E read \in in_transit :
          /\ read[1] = p
          /\ store' = [store EXCEPT ![p] = read[2]]
          /\ in_transit' = in_transit \ {read}
    /\ UNCHANGED <<jobs, shared, calls>>

\* A process that starts again finds the row and keeps it: INSERT OR IGNORE.
RestartProcess(p) ==
    /\ store' = [store EXCEPT ![p] = shared]
    /\ in_transit' = {read \in in_transit : read[1] # p}
    /\ calls' = [k \in Calls |->
                    IF calls[k].process = p THEN Lost(k) ELSE calls[k]]
    /\ UNCHANGED <<jobs, shared>>

-----------------------------------------------------------------------------
(* POST /jobs.  X_Slip definitions are slips X might contain.                    *)

FingerprintOf_Unresolved(k) ==
    [payload |-> calls[k].payload, asked |-> calls[k].asked, timeout |-> calls[k].asked]
FingerprintOf_DefaultInForce(k) ==
    [payload |-> calls[k].payload, asked |-> calls[k].asked, timeout |-> shared.default_timeout]
FingerprintOf(k) ==
    [payload |-> calls[k].payload, asked |-> calls[k].asked, timeout |-> calls[k].timeout]

\* get_job_by_idempotency_key, which is asked only about a key that is not empty
WithKey(key) == {i \in JobIds : jobs[i] # NoRow /\ jobs[i].key = key}
Known(k) == IF calls[k].key \in Keys THEN WithKey(calls[k].key) ELSE {}

\* The unique index on idempotency_key lets the row of call k in.
KeyIsFree_NoIndex(k) == TRUE
KeyIsFree(k) == calls[k].key = NoKey \/ WithKey(calls[k].key) = {}

\* The handler resolves the timeout, and refuses one above the maximum.
Resolve(k, p, key, payload, asked) ==
    LET timeout == IF asked = Unset THEN store[p].default_timeout ELSE asked
        refused == timeout > store[p].max_timeout
    IN  calls' = [calls EXCEPT ![k] =
                     [phase |-> IF refused THEN "rejected" ELSE "lookup",
                      process |-> IF refused THEN None ELSE p,
                      key |-> key, payload |-> payload, asked |-> asked,
                      timeout |-> timeout, job |-> None]]

\* A client sends its request; after a lost answer, the same one.
Send(k, p) ==
    /\ \/ /\ calls[k].phase = "new"
          /\ \E key \in Header, payload \in Payloads, asked \in Timeouts \cup {Unset} :
                Resolve(k, p, key, payload, asked)
       \/ /\ calls[k].phase = "lost"
          /\ Resolve(k, p, calls[k].key, calls[k].payload, calls[k].asked)
    /\ UNCHANGED <<jobs, shared, store, in_transit>>

\* A job that has the key is the answer if it stands for the same request.
AnswerWith_AnyRequest(k, i) == Outcome(k, "accepted", i)
AnswerWith(k, i) ==
    IF jobs[i].fingerprint = FingerprintOf(k)
    THEN Outcome(k, "accepted", i)
    ELSE Outcome(k, "conflict", None)

LookUp(k) ==
    /\ calls[k].phase = "lookup"
    /\ \/ /\ Known(k) = {}
          /\ calls' = [calls EXCEPT ![k].phase = "insert"]
       \/ \E i \in Known(k) : calls' = [calls EXCEPT ![k] = AnswerWith(k, i)]
    /\ UNCHANGED <<jobs, shared, store, in_transit>>

\* The answer of a committed insert may be lost like any other, see LoseAnswer.
Insert(k) ==
    /\ calls[k].phase = "insert"
    /\ \/ /\ KeyIsFree(k)
          /\ \E i \in JobIds :
                /\ jobs[i] = NoRow
                /\ jobs' = [jobs EXCEPT ![i] =
                               [key |-> calls[k].key, fingerprint |-> FingerprintOf(k)]]
                /\ calls' = [calls EXCEPT ![k] = Outcome(k, "accepted", i)]
       \/ /\ ~KeyIsFree(k)
          /\ IF calls[k].key \in Keys
             THEN calls' = [calls EXCEPT ![k].phase = "reread"]
             ELSE calls' = [calls EXCEPT ![k] = Lost(k)]     \* raise
          /\ UNCHANGED jobs
    /\ UNCHANGED <<shared, store, in_transit>>

\* After the IntegrityError: the job that took the key is the answer, or a conflict.
Reread_AlwaysConflict(k) ==
    /\ calls[k].phase = "reread"
    /\ calls' = [calls EXCEPT ![k] = Outcome(k, "conflict", None)]
    /\ UNCHANGED <<jobs, shared, store, in_transit>>
Reread(k) ==
    /\ calls[k].phase = "reread"
    /\ \E i \in Known(k) : calls' = [calls EXCEPT ![k] = AnswerWith(k, i)]
    /\ UNCHANGED <<jobs, shared, store, in_transit>>

\* A database error, a broken connection, a client that gives up waiting.
LoseAnswer(k) ==
    /\ calls[k].phase \notin {"new", "lost"}
    /\ calls' = [calls EXCEPT ![k] = Lost(k)]
    /\ UNCHANGED <<jobs, shared, store, in_transit>>

-----------------------------------------------------------------------------

CallStep(k) ==
    \/ \E p \in Processes : Send(k, p)
    \/ LookUp(k)
    \/ Insert(k)
    \/ Reread(k)
    \/ LoseAnswer(k)

Next ==
    \/ \E p \in Processes : PatchConfig(p) \/ ReadConfig(p) \/ ReplaceConfig(p) \/ RestartProcess(p)
    \/ \E k \in Calls : CallStep(k)

Spec == Init /\ [][Next]_vars

\* A process that has read the configuration stores it; nothing makes it read.
FairSpec == Spec /\ \A p \in Processes : WF_vars(ReplaceConfig(p))

-----------------------------------------------------------------------------
(* Properties *)

\* Type correctness of the table, the configurations and the calls.
TypeOK ==
    /\ jobs \in [JobIds -> Job \cup {NoRow}]
    /\ shared \in Config
    /\ store \in [Processes -> Config]
    /\ in_transit \subseteq Processes \X Config
    /\ calls \in [Calls -> Call]
    /\ \A k \in Calls : calls[k].process # None <=> InFlight(k)

\* Whatever requests race and however often answers are lost and requests repeated, a
\* key leads to one job: no two jobs carry it, and all who are told 202 for it are
\* told the same job, one that stands for their very request and its effective limits.
OneJobPerKey ==
    /\ \A i, j \in JobIds : jobs[j].key # NoKey /\ i \in WithKey(jobs[j].key) => i = j
    /\ \A k \in Calls : calls[k].phase = "accepted" =>
          /\ jobs[calls[k].job] = [key |-> calls[k].key, fingerprint |-> FingerprintOf(k)]
          /\ calls[k].key # NoKey => WithKey(calls[k].key) = {calls[k].job}

\* A 409 is only answered when a job that stands for another request has the key.
ConflictJustified ==
    \A k \in Calls : calls[k].phase = "conflict" =>
        \E i \in Known(k) : jobs[i].fingerprint # FingerprintOf(k)

\* What the two invariants above rest on: a request that has been sent has a payload, one
\* in flight has its limits, only one with a key comes to look again, and one that is
\* accepted has a job.
CallsComplete ==
    \A k \in Calls :
        /\ calls[k].phase # "new" => calls[k].payload \in Payloads
        /\ InFlight(k) => calls[k].timeout \in Timeouts
        /\ calls[k].phase = "reread" => calls[k].key \in Keys
        /\ calls[k].phase = "accepted" => calls[k].job \in JobIds

CallsInv ==
    /\ TypeOK
    /\ CallsComplete
    /\ OneJobPerKey
    /\ ConflictJustified

\* What k asks for in its body; the limits it leaves open are not part of it.
Request(k) == <<calls[k].payload, calls[k].asked>>

\* A client who spells out its limits is recognized when it repeats its request, after
\* any number of lost answers, at any process and whatever the configuration has become:
\* it is told 409 only if another client has sent another request with its key.  (One
\* who leaves the choice to the server may be told 409 for its own repetition.)
RepetitionRecognized ==
    \A k \in Calls : calls[k].phase = "conflict" /\ calls[k].asked # Unset =>
        \E n \in Calls : /\ calls[n].phase # "new"
                         /\ calls[n].key = calls[k].key
                         /\ Request(n) # Request(k)

\* What RepetitionRecognized rests on: every job is what some client has asked for, and a
\* limit that was asked for is the limit of the request and of its job.
RequestsRemembered ==
    /\ \A i \in JobIds : jobs[i] # NoRow =>
          \E k \in Calls :
              /\ calls[k].phase # "new"
              /\ calls[k].key = jobs[i].key
              /\ Request(k) = <<jobs[i].fingerprint.payload, jobs[i].fingerprint.asked>>
              /\ calls[k].asked # Unset => jobs[i].fingerprint.timeout = calls[k].asked
    /\ \A k \in Calls : calls[k].phase \notin {"new", "lost"} /\ calls[k].asked # Unset =>
          calls[k].timeout = calls[k].asked

IInv ==
    /\ CallsInv
    /\ RequestsRemembered

\* Once the default is within the maximum it stays there in the row, and in every
\* copy a process holds or is about to hold, whatever fields patches change.
DefaultWithinMax ==
    \A c \in {shared} \cup {store[p] : p \in Processes} \cup {read[2] : read \in in_transit} :
        c.default_timeout <= c.max_timeout

\* A default that is in force is good enough for a request without a timeout: a
\* process never answers 422 to a client who left the choice to it.
DefaultNeverRejected ==
    \A k \in Calls : calls[k].phase = "rejected" => calls[k].asked # Unset

\* When the configuration settles, every API process works with it.
ConfigReachesEveryProcess ==
    \A c \in Config : <>[](shared = c) => <>[](\A p \in Processes : store[p] = c)

=============================================================================
