-------------------------- MODULE SubmissionProofs --------------------------
(***************************************************************************)
(* Theorems about Submission, for every set of processes, clients, keys,   *)
(* payloads and timeouts.                                                  *)
(***************************************************************************)
EXTENDS Submission, TLAPS

USE DEF Phases, Answers, InFlight

-----------------------------------------------------------------------------
(* Rows and calls *)

\* The row of a job is not the absence of a row, ...
LEMMA RowIsThere ==
    ASSUME NEW key, NEW fingerprint
    PROVE  [key |-> key, fingerprint |-> fingerprint] # NoRow
  <1> DEFINE row == [key |-> key, fingerprint |-> fingerprint]
  <1>1. "fingerprint" \in DOMAIN row /\ "fingerprint" \notin DOMAIN NoRow
    BY DEF NoRow
  <1> QED
    BY <1>1

\* ... and one inserted into an empty place changes who has its key, and nothing else.
LEMMA WhoHasKey ==
    ASSUME TypeOK, NEW i \in JobIds, NEW row \in Job,
           jobs[i] = NoRow,
           jobs' = [jobs EXCEPT ![i] = row]
    PROVE  /\ jobs' \in [JobIds -> Job \cup {NoRow}]
           /\ jobs'[i] = row
           /\ \A j \in JobIds : jobs[j] # NoRow => j # i /\ jobs'[j] = jobs[j]
           /\ WithKey(row.key)' = WithKey(row.key) \cup {i}
           /\ \A key : key # row.key => WithKey(key)' = WithKey(key)
  <1>1. /\ jobs' \in [JobIds -> Job \cup {NoRow}]
        /\ jobs'[i] = row
        /\ \A j \in JobIds : j # i => jobs'[j] = jobs[j]
    BY DEF TypeOK
  <1>2. row = [key |-> row.key, fingerprint |-> row.fingerprint]
    BY DEF Job
  <1>3. row # NoRow
    BY <1>2, RowIsThere
  <1> QED
    BY <1>1, <1>3 DEF WithKey

\* What a call looks like that has got an answer or lost it.
LEMMA OutcomeFacts ==
    ASSUME NEW k \in Calls, calls[k] \in Call,
           NEW phase \in Phases, NEW job \in JobIds \cup {None}
    PROVE  /\ Outcome(k, phase, job) \in Call
           /\ Outcome(k, phase, job).phase = phase
           /\ Outcome(k, phase, job).process = None
           /\ Outcome(k, phase, job).key = calls[k].key
           /\ Outcome(k, phase, job).payload = calls[k].payload
           /\ Outcome(k, phase, job).asked = calls[k].asked
           /\ Outcome(k, phase, job).timeout = calls[k].timeout
           /\ Outcome(k, phase, job).job = job
  BY ZenonT(60) DEF Outcome, Call

LEMMA LostFacts ==
    ASSUME NEW k \in Calls, calls[k] \in Call
    PROVE  /\ Lost(k) \in Call
           /\ Lost(k).phase = "lost"
           /\ Lost(k).process = None
           /\ Lost(k).key = calls[k].key
           /\ Lost(k).payload = calls[k].payload
           /\ Lost(k).asked = calls[k].asked
  BY OutcomeFacts DEF Lost, Call

-----------------------------------------------------------------------------
(* The invariant, one call at a time *)

KeysUnique ==
    \A i, j \in JobIds : jobs[j].key # NoKey /\ i \in WithKey(jobs[j].key) => i = j

Asks(c) == [payload |-> c.payload, asked |-> c.asked, timeout |-> c.timeout]

\* What the invariant says of a call in this state.
Well(c) ==
    /\ c.phase # "new" => c.payload \in Payloads
    /\ c.process # None <=> c.phase \in {"lookup", "insert", "reread"}
    /\ c.process # None => c.timeout \in Timeouts
    /\ c.phase = "reread" => c.key \in Keys
    /\ c.phase = "accepted" =>
          /\ c.job \in JobIds
          /\ jobs[c.job] = [key |-> c.key, fingerprint |-> Asks(c)]
          /\ c.key # NoKey => WithKey(c.key) = {c.job}
    /\ c.phase = "conflict" =>
          /\ c.key \in Keys
          /\ \E i \in WithKey(c.key) : jobs[i].fingerprint # Asks(c)

AllWell == \A k \in Calls : Well(calls[k])

Tables ==
    /\ jobs \in [JobIds -> Job \cup {NoRow}]
    /\ shared \in Config
    /\ store \in [Processes -> Config]
    /\ in_transit \subseteq Processes \X Config
    /\ calls \in [Calls -> Call]

LEMMA InvariantByCall ==
    CallsInv <=> Tables /\ KeysUnique /\ AllWell
  <1>1. \A k \in Calls : FingerprintOf(k) = Asks(calls[k])
    BY DEF FingerprintOf, Asks
  <1>2. \A k \in Calls : \A i : i \in Known(k) <=>
           calls[k].key \in Keys /\ i \in WithKey(calls[k].key)
    BY DEF Known
  <1>3. ASSUME CallsInv PROVE Tables /\ KeysUnique
    BY <1>3 DEF CallsInv, TypeOK, Tables, OneJobPerKey, KeysUnique
  <1>4. ASSUME CallsInv, NEW k \in Calls PROVE Well(calls[k])
    BY <1>1, <1>2, <1>4
    DEF CallsInv, TypeOK, CallsComplete, OneJobPerKey, ConflictJustified, Well
  <1>5. ASSUME Tables, KeysUnique, \A k \in Calls : Well(calls[k])
        PROVE  CallsInv
    <2>1. TypeOK
      BY <1>5 DEF Tables, TypeOK, Well
    <2>2. CallsComplete
      BY <1>5 DEF CallsComplete, Well
    <2>3. OneJobPerKey
      BY <1>1, <1>5 DEF OneJobPerKey, KeysUnique, Well
    <2>4. ConflictJustified
      BY <1>1, <1>2, <1>5 DEF ConflictJustified, Well
    <2> QED
      BY <2>1, <2>2, <2>3, <2>4 DEF CallsInv
  <1> QED
    BY <1>3, <1>4, <1>5 DEF AllWell

LEMMA InitInvariant == Init => CallsInv
  <1> SUFFICES ASSUME Init PROVE CallsInv
    OBVIOUS
  <1>1. NewCall \in Call /\ NewCall.phase = "new" /\ NewCall.process = None
    BY DEF NewCall, Call, Header
  <1>2. Tables
    BY <1>1, SubmissionAssumption DEF Init, Tables, Config
  <1>3. \A j \in JobIds : jobs[j].key = NoKey
    BY DEF Init, NoRow
  <1>4. AllWell
    BY <1>1 DEF Init, Well, AllWell
  <1> QED
    BY <1>2, <1>3, <1>4, InvariantByCall DEF KeysUnique

\* A step that leaves the jobs alone and changes calls to what the invariant allows.
LEMMA CallsKeep ==
    ASSUME CallsInv, UNCHANGED jobs, Tables',
           \A k \in Calls : calls'[k] = calls[k] \/ Well(calls'[k])
    PROVE  CallsInv'
  <1>1. Tables /\ KeysUnique /\ AllWell
    BY InvariantByCall
  <1>2. \A key : WithKey(key)' = WithKey(key)
    BY DEF WithKey
  <1>3. KeysUnique'
    BY <1>1, <1>2 DEF KeysUnique
  <1>4. ASSUME NEW k \in Calls PROVE Well(calls[k])'
    <2>1. PICK c : c = calls'[k]
      OBVIOUS
    <2>2. Well(c)
      <3>1. CASE calls'[k] = calls[k]
        BY <1>1, <2>1, <3>1 DEF AllWell
      <3>2. CASE Well(calls'[k])
        BY <2>1, <3>2
      <3> QED
        BY <3>1, <3>2
    <2>3. jobs' = jobs /\ WithKey(c.key)' = WithKey(c.key)
      BY <1>2
    <2> QED
      BY <2>1, <2>2, <2>3 DEF Well, Asks
  <1>5. AllWell'
    BY <1>4 DEF AllWell
  <1> QED
    BY <1>3, <1>5, InvariantByCall, PTL

\* One call gets an answer, loses it, or goes on.
LEMMA OneCallKeeps ==
    ASSUME CallsInv, NEW k \in Calls, NEW c \in Call, Well(c),
           calls' = [calls EXCEPT ![k] = c],
           UNCHANGED <<jobs, shared, store, in_transit>>
    PROVE  CallsInv'
  <1>1. Tables
    BY InvariantByCall
  <1>2. /\ calls'[k] = c
        /\ \A n \in Calls : n # k => calls'[n] = calls[n]
        /\ Tables'
    BY <1>1 DEF Tables
  <1>3. \A n \in Calls : calls'[n] = calls[n] \/ Well(calls'[n])
    <2> HIDE DEF Well
    <2> QED
      BY <1>2
  <1> QED
    BY <1>2, <1>3, CallsKeep

-----------------------------------------------------------------------------
(* The runtime configuration *)

LEMMA MergeIsConfig ==
    ASSUME NEW default \in Timeouts, NEW max \in Timeouts
    PROVE  Merge(default, max) \in Config
  BY DEF Merge, Config

LEMMA ConfigKeeps ==
    ASSUME CallsInv, NEW p \in Processes,
           PatchConfig(p) \/ ReadConfig(p) \/ ReplaceConfig(p) \/ RestartProcess(p)
    PROVE  CallsInv'
  <1>1. Tables /\ AllWell
    BY InvariantByCall
  <1>2. ASSUME UNCHANGED <<jobs, calls>>,
               shared' \in Config,
               store' \in [Processes -> Config],
               in_transit' \subseteq Processes \X Config
        PROVE  CallsInv'
    BY <1>1, <1>2, CallsKeep DEF Tables
  <1>3. CASE PatchConfig(p)
    <2>1. shared' \in Config
      BY <1>1, <1>3, MergeIsConfig DEF PatchConfig, Tables, Config
    <2> QED
      BY <1>1, <1>2, <1>3, <2>1 DEF PatchConfig, Tables
  <1>4. CASE ReadConfig(p)
    BY <1>1, <1>2, <1>4 DEF ReadConfig, Tables
  <1>5. CASE ReplaceConfig(p)
    <2>1. PICK read \in in_transit :
             /\ store' = [store EXCEPT ![p] = read[2]]
             /\ in_transit' = in_transit \ {read}
      BY <1>5 DEF ReplaceConfig
    <2>2. read[2] \in Config
      BY <1>1 DEF Tables
    <2> QED
      BY <1>1, <1>2, <1>5, <2>1, <2>2 DEF ReplaceConfig, Tables
  <1>6. CASE RestartProcess(p)
    <2>1. \A k \in Calls : calls'[k] = calls[k] \/ (calls'[k] = Lost(k) /\ calls[k].process = p)
      BY <1>6 DEF RestartProcess
    <2>2. ASSUME NEW k \in Calls, calls'[k] = Lost(k), calls[k].process = p
          PROVE  calls'[k] \in Call /\ Well(calls'[k])
      <3>1. calls[k] \in Call /\ Well(calls[k]) /\ p # None
        BY <1>1, SubmissionAssumption DEF Tables, AllWell
      <3>2. calls[k].payload \in Payloads
        BY <2>2, <3>1 DEF Well
      <3>3. /\ Lost(k) \in Call
            /\ Lost(k).phase = "lost"
            /\ Lost(k).process = None
            /\ Lost(k).payload = calls[k].payload
        BY <3>1, LostFacts
      <3> QED
        BY <2>2, <3>2, <3>3 DEF Well
    <2>3. calls' \in [Calls -> Call]
      BY <1>1, <1>6, <2>1, <2>2 DEF Tables, RestartProcess
    <2>4. Tables'
      BY <1>1, <1>6, <2>3 DEF Tables, RestartProcess
    <2> QED
      BY <1>6, <2>1, <2>2, <2>4, CallsKeep DEF RestartProcess
  <1> QED
    BY <1>3, <1>4, <1>5, <1>6

-----------------------------------------------------------------------------
(* POST /jobs *)

\* A call whose answer is lost.
LEMMA LoseKeeps ==
    ASSUME CallsInv, NEW k \in Calls, calls[k].phase # "new",
           calls' = [calls EXCEPT ![k] = Lost(k)],
           UNCHANGED <<jobs, shared, store, in_transit>>
    PROVE  CallsInv'
  <1>1. calls[k] \in Call /\ Well(calls[k])
    BY InvariantByCall DEF Tables, AllWell
  <1>2. Lost(k) \in Call /\ Lost(k).phase = "lost"
        /\ Lost(k).process = None /\ Lost(k).payload = calls[k].payload
    BY <1>1, LostFacts
  <1>3. Well(Lost(k))
    BY <1>1, <1>2 DEF Well
  <1> QED
    BY <1>2, <1>3, OneCallKeeps

\* A call that looks for its key and finds a job that has it.
LEMMA AnswerKeeps ==
    ASSUME CallsInv, NEW k \in Calls, InFlight(k), NEW i \in Known(k),
           calls' = [calls EXCEPT ![k] = AnswerWith(k, i)],
           UNCHANGED <<jobs, shared, store, in_transit>>
    PROVE  CallsInv'
  <1>1. Tables /\ KeysUnique /\ calls[k] \in Call /\ Well(calls[k])
    BY InvariantByCall DEF Tables, AllWell
  <1>2. /\ calls[k].key \in Keys
        /\ i \in WithKey(calls[k].key)
        /\ i \in JobIds
        /\ jobs[i] # NoRow
        /\ jobs[i].key = calls[k].key
        /\ calls[k].payload \in Payloads
    BY <1>1 DEF Known, WithKey, Well
  <1>3. FingerprintOf(k) = Asks(calls[k])
    BY DEF FingerprintOf, Asks
  <1>4. CASE jobs[i].fingerprint = FingerprintOf(k)
    <2> DEFINE c == Outcome(k, "accepted", i)
    <2>1. /\ c \in Call /\ c.phase = "accepted" /\ c.process = None /\ c.job = i
          /\ c.key = calls[k].key /\ c.payload = calls[k].payload
          /\ c.asked = calls[k].asked /\ c.timeout = calls[k].timeout
      BY <1>1, <1>2, OutcomeFacts
    <2> HIDE DEF c
    <2>2. Asks(c) = FingerprintOf(k)
      BY <1>3, <2>1 DEF Asks
    <2>3. jobs[i] = [key |-> c.key, fingerprint |-> Asks(c)]
      <3>1. jobs[i] \in Job
        BY <1>1, <1>2 DEF Tables
      <3> QED
        BY <1>2, <1>4, <2>1, <2>2, <3>1 DEF Job
    <2>4. WithKey(c.key) = {i}
      <3>1. calls[k].key # NoKey
        BY <1>2, SubmissionAssumption
      <3>2. \A j \in WithKey(jobs[i].key) : j = i
        BY <1>1, <1>2, <3>1 DEF KeysUnique, WithKey
      <3> QED
        BY <1>2, <2>1, <3>2
    <2>5. Well(c)
      BY <1>2, <2>1, <2>3, <2>4 DEF Well
    <2>6. calls' = [calls EXCEPT ![k] = c]
      BY <1>4 DEF AnswerWith, c
    <2> QED
      BY <2>1, <2>5, <2>6, OneCallKeeps
  <1>5. CASE jobs[i].fingerprint # FingerprintOf(k)
    <2> DEFINE c == Outcome(k, "conflict", None)
    <2>1. /\ c \in Call /\ c.phase = "conflict" /\ c.process = None
          /\ c.key = calls[k].key /\ c.payload = calls[k].payload
          /\ c.asked = calls[k].asked /\ c.timeout = calls[k].timeout
      BY <1>1, OutcomeFacts
    <2> HIDE DEF c
    <2>2. Asks(c) = FingerprintOf(k)
      BY <1>3, <2>1 DEF Asks
    <2>3. Well(c)
      BY <1>2, <1>5, <2>1, <2>2 DEF Well
    <2>4. calls' = [calls EXCEPT ![k] = c]
      BY <1>5 DEF AnswerWith, c
    <2> QED
      BY <2>1, <2>3, <2>4, OneCallKeeps
  <1> QED
    BY <1>4, <1>5

\* A call that goes on within its request.
LEMMA GoOnKeeps ==
    ASSUME CallsInv, NEW k \in Calls, InFlight(k), NEW phase \in {"insert", "reread"},
           phase = "reread" => calls[k].key \in Keys,
           calls' = [calls EXCEPT ![k].phase = phase],
           UNCHANGED <<jobs, shared, store, in_transit>>
    PROVE  CallsInv'
  <1> DEFINE c == [calls[k] EXCEPT !.phase = phase]
  <1>1. calls[k] \in Call /\ Well(calls[k])
    BY InvariantByCall DEF Tables, AllWell
  <1>2. /\ c \in Call /\ c.phase = phase /\ c.process = calls[k].process
        /\ c.key = calls[k].key /\ c.payload = calls[k].payload
        /\ c.timeout = calls[k].timeout
    BY <1>1 DEF Call
  <1>3. calls' = [calls EXCEPT ![k] = c]
    OBVIOUS
  <1> HIDE DEF c
  <1>4. Well(c)
    BY <1>1, <1>2 DEF Well
  <1> QED
    BY <1>2, <1>3, <1>4, OneCallKeeps

LEMMA ResolveKeeps ==
    ASSUME CallsInv, NEW k \in Calls, NEW p \in Processes,
           NEW key \in Header, NEW payload \in Payloads, NEW asked \in Timeouts \cup {Unset},
           Resolve(k, p, key, payload, asked),
           UNCHANGED <<jobs, shared, store, in_transit>>
    PROVE  CallsInv'
  <1> DEFINE timeout == IF asked = Unset THEN store[p].default_timeout ELSE asked
             refused == timeout > store[p].max_timeout
             c == [phase |-> IF refused THEN "rejected" ELSE "lookup",
                   process |-> IF refused THEN None ELSE p,
                   key |-> key, payload |-> payload, asked |-> asked,
                   timeout |-> timeout, job |-> None]
  <1>1. timeout \in Timeouts /\ p # None
    BY InvariantByCall, SubmissionAssumption DEF Tables, Config
  <1>2. calls' = [calls EXCEPT ![k] = c]
    BY DEF Resolve
  <1> HIDE DEF timeout, refused
  <1>3. /\ c \in Call
        /\ \/ c.phase = "rejected" /\ c.process = None
           \/ c.phase = "lookup" /\ c.process = p
        /\ c.payload = payload /\ c.timeout = timeout
    <2>1. CASE refused
      BY <1>1, <2>1 DEF Call
    <2>2. CASE ~refused
      BY <1>1, <2>2 DEF Call
    <2> QED
      BY <2>1, <2>2
  <1> HIDE DEF c
  <1>4. Well(c)
    BY <1>1, <1>3 DEF Well
  <1> QED
    BY <1>2, <1>3, <1>4, OneCallKeeps

\* A row with a key nobody has is inserted, and its call accepted.
LEMMA InsertKeeps ==
    ASSUME CallsInv, NEW k \in Calls, calls[k].phase = "insert", KeyIsFree(k),
           NEW i \in JobIds, jobs[i] = NoRow,
           jobs' = [jobs EXCEPT ![i] =
                       [key |-> calls[k].key, fingerprint |-> FingerprintOf(k)]],
           calls' = [calls EXCEPT ![k] = Outcome(k, "accepted", i)],
           UNCHANGED <<shared, store, in_transit>>
    PROVE  CallsInv'
  <1>0. PICK row, c : /\ row = [key |-> calls[k].key, fingerprint |-> FingerprintOf(k)]
                      /\ c = Outcome(k, "accepted", i)
    OBVIOUS
  <1>1. Tables /\ KeysUnique /\ AllWell /\ TypeOK /\ calls[k] \in Call /\ Well(calls[k])
    BY InvariantByCall DEF Tables, AllWell, CallsInv
  <1>2. calls[k].payload \in Payloads /\ calls[k].timeout \in Timeouts
    BY <1>1 DEF Well
  <1>3. row \in Job /\ row.key = calls[k].key /\ row.fingerprint = FingerprintOf(k)
    BY <1>0, <1>1, <1>2 DEF Job, Fingerprint, FingerprintOf, Call
  <1>4. /\ c \in Call /\ c.phase = "accepted" /\ c.process = None /\ c.job = i
        /\ c.key = calls[k].key /\ c.payload = calls[k].payload
        /\ c.asked = calls[k].asked /\ c.timeout = calls[k].timeout
    BY <1>0, <1>1, OutcomeFacts
  <1>5. row = [key |-> c.key, fingerprint |-> Asks(c)]
    BY <1>0, <1>4 DEF Asks, FingerprintOf
  <1>6. jobs' = [jobs EXCEPT ![i] = row] /\ calls' = [calls EXCEPT ![k] = c]
    BY <1>0
  <1>7. /\ jobs' \in [JobIds -> Job \cup {NoRow}]
        /\ jobs'[i] = row
        /\ \A j \in JobIds : jobs[j] # NoRow => j # i /\ jobs'[j] = jobs[j]
        /\ WithKey(row.key)' = WithKey(row.key) \cup {i}
        /\ \A key : key # row.key => WithKey(key)' = WithKey(key)
    BY <1>1, <1>3, <1>6, WhoHasKey
  <1>8. row.key # NoKey => WithKey(row.key) = {}
    BY <1>3 DEF KeyIsFree
  <1>9. calls'[k] = c /\ \A n \in Calls : n # k => calls'[n] = calls[n]
    BY <1>1, <1>6 DEF Tables
  <1>10. Tables'
    BY <1>1, <1>4, <1>6, <1>7 DEF Tables
  <1>11. KeysUnique'
    <2> SUFFICES ASSUME NEW a \in JobIds, NEW b \in JobIds, NEW key,
                        key = jobs'[b].key, key # NoKey, a \in WithKey(key)'
                 PROVE  a = b
      BY DEF KeysUnique, WithKey
    <2>1. CASE key = row.key
      <3>1. WithKey(key)' = {i}
        BY <1>7, <1>8, <2>1
      <3>2. jobs'[b] # NoRow
        BY DEF NoRow
      <3>3. b \in WithKey(key)'
        BY <3>2 DEF WithKey
      <3> QED
        BY <3>1, <3>3
    <2>2. CASE key # row.key
      <3>1. b # i
        BY <1>7, <2>2
      <3>2. jobs'[b] = jobs[b]
        BY <1>1, <1>6, <3>1 DEF Tables
      <3>3. a \in WithKey(key)
        BY <1>7, <2>2
      <3> QED
        BY <1>1, <3>2, <3>3 DEF KeysUnique
    <2> QED
      BY <2>1, <2>2
  <1>12. ASSUME NEW n \in Calls PROVE Well(calls[n])'
    <2>1. CASE n = k
      <3>1. c.key # NoKey => WithKey(c.key)' = {i}
        BY <1>3, <1>4, <1>7, <1>8
      <3>2. /\ jobs'[i] = [key |-> c.key, fingerprint |-> Asks(c)]
            /\ calls'[n] = c
        BY <1>5, <1>7, <1>9, <2>1
      <3> QED
        BY <1>2, <1>4, <3>1, <3>2 DEF Well, Asks
    <2>2. CASE n # k
      <3>1. PICK d : d = calls[n]
        OBVIOUS
      <3>2. calls'[n] = d /\ Well(d)
        BY <1>1, <1>9, <2>2, <3>1 DEF AllWell
      <3>3. ASSUME d.phase = "accepted"
            PROVE  /\ jobs'[d.job] = jobs[d.job]
                   /\ d.key # NoKey => WithKey(d.key)' = WithKey(d.key)
        <4>1. d.job \in JobIds /\ jobs[d.job] # NoRow
          BY <3>2, <3>3, RowIsThere DEF Well
        <4>2. d.key # NoKey => d.key # row.key
          BY <1>8, <3>2, <3>3 DEF Well
        <4> QED
          BY <1>7, <4>1, <4>2
      <3>4. ASSUME d.phase = "conflict"
            PROVE  \E j \in WithKey(d.key)' : jobs'[j].fingerprint # Asks(d)
        <4>1. PICK j \in WithKey(d.key) : jobs[j].fingerprint # Asks(d)
          BY <3>2, <3>4 DEF Well
        <4>2. jobs'[j] = jobs[j]
          BY <1>7 DEF WithKey
        <4>3. j \in WithKey(d.key)'
          BY <1>7
        <4> QED
          BY <4>1, <4>2, <4>3
      <3> QED
        BY <3>2, <3>3, <3>4 DEF Well, Asks
    <2> QED
      BY <2>1, <2>2
  <1>13. AllWell'
    BY <1>12 DEF AllWell
  <1> QED
    BY <1>10, <1>11, <1>13, InvariantByCall, PTL

LEMMA CallStepKeeps ==
    ASSUME CallsInv, NEW k \in Calls, CallStep(k)
    PROVE  CallsInv'
  <1>1. ASSUME NEW p \in Processes, Send(k, p) PROVE CallsInv'
    <2>1. CASE calls[k].phase = "new"
      <3>1. PICK key \in Header, payload \in Payloads, asked \in Timeouts \cup {Unset} :
               Resolve(k, p, key, payload, asked)
        BY <1>1, <2>1 DEF Send
      <3> QED
        BY <1>1, <3>1, ResolveKeeps DEF Send
    <2>2. CASE calls[k].phase = "lost"
      <3>1. calls[k] \in Call /\ Well(calls[k])
        BY InvariantByCall DEF Tables, AllWell
      <3>2. /\ calls[k].key \in Header
            /\ calls[k].payload \in Payloads
            /\ calls[k].asked \in Timeouts \cup {Unset}
        BY <2>2, <3>1 DEF Well, Call
      <3>3. Resolve(k, p, calls[k].key, calls[k].payload, calls[k].asked)
        BY <1>1, <2>2 DEF Send
      <3> QED
        BY <1>1, <3>2, <3>3, ResolveKeeps DEF Send
    <2> QED
      BY <1>1, <2>1, <2>2 DEF Send
  <1>2. CASE LookUp(k)
    <2>1. CASE calls' = [calls EXCEPT ![k].phase = "insert"]
      BY <1>2, <2>1, GoOnKeeps DEF LookUp
    <2>2. ASSUME NEW i \in Known(k), calls' = [calls EXCEPT ![k] = AnswerWith(k, i)]
          PROVE  CallsInv'
      BY <1>2, <2>2, AnswerKeeps DEF LookUp
    <2> QED
      BY <1>2, <2>1, <2>2 DEF LookUp
  <1>3. CASE Insert(k)
    <2>1. CASE KeyIsFree(k)
      BY <1>3, <2>1, InsertKeeps DEF Insert
    <2>2. CASE ~KeyIsFree(k) /\ calls[k].key \in Keys
      BY <1>3, <2>2, GoOnKeeps DEF Insert
    <2>3. CASE ~KeyIsFree(k) /\ calls[k].key \notin Keys
      BY <1>3, <2>3, LoseKeeps DEF Insert
    <2> QED
      BY <2>1, <2>2, <2>3
  <1>4. CASE Reread(k)
    BY <1>4, AnswerKeeps DEF Reread
  <1>5. CASE LoseAnswer(k)
    BY <1>5, LoseKeeps DEF LoseAnswer
  <1> QED
    BY <1>1, <1>2, <1>3, <1>4, <1>5 DEF CallStep

LEMMA NextKeeps == CallsInv /\ [Next]_vars => CallsInv'
  <1> SUFFICES ASSUME CallsInv, [Next]_vars PROVE CallsInv'
    OBVIOUS
  <1>1. CASE UNCHANGED vars
    <2>1. Tables'
      BY <1>1, InvariantByCall DEF vars, Tables
    <2> QED
      BY <1>1, <2>1, CallsKeep DEF vars
  <1>2. CASE Next
    BY <1>2, ConfigKeeps, CallStepKeeps DEF Next
  <1> QED
    BY <1>1, <1>2

-----------------------------------------------------------------------------
(* What a step does to the request of a call, and to the row of a job *)

SameRequest(c, d) == d.key = c.key /\ d.payload = c.payload /\ d.asked = c.asked

\* A call is sent, loses its answer, or goes on with the limits it has.
CallMove(c, d) ==
    \/ d = c
    \/ /\ d.phase \in {"lookup", "rejected"}
       /\ c.phase = "new" \/ SameRequest(c, d)
       /\ d.asked # Unset => d.timeout = d.asked
    \/ c.phase # "new" /\ d.phase = "lost" /\ SameRequest(c, d)
    \/ /\ c.phase \notin {"new", "lost"} /\ d.phase \notin {"new", "lost"}
       /\ SameRequest(c, d) /\ d.timeout = c.timeout

LEMMA ResolveMoves ==
    ASSUME CallsInv, NEW k \in Calls, NEW p \in Processes, NEW key, NEW payload, NEW asked,
           Resolve(k, p, key, payload, asked),
           \/ calls[k].phase = "new"
           \/ key = calls[k].key /\ payload = calls[k].payload /\ asked = calls[k].asked
    PROVE  \A n \in Calls : CallMove(calls[n], calls'[n])
  <1> DEFINE timeout == IF asked = Unset THEN store[p].default_timeout ELSE asked
             refused == timeout > store[p].max_timeout
  <1>1. calls' = [calls EXCEPT ![k] =
                     [phase |-> IF refused THEN "rejected" ELSE "lookup",
                      process |-> IF refused THEN None ELSE p,
                      key |-> key, payload |-> payload, asked |-> asked,
                      timeout |-> timeout, job |-> None]]
    BY DEF Resolve
  <1>2. asked # Unset => timeout = asked
    OBVIOUS
  <1> HIDE DEF timeout, refused
  <1>3. calls \in [Calls -> Call]
    BY InvariantByCall DEF Tables
  <1>4. \A n \in Calls : n # k => calls'[n] = calls[n]
    BY <1>1, <1>3
  <1>5. /\ calls'[k].phase \in {"lookup", "rejected"}
        /\ calls'[k].key = key /\ calls'[k].payload = payload /\ calls'[k].asked = asked
        /\ calls'[k].timeout = timeout
    BY <1>1, <1>3
  <1>6. CallMove(calls[k], calls'[k])
    BY <1>2, <1>5 DEF CallMove, SameRequest
  <1> QED
    BY <1>4, <1>6 DEF CallMove

LEMMA StepCalls ==
    ASSUME CallsInv, [Next]_vars, NEW n \in Calls
    PROVE  CallMove(calls[n], calls'[n])
  <1> USE DEF CallMove
  <1>1. calls \in [Calls -> Call] /\ \A k \in Calls : calls[k] \in Call /\ Well(calls[k])
    BY InvariantByCall DEF Tables, AllWell
  <1>2. CASE UNCHANGED calls
    BY <1>2
  <1>3. ASSUME NEW k \in Calls, NEW c, calls' = [calls EXCEPT ![k] = c],
               CallMove(calls[k], c)
        PROVE  CallMove(calls[n], calls'[n])
    BY <1>1, <1>3
  <1>4. ASSUME NEW k \in Calls, calls[k].phase # "new"
        PROVE  CallMove(calls[k], Lost(k))
    BY <1>1, <1>4, LostFacts DEF SameRequest
  <1>5. ASSUME NEW k \in Calls, InFlight(k), NEW phase \in {"accepted", "conflict"},
               NEW job \in JobIds \cup {None}
        PROVE  CallMove(calls[k], Outcome(k, phase, job))
    BY <1>1, <1>5, OutcomeFacts DEF SameRequest
  <1>6. ASSUME NEW k \in Calls, InFlight(k), NEW phase \in {"insert", "reread"},
               calls' = [calls EXCEPT ![k].phase = phase]
        PROVE  CallMove(calls[n], calls'[n])
    <2>1. calls' = [calls EXCEPT ![k] = [calls[k] EXCEPT !.phase = phase]]
      BY <1>6
    <2>2. CallMove(calls[k], [calls[k] EXCEPT !.phase = phase])
      BY <1>1, <1>6 DEF SameRequest, Call
    <2> QED
      BY <1>3, <2>1, <2>2
  <1>7. ASSUME NEW k \in Calls, InFlight(k), NEW i \in Known(k)
        PROVE  CallMove(calls[k], AnswerWith(k, i))
    BY <1>5, <1>7 DEF AnswerWith, Known, WithKey
  <1> HIDE DEF CallMove
  <1>8. ASSUME NEW p \in Processes, RestartProcess(p)
        PROVE  CallMove(calls[n], calls'[n])
    <2>1. CASE calls[n].process = p
      <3>1. calls[n].phase # "new"
        BY <1>1, <2>1, SubmissionAssumption DEF Well
      <3> QED
        BY <1>4, <1>8, <2>1, <3>1 DEF RestartProcess
    <2>2. CASE calls[n].process # p
      BY <1>8, <2>2 DEF RestartProcess, CallMove
    <2> QED
      BY <2>1, <2>2
  <1>9. ASSUME NEW k \in Calls, CallStep(k)
        PROVE  CallMove(calls[n], calls'[n])
    <2>1. ASSUME NEW p \in Processes, Send(k, p) PROVE CallMove(calls[n], calls'[n])
      BY <2>1, ResolveMoves DEF Send
    <2>2. CASE LookUp(k)
      BY <1>3, <1>6, <1>7, <2>2 DEF LookUp
    <2>3. CASE Insert(k)
      BY <1>3, <1>4, <1>5, <1>6, <2>3 DEF Insert
    <2>4. CASE Reread(k)
      BY <1>3, <1>7, <2>4 DEF Reread
    <2>5. CASE LoseAnswer(k)
      BY <1>3, <1>4, <2>5 DEF LoseAnswer
    <2> QED
      BY <1>9, <2>1, <2>2, <2>3, <2>4, <2>5 DEF CallStep
  <1>10. ASSUME NEW p \in Processes, PatchConfig(p) \/ ReadConfig(p) \/ ReplaceConfig(p)
         PROVE  UNCHANGED calls
    BY <1>10 DEF PatchConfig, ReadConfig, ReplaceConfig
  <1> QED
    BY <1>2, <1>8, <1>9, <1>10 DEF Next, vars

\* A job is as it was, or just inserted by a call in flight.
LEMMA StepRows ==
    ASSUME CallsInv, [Next]_vars, NEW i \in JobIds
    PROVE  \/ jobs'[i] = jobs[i]
           \/ \E k \in Calls : /\ InFlight(k)
                               /\ jobs'[i] = [key |-> calls[k].key,
                                              fingerprint |-> FingerprintOf(k)]
  <1>1. jobs \in [JobIds -> Job \cup {NoRow}]
    BY InvariantByCall DEF Tables
  <1>2. ASSUME NEW k \in Calls, Insert(k)
        PROVE  UNCHANGED jobs \/ \E j \in JobIds :
                  InFlight(k) /\ jobs' = [jobs EXCEPT ![j] = [key |-> calls[k].key,
                                                  fingerprint |-> FingerprintOf(k)]]
    BY <1>2 DEF Insert
  <1>3. UNCHANGED jobs \/ \E k \in Calls : Insert(k)
    BY DEF Next, CallStep, vars, PatchConfig, ReadConfig, ReplaceConfig, RestartProcess,
           Send, LookUp, Reread, LoseAnswer
  <1> QED
    BY <1>1, <1>2, <1>3

\* Requests are not forgotten, nor what limits they asked for.
LEMMA RequestsKept ==
    ASSUME CallsInv, RequestsRemembered, [Next]_vars
    PROVE  RequestsRemembered'
  <1>1. \A k \in Calls : CallMove(calls[k], calls'[k])
    BY StepCalls
  <1>2. ASSUME NEW k \in Calls, calls'[k].phase \notin {"new", "lost"}, calls'[k].asked # Unset
        PROVE  calls'[k].timeout = calls'[k].asked
    BY <1>1, <1>2 DEF CallMove, SameRequest, RequestsRemembered
  <1>3. \A k \in Calls : calls[k].phase # "new" =>
           calls'[k].phase # "new" /\ SameRequest(calls[k], calls'[k])
    BY <1>1 DEF CallMove, SameRequest
  <1>4. ASSUME NEW i \in JobIds, jobs'[i] # NoRow
        PROVE  \E k \in Calls :
                  /\ calls'[k].phase # "new"
                  /\ calls'[k].key = jobs'[i].key
                  /\ calls'[k].payload = jobs'[i].fingerprint.payload
                  /\ calls'[k].asked = jobs'[i].fingerprint.asked
                  /\ calls'[k].asked # Unset => jobs'[i].fingerprint.timeout = calls'[k].asked
    <2>1. CASE jobs'[i] = jobs[i]
      <3>1. PICK k \in Calls :
               /\ calls[k].phase # "new"
               /\ calls[k].key = jobs[i].key
               /\ calls[k].payload = jobs[i].fingerprint.payload
               /\ calls[k].asked = jobs[i].fingerprint.asked
               /\ calls[k].asked # Unset => jobs[i].fingerprint.timeout = calls[k].asked
        BY <1>4, <2>1 DEF RequestsRemembered, Request
      <3> QED
        BY <1>3, <2>1, <3>1 DEF SameRequest
    <2>2. ASSUME NEW k \in Calls, InFlight(k),
                 jobs'[i] = [key |-> calls[k].key, fingerprint |-> FingerprintOf(k)]
          PROVE  /\ calls'[k].phase # "new"
                 /\ calls'[k].key = jobs'[i].key
                 /\ calls'[k].payload = jobs'[i].fingerprint.payload
                 /\ calls'[k].asked = jobs'[i].fingerprint.asked
                 /\ calls'[k].asked # Unset => jobs'[i].fingerprint.timeout = calls'[k].asked
      <3>1. calls[k].asked # Unset => calls[k].timeout = calls[k].asked
        BY <2>2 DEF RequestsRemembered
      <3> QED
        BY <1>3, <2>2, <3>1 DEF SameRequest, FingerprintOf
    <2> QED
      BY <2>1, <2>2, StepRows
  <1> QED
    BY <1>2, <1>4 DEF RequestsRemembered, Request

LEMMA InitRemembered == Init => RequestsRemembered
  BY DEF Init, RequestsRemembered, NewCall

\* A job that makes a request with limits of its own a conflict is another request's.
LEMMA RememberedRecognizes ==
    IInv => RepetitionRecognized
  <1> SUFFICES ASSUME IInv, NEW k \in Calls,
                      calls[k].phase = "conflict", calls[k].asked # Unset
               PROVE  \E n \in Calls : /\ calls[n].phase # "new"
                                       /\ calls[n].key = calls[k].key
                                       /\ Request(n) # Request(k)
    BY DEF RepetitionRecognized
  <1>1. PICK i \in JobIds : /\ jobs[i] # NoRow /\ jobs[i].key = calls[k].key
                            /\ jobs[i].fingerprint # FingerprintOf(k)
    BY DEF IInv, CallsInv, ConflictJustified, Known, WithKey
  <1>2. PICK n \in Calls :
           /\ calls[n].phase # "new"
           /\ calls[n].key = jobs[i].key
           /\ Request(n) = <<jobs[i].fingerprint.payload, jobs[i].fingerprint.asked>>
           /\ calls[n].asked # Unset => jobs[i].fingerprint.timeout = calls[n].asked
    BY <1>1 DEF IInv, RequestsRemembered
  <1>3. calls[k].timeout = calls[k].asked
    BY DEF IInv, RequestsRemembered
  <1>4. jobs[i].fingerprint \in Fingerprint
    BY <1>1 DEF IInv, CallsInv, TypeOK, Job
  <1>5. ASSUME Request(n) = Request(k) PROVE FALSE
    <2>1. /\ calls[k].payload = jobs[i].fingerprint.payload
          /\ calls[k].asked = jobs[i].fingerprint.asked
          /\ calls[k].timeout = jobs[i].fingerprint.timeout
      BY <1>2, <1>3, <1>5 DEF Request
    <2>2. jobs[i].fingerprint = FingerprintOf(k)
      BY <1>4, <2>1 DEF Fingerprint, FingerprintOf
    <2> QED
      BY <1>1, <2>2
  <1> QED
    BY <1>1, <1>2, <1>5

-----------------------------------------------------------------------------
(* The theorems *)

\* IInv holds in every reachable state of POST /jobs and of the runtime configuration.
THEOREM Invariance == Spec => []IInv
  <1>1. Init => IInv
    BY InitInvariant, InitRemembered DEF IInv
  <1>2. IInv /\ [Next]_vars => IInv'
    BY NextKeeps, RequestsKept DEF IInv
  <1> QED
    BY <1>1, <1>2, PTL DEF Spec

\* The tables, the stores of the processes and the calls stay well typed.
THEOREM TypeCorrectness == Spec => []TypeOK
  <1>1. IInv => TypeOK
    BY DEF IInv, CallsInv
  <1> QED
    BY <1>1, Invariance, PTL

\* create_job: however many requests race and however often their answers are lost, a
\* key has one job, and every 202 for the key names it.
THEOREM OneJobPerKeyTheorem == Spec => []OneJobPerKey
  <1>1. IInv => OneJobPerKey
    BY DEF IInv, CallsInv
  <1> QED
    BY <1>1, Invariance, PTL

\* IdempotencyConflictError is raised only for a key that stands for another request.
THEOREM ConflictJustifiedTheorem == Spec => []ConflictJustified
  <1>1. IInv => ConflictJustified
    BY DEF IInv, CallsInv
  <1> QED
    BY <1>1, Invariance, PTL

\* create_job and its fingerprint: a client who spells out its limits and alone uses its
\* key never gets a 409, however often it repeats its request, and wherever.
THEOREM RepetitionRecognizedTheorem == Spec => []RepetitionRecognized
  BY RememberedRecognizes, Invariance, PTL

-----------------------------------------------------------------------------
(* Default and maximum *)

\* The environment of the first process has its default within its maximum.
ConsistentEnvironment ==
    \A c \in InitConfigs : c.default_timeout <= c.max_timeout

DefaultsInv == DefaultWithinMax /\ DefaultNeverRejected

LEMMA MergeWithinMax ==
    ASSUME NEW default \in Timeouts, NEW max \in Timeouts
    PROVE  Merge(default, max).default_timeout <= Merge(default, max).max_timeout
  <1>1. default \in Nat /\ max \in Nat
    BY SubmissionAssumption
  <1> QED
    BY <1>1 DEF Merge

\* Configurations only spread, but for a patch, which is merged.
LEMMA DefaultsKept ==
    IInv /\ DefaultsInv /\ [Next]_vars => DefaultsInv'
  <1> SUFFICES ASSUME IInv, DefaultsInv, [Next]_vars PROVE DefaultsInv'
    OBVIOUS
  <1> DEFINE Within(c) == c.default_timeout <= c.max_timeout
  <1>1. /\ Tables
        /\ Within(shared)
        /\ \A p \in Processes : Within(store[p])
        /\ \A read \in in_transit : Within(read[2])
        /\ \A k \in Calls : calls[k].phase = "rejected" => calls[k].asked # Unset
    BY InvariantByCall DEF IInv, DefaultsInv, DefaultWithinMax, DefaultNeverRejected
  <1>2. ASSUME Within(shared'),
               \A p \in Processes : Within(store'[p]),
               \A read \in in_transit' : Within(read[2])
        PROVE  DefaultWithinMax'
    BY <1>2 DEF DefaultWithinMax
  <1>3. ASSUME \A k \in Calls : \/ calls'[k] = calls[k]
                                \/ calls'[k].phase # "rejected"
                                \/ calls'[k].asked # Unset
        PROVE  DefaultNeverRejected'
    BY <1>1, <1>3 DEF DefaultNeverRejected
  <1>4. CASE UNCHANGED vars
    BY <1>1, <1>2, <1>3, <1>4 DEF vars, DefaultsInv
  <1>5. ASSUME NEW p \in Processes, PatchConfig(p) PROVE DefaultsInv'
    <2>1. PICK default \in Timeouts \cup {shared.default_timeout},
               max \in Timeouts \cup {shared.max_timeout} :
             /\ shared' = Merge(default, max)
             /\ in_transit' = in_transit \cup {<<p, shared'>>}
      BY <1>5 DEF PatchConfig
    <2>2. default \in Timeouts /\ max \in Timeouts
      BY <1>1 DEF Tables, Config
    <2>3. Within(shared')
      BY <2>1, <2>2, MergeWithinMax
    <2>4. \A read \in in_transit' : Within(read[2])
      BY <1>1, <2>1, <2>3
    <2> HIDE DEF Within
    <2> QED
      BY <1>1, <1>2, <1>3, <1>5, <2>3, <2>4 DEF PatchConfig, DefaultsInv
  <1>6. ASSUME NEW p \in Processes, ReadConfig(p) PROVE DefaultsInv'
    <2>1. \A read \in in_transit' : Within(read[2])
      BY <1>1, <1>6 DEF ReadConfig
    <2> HIDE DEF Within
    <2> QED
      BY <1>1, <1>2, <1>3, <1>6, <2>1 DEF ReadConfig, DefaultsInv
  <1>7. ASSUME NEW p \in Processes, ReplaceConfig(p) PROVE DefaultsInv'
    <2>1. PICK read \in in_transit :
             /\ store' = [store EXCEPT ![p] = read[2]]
             /\ in_transit' = in_transit \ {read}
      BY <1>7 DEF ReplaceConfig
    <2>2. \A q \in Processes : store'[q] = store[q] \/ store'[q] = read[2]
      BY <1>1, <2>1 DEF Tables
    <2> HIDE DEF Within
    <2> QED
      BY <1>1, <1>2, <1>3, <1>7, <2>1, <2>2 DEF ReplaceConfig, DefaultsInv
  <1>8. ASSUME NEW p \in Processes, RestartProcess(p) PROVE DefaultsInv'
    <2>1. \A q \in Processes : store'[q] = store[q] \/ store'[q] = shared
      BY <1>1, <1>8 DEF Tables, RestartProcess
    <2>2. ASSUME NEW k \in Calls
          PROVE  calls'[k] = calls[k] \/ calls'[k].phase # "rejected"
      <3>1. calls'[k] = calls[k] \/ calls'[k] = Lost(k)
        BY <1>8 DEF RestartProcess
      <3>2. Lost(k).phase = "lost"
        BY <1>1, LostFacts DEF Tables
      <3> QED
        BY <3>1, <3>2
    <2> HIDE DEF Within
    <2> QED
      BY <1>1, <1>2, <1>3, <1>8, <2>1, <2>2 DEF RestartProcess, DefaultsInv
  <1>9. ASSUME NEW k \in Calls, CallStep(k) PROVE DefaultsInv'
    <2>1. UNCHANGED <<shared, store, in_transit>>
      BY <1>9 DEF CallStep, Send, LookUp, Insert, Reread, LoseAnswer
    <2>2. calls[k] \in Call
      BY <1>1 DEF Tables
    <2>3. ASSUME NEW c, calls' = [calls EXCEPT ![k] = c],
                 c.phase # "rejected" \/ c.asked # Unset
          PROVE  DefaultsInv'
      <3>1. \A n \in Calls : calls'[n] = calls[n] \/ calls'[n] = c
        BY <1>1, <2>3 DEF Tables
      <3> HIDE DEF Within
      <3> QED
        BY <1>1, <1>2, <1>3, <2>1, <2>3, <3>1 DEF DefaultsInv
    <2>4. ASSUME NEW p \in Processes, Send(k, p) PROVE DefaultsInv'
      <3>1. PICK key \in Header, payload \in Payloads \cup {None},
                 asked \in Timeouts \cup {Unset} :
               Resolve(k, p, key, payload, asked)
        <4>1. CASE calls[k].phase = "new"
          BY <2>4, <4>1 DEF Send
        <4>2. CASE calls[k].phase = "lost"
          <5>1. Resolve(k, p, calls[k].key, calls[k].payload, calls[k].asked)
            BY <2>4, <4>2 DEF Send
          <5> HIDE DEF Resolve
          <5> QED
            BY <2>2, <5>1 DEF Call
        <4> QED
          BY <2>4, <4>1, <4>2 DEF Send
      <3> DEFINE timeout == IF asked = Unset THEN store[p].default_timeout ELSE asked
                 refused == timeout > store[p].max_timeout
                 c == [phase |-> IF refused THEN "rejected" ELSE "lookup",
                       process |-> IF refused THEN None ELSE p,
                       key |-> key, payload |-> payload, asked |-> asked,
                       timeout |-> timeout, job |-> None]
      <3>2. calls' = [calls EXCEPT ![k] = c]
        BY <3>1 DEF Resolve
      <3>3. /\ store[p].default_timeout \in Nat
            /\ store[p].max_timeout \in Nat
            /\ store[p].default_timeout <= store[p].max_timeout
        BY <1>1, SubmissionAssumption DEF Tables, Config
      <3>4. refused => asked # Unset
        BY <3>3
      <3>5. c.phase # "rejected" \/ c.asked # Unset
        BY <3>4
      <3> QED
        BY <2>3, <3>2, <3>5
    <2>5. \A phase \in Phases, job \in JobIds \cup {None} :
             Outcome(k, phase, job).phase = phase
      BY <2>2, OutcomeFacts
    <2>6. Lost(k).phase = "lost"
      BY <2>2, LostFacts
    <2>7. \A i \in JobIds : AnswerWith(k, i).phase \in {"accepted", "conflict"}
      BY <2>5 DEF AnswerWith
    <2>8. \A phase \in {"insert", "reread"} :
             /\ [calls EXCEPT ![k].phase = phase] =
                   [calls EXCEPT ![k] = [calls[k] EXCEPT !.phase = phase]]
             /\ [calls[k] EXCEPT !.phase = phase].phase = phase
      BY <2>2 DEF Call
    <2>9. Known(k) \subseteq JobIds
      BY DEF Known, WithKey
    <2>10. CASE LookUp(k)
      BY <2>3, <2>7, <2>8, <2>9, <2>10 DEF LookUp
    <2>11. CASE Insert(k)
      <3>1. CASE KeyIsFree(k)
        <4>1. PICK i \in JobIds : calls' = [calls EXCEPT ![k] = Outcome(k, "accepted", i)]
          BY <2>11, <3>1 DEF Insert
        <4> QED
          BY <2>3, <2>5, <4>1
      <3>2. CASE ~KeyIsFree(k) /\ calls[k].key \in Keys
        BY <2>3, <2>8, <2>11, <3>2 DEF Insert
      <3>3. CASE ~KeyIsFree(k) /\ calls[k].key \notin Keys
        BY <2>3, <2>6, <2>11, <3>3 DEF Insert
      <3> QED
        BY <3>1, <3>2, <3>3
    <2>12. CASE Reread(k)
      BY <2>3, <2>7, <2>9, <2>12 DEF Reread
    <2>13. CASE LoseAnswer(k)
      BY <2>3, <2>6, <2>13 DEF LoseAnswer
    <2> QED
      BY <1>9, <2>4, <2>10, <2>11, <2>12, <2>13 DEF CallStep
  <1> QED
    BY <1>4, <1>5, <1>6, <1>7, <1>8, <1>9 DEF Next

LEMMA InitDefaults ==
    ASSUME ConsistentEnvironment
    PROVE  Init => DefaultsInv
  BY DEF ConsistentEnvironment, Init, DefaultsInv, DefaultWithinMax, DefaultNeverRejected, NewCall

\* merge_runtime_config keeps the default within the maximum, if it was at the start, in
\* the row and in every copy of it.
THEOREM DefaultWithinMaxTheorem ==
    ASSUME ConsistentEnvironment
    PROVE  Spec => []DefaultWithinMax
  <1>1. DefaultsInv => DefaultWithinMax
    BY DEF DefaultsInv
  <1> QED
    BY <1>1, Invariance, InitDefaults, DefaultsKept, PTL DEF Spec

\* So POST /jobs never answers 422 to a request without a timeout.
THEOREM DefaultNeverRejectedTheorem ==
    ASSUME ConsistentEnvironment
    PROVE  Spec => []DefaultNeverRejected
  <1>1. DefaultsInv => DefaultNeverRejected
    BY DEF DefaultsInv
  <1> QED
    BY <1>1, Invariance, InitDefaults, DefaultsKept, PTL DEF Spec

=============================================================================
