\* Two jobs of different budgets, two threads that share one worker id,
\* clock readings up to one unit old.
CONSTANTS
    Jobs = {j1, j2}
    Threads = {t1, t2}
    WorkerIds = {w}
    WorkerId <- MCSharedId
    NoWorker = NoWorker
    NoJob = NoJob
    Priorities = {0}
    RetryLimits = {0, 1}
    Timeouts = {0}
    RunAts = {}
    BackoffConfigs <- MCShortBackoff
    Grace = 0
    LockWait = 1
    Now = 2
SYMMETRY MCSymmetry
SPECIFICATION Spec
INVARIANTS
    AttemptLedger
    DeadLetterExact
    ResultIsOfLastSuccess
    ClaimCurrentOrRecorded
    SingleOwner
    IInv
PROPERTIES
    NoSecondExecution
    LeaseRespected
    ImplementsContract
