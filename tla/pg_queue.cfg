\* Two jobs, two workers that share a worker id, one request at a time.
CONSTANTS
    Jobs = {j1, j2}
    Workers = {t1, t2}
    Clients = {c1}
    WorkerIds = {w}
    WorkerId <- MCSharedId
    NoWorker = NoWorker
    NoJob = NoJob
    NoSession = NoSession
    RetryLimits = {0, 1}
    Timeouts = {1}
    RunAts = {0}
    Backoffs = {1}
    Grace = 0
    Horizon = 2
SYMMETRY MCSymmetry
SPECIFICATION Spec
INVARIANTS
    ClaimCurrentOrRecorded
    SingleOwner
    DeadLetterExact
    IInv
    OnlyDrainsDeadlock
PROPERTIES
    LeaseRespected
    ImplementsContract
CONSTRAINT TwoTransactionsOpen
