\* Two threads, one job, clock readings up to one unit old.
CONSTANTS
    Jobs = {j1}
    Threads = {t1, t2}
    WorkerIds = {t1, t2}
    WorkerId <- MCDistinctIds
    NoWorker = NoWorker
    NoJob = NoJob
    Priorities = {0}
    RetryLimits = {0, 1}
    Timeouts = {1}
    RunAts = {5}
    BackoffConfigs <- MCGrowingBackoff
    Grace = 1
    LockWait = 1
    Now = 4
SPECIFICATION FairSpec
PROPERTIES
    EveryJobSettles
