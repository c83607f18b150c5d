\* Three threads, timeouts longer than the sync interval, two
\* database errors.
CONSTANTS
    Threads = {t1, t2, t3}
    SyncInterval = 2
    PollInterval = 1
    Timeout = 3
    MaxFailures = 2
    NoRow = NoRow
SYMMETRY MCSymmetry
SPECIFICATION Spec
INVARIANTS
    BusyBelowActive
    HeartbeatDelayBounded
    IInv

