\* Two schedules, two worker processes with batches of two, one request in flight.
CONSTANTS
    Schedules = {s1, s2}
    Crons = {everyOne}
    Occurrences <- MCOccurrences
    Limit = 2
    Clients = {c1}
    Workers = {w1, w2}
    Horizon = 2
    NoTime = NoTime
    Nobody = Nobody
SYMMETRY MCSymmetry
SPECIFICATION PgSpec
INVARIANTS
    OneJobPerOccurrence
    NothingSkipped
    BatchesNeverWait
    PgIInv
PROPERTIES
    ImplementsContract
CONSTRAINT TwoUnderWay
