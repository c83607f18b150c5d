\* One schedule of an expression that goes on or ends, two PATCH or POST requests in flight, two worker processes.
CONSTANTS
    Schedules = {s1}
    Crons = {everyTwo, once}
    everyTwo = everyTwo
    once = once
    Occurrences <- MCOccurrences
    Limit = 1
    Clients = {c1, c2}
    Workers = {w1, w2}
    Horizon = 5
    NoTime = NoTime
SYMMETRY MCSymmetry
SPECIFICATION Spec
INVARIANTS
    OneJobPerOccurrence
    NothingSkipped
    IInv
PROPERTIES
    ImplementsContract
