\* Two schedules, of expressions that go on or end, that share batches of one;
\* one worker process, one request in flight.
CONSTANTS
    Schedules = {s1, s2}
    Crons = {everyTwo, once}
    everyTwo = everyTwo
    once = once
    Occurrences <- MCOccurrences
    Limit = 1
    Clients = {c1}
    Workers = {w1}
    Horizon = 3
    NoTime = NoTime
SPECIFICATION FairSpec
PROPERTIES
    DueOccurrenceGenerated
