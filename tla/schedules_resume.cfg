\* One schedule that is resumed although it is not paused.
CONSTANTS
    Schedules = {s1}
    Crons = {everyTwo}
    everyTwo = everyTwo
    once = once
    Occurrences <- MCOccurrences
    Limit = 1
    Clients = {c1}
    Workers = {w1}
    Horizon = 3
    NoTime = NoTime
SPECIFICATION Spec
PROPERTIES
    EnabledKeepsOccurrences
