\* Two sizes and one other field, one thread to spare, one request at a time, one
\* database error.
CONSTANTS
    Threads = {t1, t2, t3}
    Requests = {r1}
    Configs <- MCAnyField
    MaxFailures = 1
    NoConfig = NoConfig
SPECIFICATION FairSpec
INVARIANTS
    ThreadsBounded
    FirstSlotServes
    IInv
PROPERTIES
    SurplusLeaves
    StopEndsThreads
