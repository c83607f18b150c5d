\* A worker container without API: the configuration is changed elsewhere, and no
\* thread meets a database error.
CONSTANTS
    Threads = {t1, t2, t3}
    Requests = {}
    Configs <- MCThreeSizes
    MaxFailures = 0
    NoConfig = NoConfig
SPECIFICATION FairSpec
PROPERTIES
    PoolConverges
