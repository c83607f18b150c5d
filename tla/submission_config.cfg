\* Two API processes, one of which nobody asks for the configuration.
CONSTANTS
    Processes = {p1, p2}
    Calls = {k1}
    JobIds = {i1}
    Keys = {}
    NoKey = NoKey
    EmptyKey = EmptyKey
    Payloads = {b1}
    Timeouts = {1, 2}
    Unset = Unset
    InitConfigs <- MCInitConfigs
    MaxInTransit = 1
    None = None
SPECIFICATION FairSpec
PROPERTIES
    ConfigReachesEveryProcess
