\* Two clients, one key, two API processes with configurations of their own age.
CONSTANTS
    Processes = {p1, p2}
    Calls = {k1, k2}
    JobIds = {i1, i2}
    Keys = {order}
    NoKey = NoKey
    EmptyKey = EmptyKey
    Payloads = {b1}
    Timeouts = {1, 2}
    Unset = Unset
    InitConfigs <- MCInitConfigs
    MaxInTransit = 1
    None = None
SYMMETRY MCSymmetry
SPECIFICATION Spec
INVARIANTS
    OneJobPerKey
    ConflictJustified
    IInv
    DefaultWithinMax
    RepetitionRecognized
