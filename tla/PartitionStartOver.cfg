CONSTANTS
    Nodes = {n1, n2, n3}
    Ids = {a}
    Calls = {c1, c2}
    BadIds = {}
    MetaKeys = {}
    NoItem = NoItem
    MaxBatch = 1
    Nothing = Nothing
    Failed = Failed
    Refused = Refused
    MaxCrashes = 1
    MaxTail = 1
    LogsStray = "none"
    ManySnapshots = FALSE
SPECIFICATION Spec
SYMMETRY Symmetry
INVARIANTS SameChanges
CHECK_DEADLOCK FALSE
