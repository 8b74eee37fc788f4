CONSTANTS
    Nodes = {n1, n2}
    Ids = {a}
    Calls = {c1, c2}
    BadIds = {}
    MetaKeys = {k}
    NoItem = NoItem
    MaxBatch = 1
    Nothing = Nothing
    Failed = Failed
    Refused = Refused
    MaxCrashes = 1
    MaxTail = 0
    LogsStray = "follow"
    ManySnapshots = FALSE
SPECIFICATION Spec
SYMMETRY Symmetry
INVARIANTS CallInvariant ReplicasAgree DeadlyForAll
PROPERTIES ImplementsIndexService
CHECK_DEADLOCK FALSE
