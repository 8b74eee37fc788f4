CONSTANTS
    Nodes = {n1}
    Ids = {a, b}
    Calls = {c1, c2}
    BadIds = {bad}
    MetaKeys = {}
    NoItem = NoItem
    MaxBatch = 2
    Nothing = Nothing
    Failed = Failed
    Refused = Refused
    MaxCrashes = 0
    MaxTail = 0
    LogsStray = "none"
    ManySnapshots = FALSE
SPECIFICATION FairSpec
INVARIANTS DeadlyForAll
PROPERTIES ImplementsIndexService CallsReturn CatchesUp
CHECK_DEADLOCK FALSE
