CONSTANTS
    n1 = n1
    n2 = n2
    d1 = d1
    d2 = d2
    p1 = p1
    p2 = p2
    p3 = p3
    Nodes = {n1, n2}
    Self = n1
    Datasets = {d1, d2}
    Partitions = {p1, p2, p3}
    PartsOf <- MCPartsOf
    ReplicationFactor = 2
    NotificationCap = 1
    MaxChanges = 5
CHECK_DEADLOCK FALSE
SPECIFICATION FairSpec
INVARIANTS AllocationInvariant LoadedIffAssigned AssignedIsServed OneChangeAtATime
PROPERTIES IterationStable EverythingApplied
