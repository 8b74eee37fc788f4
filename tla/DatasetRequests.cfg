CONSTANTS
    n1 = n1
    n2 = n2
    n3 = n3
    p1 = p1
    p2 = p2
    a = a
    b = b
    c = c
    Nodes = {n1, n2, n3}
    Order <- MCOrder
    Placements <- MCPlacements
    Items = {a, b, c}
    PartitionOf <- MCPartitionOf
    Misfits = {b}
    LenOf <- MCLenOf
    MaxBatch = 2
SPECIFICATION FairSpec
INVARIANTS AnswerInvariant SizeAnswered
PROPERTIES RequestsReturn
CHECK_DEADLOCK FALSE
