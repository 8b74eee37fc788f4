CONSTANTS
    n1 = n1
    n2 = n2
    p1 = p1
    p2 = p2
    p3 = p3
    Nodes = {n1, n2}
    Driver = driver
    Partitions = {p1, p2, p3}
    Owner <- MCOwner
    ItemsOf <- MCItemsOf
    K = 3
SPECIFICATION Spec
INVARIANT SearchComplete
CHECK_DEADLOCK FALSE
