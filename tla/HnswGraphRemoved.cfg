CONSTANTS
    v1 = v1  v2 = v2  v3 = v3  v4 = v4
    Vertices = {v1, v2, v3, v4}
    IdOf <- MCIdOf
    Position <- MCPosition
    Levels = {0, 1}
    M = 1
    MMax = 1
    MMax0 = 1
    EfConstruction = 2
    Ef = 4
    Searches = {s1}
    Query = 41
    K = 2
    MaxOps = 5
    None = None
SPECIFICATION Spec
INVARIANT NoRemovedItemFound
CHECK_DEADLOCK FALSE
