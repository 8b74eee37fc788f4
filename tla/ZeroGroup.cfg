CONSTANTS
    Nodes = {b, n2, n3}
    Boot = b
    Datasets = {d}
    Offset = 0
    MaxLog = 4
    MaxCrashes = 1
    MaxSnapshots = 2
SPECIFICATION Spec
INVARIANTS ZeroInvariant DatasetsFollow SnapshotMembers
SYMMETRY Joiners
CHECK_DEADLOCK FALSE
