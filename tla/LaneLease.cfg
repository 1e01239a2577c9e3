SPECIFICATION Spec
CONSTANTS
    p1 = p1
    p2 = p2
    p3 = p3
    Procs <- MCProcs
    None = None
    NumLanes = 2
    SlowWriters = TRUE
    Ageing = TRUE
    MaxCrashes = 2
SYMMETRY MCSymmetry
INVARIANTS
    TypeOK
    HoldersUndisturbed
PROPERTIES
    DeadLeasesReclaimed
CHECK_DEADLOCK FALSE
