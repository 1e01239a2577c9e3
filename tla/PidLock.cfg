SPECIFICATION Spec
CONSTANTS
    p1 = p1
    p2 = p2
    p3 = p3
    Procs <- MCProcs
    None = None
    MaxCrashes = 2
SYMMETRY MCSymmetry
INVARIANTS
    TypeOK
    ExclusiveUnlessOverlap
PROPERTIES
    RefusedOnlyByHolder
CHECK_DEADLOCK FALSE
