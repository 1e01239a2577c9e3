SPECIFICATION Spec
CONSTANTS
    p1 = p1
    p2 = p2
    Procs <- MCProcs
    None = None
    Torn = Torn
    PullRequest = TRUE
    MayBeDry = {"branch"}
    MaxFeature = 2
    MaxOthers = 1
SYMMETRY MCSymmetry
INVARIANTS
    TypeOK
    MergeIsChecked
    AuthzIsCurrent
    NothingHalfMerged
    BlockHolds
CHECK_DEADLOCK FALSE
