SPECIFICATION Spec
CONSTANTS
    p1 = p1
    p2 = p2
    t1 = t1
    t2 = t2
    Procs <- MCProcs
    Tasks <- MCTasks
    Order <- MCOrder
    None = None
    Artifacts <- MCArtifacts
    MaxMishaps = 1
SYMMETRY MCSymmetry
INVARIANTS
    TypeOK
    SessionIsAlone
    InputsAreCommitted
    ResultsAreEarned
PROPERTIES
    TracebackIsExplained
CHECK_DEADLOCK FALSE
