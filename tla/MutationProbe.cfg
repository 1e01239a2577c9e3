SPECIFICATION ProbeSpec
CONSTANTS
    c1 = c1
    c2 = c2
    NumMutants = 2
    Cmds <- MCCmds
    Nil = Nil
    MaxMoves = 1
    MaxFailures = 1
SYMMETRY MCSymmetry
INVARIANTS
    ProbeTypeOK
    VerdictIsEvidence
    NothingLeft
CHECK_DEADLOCK FALSE
