SPECIFICATION Spec
CONSTANTS
    a = a
    b = b
    c = c
    Tasks <- MCTasks
    Plan <- MCPlan
    Ext = Ext
    None = None
    Modes = {"serial"}
    MaxParallel = 2
    RetrySets <- MCRetryAllOrNone
    ResumeFlags = {TRUE, FALSE}
    MaxRequeue = 1
    LeavesEdits = FALSE
    MaxStarts = 2
    MaxCrashes = 1
    MaxCommits = 1
    MaxExternal = 1
    MaxDisturbances = 2
    MaxInterventions = 1
INVARIANTS
    TypeOK
    DurableMerge
    NoWorkLost
    PhaseBarrier
PROPERTIES
    BaseOnlyAdvances
    VerifiedRebase
CHECK_DEADLOCK FALSE
