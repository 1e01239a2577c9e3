SPECIFICATION FairSpec
CONSTANTS
    a = a
    b = b
    c = c
    Tasks <- MCTasks
    Plan <- MCPlan
    Ext = Ext
    None = None
    Modes = {"serial", "parallel"}
    MaxParallel = 2
    RetrySets <- MCNoRetry
    ResumeFlags = {TRUE}
    MaxRequeue = 1
    LeavesEdits = TRUE
    MaxStarts = 2
    MaxCrashes = 1
    MaxCommits = 2
    MaxExternal = 0
    MaxDisturbances = 1
    MaxInterventions = 0
INVARIANTS
    DependenciesVisible
PROPERTIES
    FailStop
    RunEnds
    ImplementsPhasedMerge
CHECK_DEADLOCK FALSE
