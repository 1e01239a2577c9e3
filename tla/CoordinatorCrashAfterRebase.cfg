SPECIFICATION Spec
CONSTANTS
    a = a
    b = b
    c = c
    Tasks <- MCTasks
    Plan <- MCPlan
    Ext = Ext
    None = None
    Modes = {"serial"}
    MaxParallel = 2
    RetrySets <- MCNoRetry
    ResumeFlags = {TRUE}
    MaxRequeue = 1
    LeavesEdits = FALSE
    MaxStarts = 2
    MaxCrashes = 1
    MaxCommits = 1
    MaxExternal = 0
    MaxDisturbances = 1
    MaxInterventions = 0
PROPERTIES
    VerifiedMerge
CHECK_DEADLOCK FALSE
