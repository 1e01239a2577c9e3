SPECIFICATION Spec
CONSTANTS
    a = a
    b = b
    c = c
    Tasks <- MCTasks
    Plan <- MCPlan
    Ext = Ext
    None = None
    Modes = {"parallel"}
    MaxParallel = 2
    RetrySets <- MCRetryAllOrNone
    ResumeFlags = {TRUE}
    MaxRequeue = 1
    LeavesEdits = FALSE
    MaxStarts = 2
    MaxCrashes = 0
    MaxCommits = 1
    MaxExternal = 0
    MaxDisturbances = 0
    MaxInterventions = 0
INVARIANTS
    AllMergedIsAll
CHECK_DEADLOCK FALSE
