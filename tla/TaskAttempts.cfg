SPECIFICATION FairSpec
CONSTANTS
    MaxRetries = 2
    MaxRuns = 2
    MaxCrashes = 1
INVARIANTS
    TypeOK
    SuccessIsEarned
    AgentReaped
PROPERTIES
    RunEnds
CHECK_DEADLOCK FALSE
