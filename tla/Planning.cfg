SPECIFICATION FairSpec
CONSTANTS
    Manifests <- MCManifests
    None = None
INVARIANTS
    TypeOK
    ScheduleIsSound
    DiagnosesAreRight
PROPERTIES
    Ends
CHECK_DEADLOCK FALSE
