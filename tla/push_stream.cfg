SPECIFICATION Spec
CONSTANTS
    MaxRetry = 1
    MaxDelayed = 1
    HazardSets <- Scenarios
INVARIANTS
    TypeOK
    KeyFirst
    EncodersFollowConnection
    LockCycleOnlyOnRestart
    NobodyInsideDeleted
CHECK_DEADLOCK FALSE
PROPERTIES
    TellsAsPromised
    StopCompletes
    StreamIsReported
    StoppedStreamEnds
