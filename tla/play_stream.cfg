SPECIFICATION Spec
CONSTANTS
    Red = 1
    MaxDelay = 2
    Second = 2
    MaxCache = 4
    MaxPackets = 4
    MaxRetry = 1
    MaxPending = 2
    MaxTicks = 2
    HazardSets <- Scenarios
CHECK_DEADLOCK FALSE
INVARIANTS
    PlayTypeOK
    CacheBounded
    StartedPlayIsAlive
    AudioOutsideDeleted
    FreedRenderOnlyUntilStop
PROPERTIES
    OutcomeAsPromised
    PausesGrow
    PlayStopCompletes
    StoppedPlayEnds
    PlayIsReported
    StreamIsPlayed
