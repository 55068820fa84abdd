SPECIFICATION PlayersSpec
CONSTANTS
    Ids <- MCIds
    Files <- MCFiles
    FileOf <- MCFileOf
    Renamed <- MCRenamed
    Strategies <- MCStrategies
    MaxReceivers = 2
    MaxChanges = 2
    MaxMessages = 1
    Local <- MCLocal
    Watched <- MCWatched
    HazardSets <- Scenarios
INVARIANTS
    PlayersTypeOK
    PlaylistWhole
    NoNullPointer
    RestartShowsTheSame
    PlayerGoesOn
PROPERTIES
    NeverDeletesShown
    UpdateIsApplied
    FilesTakeTurns
CHECK_DEADLOCK FALSE
