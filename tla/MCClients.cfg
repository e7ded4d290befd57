\* One call of each client.
SPECIFICATION FairSpec
CONSTANTS
    f = f
    i = i
    j = j
    Fills <- MCFills
    Items <- MCItems
    Configs <- MCConfigs
    Names <- MCNames
    MaxFields = 2
    KillWait = 1
    Budget = 2
    CliTimeout = 1
    Chunks = 2
    ChunkTime = 1
    CleanupTime = 0
INVARIANTS TypeOK RunsPinnedBuild LeftoversReported TypedAfterSession TypedWithinBoundary
    FilledFieldsAreListed DoctorSpeaksForAll EndsInTime
PROPERTY Reports
CHECK_DEADLOCK FALSE
