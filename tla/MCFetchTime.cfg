\* Quarter seconds: a command may take the default 30 s, ten times the budget of
\* the session.
SPECIFICATION FairSpec
CONSTANTS
    i1 = i1
    i2 = i2
    A = A
    B = B
    Items <- MCItems
    EnvNames <- MCEnvNames
    Binding <- TwoItems
    FetchTimeout = 14
    Reserve = 10
    Budget = 4
    CliTimeout = 120
    KillWait = 4
    Chunks = 2
    ChunkTime = 1
    CleanupTime = 1
    MaxEdits = 0
INVARIANTS KilledBeforeAbandoned ReturnsBeforeAbandoned
PROPERTY Terminates
CHECK_DEADLOCK FALSE
