\* Seconds: a short timeout_seconds of 6, which leaves time for another command
\* after one that had to be killed and waited for twice.
SPECIFICATION Spec
CONSTANTS
    i1 = i1
    i2 = i2
    A = A
    B = B
    Items <- MCItems
    EnvNames <- MCEnvNames
    Binding <- TwoItems
    FetchTimeout = 6
    Reserve = 2
    Budget = 4
    CliTimeout = 2
    KillWait = 1
    Chunks = 1
    ChunkTime = 1
    CleanupTime = 0
    MaxEdits = 1
INVARIANTS TypeOK SuccessIsOneSnapshot LeftoversAreReported
PROPERTY OneCommandAtATime
CHECK_DEADLOCK FALSE
