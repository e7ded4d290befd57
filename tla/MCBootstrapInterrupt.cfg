\* One setup, one interrupt.
SPECIFICATION Spec
CONSTANTS
    p = p
    q = q
    u = u
    v = v
    a1 = a1
    a2 = a2
    Missing = Missing
    Admins = {a1}
    Setups <- One
    CREDENTIAL_NAMES <- OneName
    FaultKinds = {"interrupt"}
    MaxFaults = 1
    TakeTurns = TRUE
    MaxOps = 1
INVARIANT FailedInstallLeavesNothing
CHECK_DEADLOCK FALSE
