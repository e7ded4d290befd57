\* A failing remove next to an operation on a sibling profile.
SPECIFICATION Spec
CONSTANTS
    p = p
    q = q
    u = u
    v = v
    a1 = a1
    a2 = a2
    Missing = Missing
    Admins = {a1, a2}
    Setups <- Siblings
    CREDENTIAL_NAMES <- OneName
    FaultKinds = {"error"}
    MaxFaults = 1
    TakeTurns = TRUE
    MaxOps = 2
INVARIANT FailedRemoveRestores
CHECK_DEADLOCK FALSE
