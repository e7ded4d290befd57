\* Two administrators set up the same profile.
SPECIFICATION Spec
CONSTANTS
    p = p
    q = q
    u = u
    v = v
    a1 = a1
    a2 = a2
    Missing = Missing
    Admins = {a1, a2}
    Setups <- One
    CREDENTIAL_NAMES <- OneName
    FaultKinds = {"error"}
    MaxFaults = 0
    TakeTurns = FALSE
    MaxOps = 2
PROPERTY NeverOverwritten
CHECK_DEADLOCK FALSE
