\* One administrator, two sibling profiles, one failing step.
SPECIFICATION Spec
CONSTANTS
    p = p
    q = q
    u = u
    v = v
    a1 = a1
    a2 = a2
    Missing = Missing
    Admins = {a1}
    Setups <- Siblings
    CREDENTIAL_NAMES <- AllNames
    FaultKinds = {"error"}
    MaxFaults = 1
    TakeTurns = TRUE
    MaxOps = 3
INVARIANTS TypeOK ManagerAgrees RestoresContent
PROPERTY IsTransactional
CHECK_DEADLOCK FALSE
