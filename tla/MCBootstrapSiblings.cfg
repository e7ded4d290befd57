\* Two administrators, one for each of two sibling profiles, every kind of fault.
SPECIFICATION Spec
CONSTANTS
    p = p
    q = q
    u = u
    v = v
    a1 = a1
    a2 = a2
    Missing = Missing
    Admins = {a1, a2}
    Setups <- Siblings
    CREDENTIAL_NAMES <- OneName
    FaultKinds = {"error", "interrupt", "crash"}
    MaxFaults = 1
    TakeTurns = TRUE
    MaxOps = 2
INVARIANTS SiblingsUntouched WholeWithoutFaults
PROPERTY NeverOverwritten
CHECK_DEADLOCK FALSE
