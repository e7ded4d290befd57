\* One call next to a page that may do anything: an input field and another
\* editable element, a host of the item's and a foreign one.
SPECIFICATION FairSpec
CONSTANTS
    f1 = f1
    own = own
    other = other
    field = field
    editable = editable
    Fills <- MCFills
    Hosts <- MCHosts
    Elements <- MCElements
    Inputs <- MCInputs
    Timeout = 2
    MaxNavs = 1
INVARIANTS TypeOK GuardHoldsUntilNavigation UndisturbedFillIsExact
PROPERTIES KeepsPromise FillEnds
CHECK_DEADLOCK FALSE
