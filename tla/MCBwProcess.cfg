\* One descendant, an output limit of two units a stream can exceed by one.
SPECIFICATION FairSpec
CONSTANTS
    d1 = d1
    d2 = d2
    Descendants <- OneDescendant
    Deadline = 1
    KillWait = 1
    MaxOutput = 2
    MaxWritten = 3
    ChunkSize = 2
INVARIANTS TypeOK OkIsWholeOutput NoUnsignalledSurvivor
PROPERTIES SignalledBeforeReaped RefinesCall Returns
CHECK_DEADLOCK FALSE
