CONSTANTS
    PacketId = {i1, i2, i3}
    awaitRelTimeout = 2
    maxAwaitingRel = 2
    Second = 2
    MaxTime = 8
SPECIFICATION RelSpec
SYMMETRY IdSymmetry
INVARIANT EntryHasTimer
PROPERTY NoEarlyRedelivery
