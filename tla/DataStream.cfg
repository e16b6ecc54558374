CONSTANTS
    s1 = s1
    s2 = s2
    Senders <- TwoSenders
    NumReceivers = 1
    Broadcast = TRUE
    NumRows = 2
    Capacity = 1
    BufferLimit = 1
    MaxFaults = 1
    LateFaults = TRUE
SPECIFICATION Spec
CHECK_DEADLOCK FALSE
SYMMETRY SenderSymmetry
INVARIANTS
    RemainingCountsUnlessLate
    WaitersWoken
PROPERTIES
    KeepsPromise
