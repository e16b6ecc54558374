CONSTANTS
    s1 = s1
    s2 = s2
    Senders <- OneSender
    NumReceivers = 2
    Broadcast = FALSE
    NumRows = 2
    Capacity = 1
    BufferLimit = 0
    MaxFaults = 1
    LateFaults = FALSE
SPECIFICATION FairSpec
CHECK_DEADLOCK FALSE
PROPERTIES
    KeepsPromise
    SendersFinish
    ReceiverEnds
