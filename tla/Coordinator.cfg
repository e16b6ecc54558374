SPECIFICATION Spec
CONSTANTS
    Stages <- TwoStages
    CoordFragment = FALSE
    Inserts = {TRUE, FALSE}
    MaxReports = 1
    MaxFaults = 1
    LateFaults = TRUE
CHECK_DEADLOCK FALSE
INVARIANT CancelsAll
INVARIANT WaiterWoken
INVARIANT FinalizedComplete
