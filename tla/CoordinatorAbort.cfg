SPECIFICATION FairSpec
CONSTANTS
    Stages <- OneStage
    CoordFragment = TRUE
    Inserts = {FALSE}
    MaxReports = 0
    MaxFaults = 0
    LateFaults = FALSE
CHECK_DEADLOCK FALSE
PROPERTY QueryEnds
PROPERTY AbortReaches
