SPECIFICATION Spec
CONSTANTS
    p = p
    c = c
    Queries = {p, c}
    Statements = {p}
    Plans <- BothPlans
    Dml = {p}
    Hosts = {h1}
    Other = other
    Closer = closer
    Worker = worker
    MaxQueue = 6
    MaxEvents = 2
CHECK_DEADLOCK FALSE
INVARIANTS
    ReleasedOnce
    ClosedSessionEmpty
    FailedHostsNoticed
PROPERTY
    ExceptionIsFinal
