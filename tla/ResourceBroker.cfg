SPECIFICATION Spec
CONSTANTS
    Queries = {q1, q2}
    LLAMA_MAX_REQUEST_ATTEMPTS = 3
    MaxFaults = 2
SYMMETRY QuerySymmetry
CHECK_DEADLOCK FALSE
INVARIANTS
    PromiseIsAlive
    
    NotificationsHeard
