CONSTANTS
    d1 = d1
    t1 = t1
    t2 = t2
    r1 = r1
    r2 = r2
    p1 = p1
    c1 = c1
    c2 = c2
    Disks = {d1}
    Threads = {t1, t2}
    DiskOf <- OneDisk
    Scanners = {c1, c2}
    Ranges = {r1, r2}
    PastRanges = {p1}
    Length <- Lengths
    DEFAULT_QUEUE_CAPACITY = 1
    MIN_QUEUE_CAPACITY = 1
    MAX_QUEUE_CAPACITY = 2
    MaxErrors = 1
    MaxReaders = 1
SPECIFICATION Spec
CHECK_DEADLOCK FALSE
SYMMETRY ScannerSymmetry
INVARIANTS
    Validates
    FileOrder
    WaiterIsServed
    RangeIsComing
    UnregisterIsServed
