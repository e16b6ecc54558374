SPECIFICATION Spec
CONSTANTS
    Main = Main
    Leaver = Leaver
    Mgr = Mgr
    text = text
    seq = seq
    a = a
    b = b
    Scanners = {t1, t2}
    TextFiles = {text}
    SequenceFiles = {seq}
    Splits <- OneEach
    MaxBatches = 1
    Limits = {3}
    Quotas = {1, 3}
    MaxErrors = 1
    MaxChanges = 1
SYMMETRY ScannerSymmetry
INVARIANTS
    AllStartedIsStarted
    EosIsComplete
    CloseIsClean
    SomebodyScans
