SPECIFICATION Spec
CONSTANTS
    t1 = t1
    t2 = t2
    i1 = i1
    None = None
    Home <- MCHome
    NumReceipts = 2
    Escrow = {e1, e2}
    Broken = {}
    Settlement = {s1, s2}
    Tick = {t1, t2}
    Instance = {i1}
    MaxReceipts = 2
    ScanLimit = 2
    MaxHiccups = 1
    Faults = {"detach"}
INVARIANTS
    BatchedOnce
