SPECIFICATION FairSpec
CONSTANTS
    t1 = t1
    t2 = t2
    i1 = i1
    None = None
    Home <- MCHome
    NumReceipts = 4
    Escrow = {e1, e2}
    Broken = {e2}
    Settlement = {s1, s2, s3, s4}
    Tick = {t1, t2}
    Instance = {i1}
    MaxReceipts = 2
    ScanLimit = 3
    MaxHiccups = 1
    Faults = {}
INVARIANTS
    TypeOK
    BatchedOnce
    ProofMatches
    OldestFirst
PROPERTIES
    OthersBatched
