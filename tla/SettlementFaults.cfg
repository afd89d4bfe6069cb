SPECIFICATION Spec
CONSTANTS
    l1 = l1
    l2 = l2
    a1 = a1
    a2 = a2
    i1 = i1
    i2 = i2
    None = None
    Home <- MCHome
    Row = {r1, r2}
    Worker = {l1, a1}
    Loop = {l1}
    Instance = {i1}
    MaxTx = 2
    MaxAttempts = 2
    BatchSize = 2
    MaxHiccups = 1
    Faults = {"lostHash", "overlap", "lostAnswer", "reorgRevert", "forget"}
INVARIANTS
    SettledIsPaid
