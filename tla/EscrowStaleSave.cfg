SPECIFICATION Spec
CONSTANTS
    q1 = q1
    q2 = q2
    sweep = sweep
    None = None
    Rail = rail
    Payee = payee
    Escrow = {e1}
    Request = {q1, q2}
    Sweeper = {}
    Deposit = 2
    Budget = 2
    Amounts = {1}
    SweepBatch = 1
    MaxClaimed = 0
    MaxReleases = 1
    MaxTx = 3
    MaxHiccups = 0
    Faults = {"staleSave"}
INVARIANTS
    ReleasedCovers
