SPECIFICATION FairSpec
CONSTANTS
    q1 = q1
    q2 = q2
    sweep = sweep
    None = None
    Rail = rail
    Payee = payee
    Escrow = {e1}
    Request = {q1, q2}
    Sweeper = {}
    Deposit = 2
    Budget = 2
    Amounts = {}
    SweepBatch = 1
    MaxClaimed = 0
    MaxReleases = 0
    MaxTx = 3
    MaxHiccups = 0
    Faults = {}
PROPERTIES
    CompletedStays
