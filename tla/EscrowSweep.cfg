SPECIFICATION SweepSpec
CONSTANTS
    q1 = q1
    q2 = q2
    sweep = sweep
    None = None
    Rail = rail
    Payee = payee
    Escrow = {e1, e2}
    Request = {q1, sweep}
    Sweeper = {sweep}
    Deposit = 1
    Budget = 1
    Amounts = {}
    SweepBatch = 1
    MaxClaimed = 0
    MaxReleases = 0
    MaxTx = 4
    MaxHiccups = 1
    Faults = {"staleSave"}
PROPERTIES
    DepositReturns
