SPECIFICATION Spec
CONSTANTS
    Escrow = {e1, e2}
    Root = {h1}
    Agent = {agentA, owner}
    Owner = owner
    Zero = zero
    Amounts = {150, 300}
    FeePercent = 50
    Ttls = {0}
    MaxTime = 2
    MaxDonated = 150
SYMMETRY Symmetry
INVARIANTS
    TypeOK
    EscrowConserved
    FeeWithinRate
    Solvent
PROPERTIES
    StoppedStaysStopped
CHECK_DEADLOCK FALSE
