-------------------------- MODULE MCEscrowService --------------------------
\* EscrowService for TLC: interchangeable API requests and one sweep.
EXTENDS EscrowService, TLC

CONSTANTS q1, q2, sweep

Symmetry == Permutations({q1, q2})

\* The sweep's run begins when every session has been opened.  The hub holds
\* the deposits of the sessions whose contract call succeeded.  Either all are
\* open and no fault is left to happen, or some are refunded and faults are ahead.
SweepInit ==
    \E onChain, done \in SUBSET Escrow :
        /\ onChain \cap done = {} /\ done # Escrow
        /\ row = [e \in Escrow |->
                [status |-> IF e \in done THEN "cancelled" ELSE "open",
                 released |-> 0, refundedAt |-> e \in done]]
        /\ escrows = [e \in Escrow |->
                IF e \notin onChain \cup done THEN Hub!Unwritten
                ELSE [Hub!Unwritten EXCEPT !.agentA = Rail, !.agentB = Payee,
                        !.deposit = Deposit, !.budgetLimit = Budget,
                        !.createdAt = 1, !.active = e \in onChain]]
        /\ refund = [e \in Escrow |->
                IF e \in done THEN [Computed(0, 0) EXCEPT !.status = "completed"] ELSE None]
        /\ refunded = [e \in Escrow |-> IF e \in done THEN Deposit ELSE 0]
        /\ balance = Deposit * Cardinality(onChain)
        /\ closedAt = [e \in Escrow |-> IF e \in done THEN 1 ELSE 0]
        /\ hiccups = IF done = {} THEN MaxHiccups ELSE 0
        /\ release = [k \in Release |-> None]
        /\ settled = [e \in Escrow |-> 0] /\ claimed = [e \in Escrow |-> 0]
        /\ pc = [q \in Request |-> "idle"] /\ job = [q \in Request |-> NoJob]
        /\ queue = [q \in Request |-> {}]
        /\ tx = [t \in Tx |-> None] /\ abandoned = {}
        /\ paid = [e \in Escrow |-> 0]
        /\ batchSettled = [e \in Escrow |-> [h \in Release \cup {0} |-> 0]]
        /\ batchPaid = [e \in Escrow |-> 0]

SweepSpec == SweepInit /\ [][Next]_vars /\ Fairness
=============================================================================
