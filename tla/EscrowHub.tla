----------------------------- MODULE EscrowHub -----------------------------
(***************************************************************************)
(* The on-chain escrow contract, contracts/src/EscrowHub.sol.              *)
(*                                                                         *)
(* One action is one successful transaction.  A call whose require() does  *)
(* not hold, or whose transfer is refused by the receiver, reverts and     *)
(* leaves no trace, so it is no step.  Every function writes its own       *)
(* fields before it hands control to the receiver and reads none of them   *)
(* afterwards, so a call that the receiver makes from inside the transfer  *)
(* acts on the state of the completed outer call: a nested call is one of  *)
(* the sequential orders below.                                            *)
(*                                                                         *)
(* paid, refunded and donated are history: the ether that left for agentB, *)
(* the ether that went back to agentA, and the ether sent to receive().    *)
(* batchSettled counts the BatchSettled events of a root ("two" stands for *)
(* two or more).                                                           *)
(***************************************************************************)
EXTENDS Integers, FiniteSetsExt

CONSTANTS
    Escrow,       \* escrow ids
    Root,         \* receiptsHash values
    Agent,        \* externally owned accounts, the owner included
    Owner,        \* the account that deployed the hub
    Zero,         \* address(0)
    Amounts,      \* wei amounts that calls carry
    FeePercent,   \* basis points withheld by the hub
    Ttls,         \* session lifetimes
    MaxTime,      \* bound on block.timestamp
    MaxDonated    \* bound on the ether sent to receive()

ASSUME HubAssumption ==
    /\ IsFiniteSet(Escrow)
    /\ Owner \in Agent /\ Zero \notin Agent
    /\ Amounts \subseteq Nat /\ Ttls \subseteq Nat
    /\ FeePercent \in 0..10000
    /\ MaxTime \in Nat /\ MaxDonated \in Nat

VARIABLES escrows, balance, timestamp, paid, refunded, donated, batchSettled

vars == <<escrows, balance, timestamp, paid, refunded, donated, batchSettled>>

Address == Agent \cup {Zero}

EscrowSession ==
    [agentA: Address, agentB: Address, deposit: Nat, budgetLimit: Nat,
     spent: Nat, ttl: Nat, createdAt: Nat, active: BOOLEAN, disputed: BOOLEAN]

\* A mapping entry nobody has written: every field is zero.
Unwritten ==
    [agentA |-> Zero, agentB |-> Zero, deposit |-> 0, budgetLimit |-> 0,
     spent |-> 0, ttl |-> 0, createdAt |-> 0, active |-> FALSE,
     disputed |-> FALSE]

Init ==
    /\ escrows = [e \in Escrow |-> Unwritten]
    /\ balance = 0
    /\ timestamp = 1
    /\ paid = [e \in Escrow |-> 0]
    /\ refunded = [e \in Escrow |-> 0]
    /\ donated = 0
    /\ batchSettled = [e \in Escrow |-> [h \in Root |-> 0]]

----------------------------------------------------------------------------

openEscrow(e, sender, agentB, value, budgetLimit, ttl) ==
    /\ escrows[e].createdAt = 0
    /\ value > 0
    /\ agentB # Zero
    /\ escrows' = [escrows EXCEPT ![e] =
            [agentA |-> sender, agentB |-> agentB, deposit |-> value,
             budgetLimit |-> budgetLimit, spent |-> 0, ttl |-> ttl,
             createdAt |-> timestamp, active |-> TRUE, disputed |-> FALSE]]
    /\ balance' = balance + value
    /\ UNCHANGED <<timestamp, paid, refunded, donated, batchSettled>>

\* Mutant: the deposit check is forgotten.
PayableWithoutDeposit(e, total) ==
    /\ escrows[e].active
    /\ ~escrows[e].disputed
    /\ escrows[e].spent + total <= escrows[e].budgetLimit

\* Mutant: a dispute does not block payouts.
PayableDisputed(e, total) ==
    /\ escrows[e].active
    /\ escrows[e].spent + total <= escrows[e].budgetLimit
    /\ escrows[e].spent + total <= escrows[e].deposit

\* The four checks that a payout of total has in common in both paying calls.
Payable(e, total) ==
    /\ escrows[e].active
    /\ ~escrows[e].disputed
    /\ escrows[e].spent + total <= escrows[e].budgetLimit
    /\ escrows[e].spent + total <= escrows[e].deposit

\* Mutant: the fee is rounded up.
FeeRoundedUp(total) == (total * FeePercent + 9999) \div 10000

Fee(total) == (total * FeePercent) \div 10000

\* Mutant: only the amount after the fee is booked, the whole amount is sent.
PayOutNetBooked(e, total) ==
    /\ escrows' = [escrows EXCEPT ![e].spent = @ + (total - Fee(total))]
    /\ paid' = [paid EXCEPT ![e] = @ + (total - Fee(total))]
    /\ balance' = balance - total

PayOut(e, total) ==
    /\ escrows' = [escrows EXCEPT ![e].spent = @ + total]
    /\ paid' = [paid EXCEPT ![e] = @ + (total - Fee(total))]
    /\ balance' = balance - (total - Fee(total))

\* Callable by any account, also after the ttl; the root is only logged.
settleBatch(e, receiptsHash, total) ==
    /\ Payable(e, total)
    /\ PayOut(e, total)
    /\ batchSettled' =
            [batchSettled EXCEPT ![e][receiptsHash] = IF @ = 0 THEN 1 ELSE 2]
    /\ UNCHANGED <<timestamp, refunded, donated>>

claimStream(e, sender, usageDelta) ==
    /\ Payable(e, usageDelta)
    /\ sender = escrows[e].agentB
    /\ timestamp <= escrows[e].createdAt + escrows[e].ttl
    /\ PayOut(e, usageDelta)
    /\ UNCHANGED <<timestamp, refunded, donated, batchSettled>>

\* Mutant: the session is left active.
CloseLeavesActive(e) ==
    LET refund == escrows[e].deposit - escrows[e].spent IN
    /\ escrows[e].active
    /\ refunded' = [refunded EXCEPT ![e] = @ + refund]
    /\ balance' = balance - refund
    /\ UNCHANGED <<escrows, timestamp, paid, donated, batchSettled>>

CloseAndRefund(e) ==
    LET refund == escrows[e].deposit - escrows[e].spent IN
    /\ escrows[e].active
    /\ escrows' = [escrows EXCEPT ![e].active = FALSE]
    /\ refunded' = [refunded EXCEPT ![e] = @ + refund]
    /\ balance' = balance - refund
    /\ UNCHANGED <<timestamp, paid, donated, batchSettled>>

closeEscrow(e, sender) ==
    /\ sender = escrows[e].agentA
    /\ CloseAndRefund(e)

emergencyClose(e, sender) ==
    /\ sender = Owner
    /\ CloseAndRefund(e)

freezeOnDispute(e) ==
    /\ escrows[e].active
    /\ escrows' = [escrows EXCEPT ![e].disputed = TRUE]
    /\ UNCHANGED <<balance, timestamp, paid, refunded, donated, batchSettled>>

receive(value) ==
    /\ donated + value <= MaxDonated
    /\ balance' = balance + value
    /\ donated' = donated + value
    /\ UNCHANGED <<escrows, timestamp, paid, refunded, batchSettled>>

\* The next block.
NextBlock ==
    /\ timestamp < MaxTime
    /\ timestamp' = timestamp + 1
    /\ UNCHANGED <<escrows, balance, paid, refunded, donated, batchSettled>>

Next ==
    \/ NextBlock
    \/ \E v \in Amounts : receive(v)
    \/ \E e \in Escrow, s \in Agent :
        \/ \E b \in Address, v, l \in Amounts, t \in Ttls :
                openEscrow(e, s, b, v, l, t)
        \/ \E d \in Amounts : claimStream(e, s, d)
        \/ closeEscrow(e, s)
        \/ emergencyClose(e, s)
    \/ \E e \in Escrow :
        \/ \E h \in Root, t \in Amounts : settleBatch(e, h, t)
        \/ freezeOnDispute(e)

Spec == Init /\ [][Next]_vars

----------------------------------------------------------------------------

\* Every variable keeps its type; in particular no subtraction of the contract
\* goes below zero, where Solidity would revert.
TypeOK ==
    /\ escrows \in [Escrow -> EscrowSession]
    /\ balance \in Int
    /\ timestamp \in Nat
    /\ paid \in [Escrow -> Nat]
    /\ refunded \in [Escrow -> Nat]
    /\ donated \in Nat
    /\ batchSettled \in [Escrow -> [Root -> 0..2]]

\* Whatever the order of batches, stream claims, disputes and closings, the
\* payee and the payer together never receive more than was deposited, the
\* payee never more than the budget, and the refund is taken exactly once
\* (settleBatch and claimStream share spent; both closings clear active).
EscrowConserved ==
    \A e \in Escrow :
        /\ paid[e] <= escrows[e].spent
        /\ escrows[e].spent <= escrows[e].deposit
        /\ escrows[e].spent <= escrows[e].budgetLimit
        /\ refunded[e] = IF escrows[e].active THEN 0
                         ELSE escrows[e].deposit - escrows[e].spent

\* Rounding down batch by batch never withholds more than the rate applied to
\* the whole spent amount (fee = totalAmount * feePercent / 10000 per call).
FeeWithinRate ==
    \A e \in Escrow :
        (escrows[e].spent - paid[e]) * 10000 <= escrows[e].spent * FeePercent

OpenSessions == {e \in Escrow : escrows[e].active}
Owed == [e \in Escrow |-> escrows[e].deposit - escrows[e].spent]

\* The ether of all sessions is pooled in one contract balance: what it still
\* owes to the sessions that are open is always covered by it.
Solvent == balance >= SumFunctionOnSet(Owed, OpenSessions)

\* A session that is closed or disputed never pays its payee again, and a
\* closed one is never reopened nor refunded again.
StoppedStaysStopped ==
    [][\A e \in Escrow :
        /\ (escrows[e].disputed \/ (escrows[e].createdAt # 0 /\ ~escrows[e].active))
                => paid'[e] = paid[e]
        /\ (escrows[e].createdAt # 0 /\ ~escrows[e].active)
                => escrows'[e] = escrows[e] /\ refunded'[e] = refunded[e]]_vars
=============================================================================
