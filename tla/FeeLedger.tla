----------------------------- MODULE FeeLedger -----------------------------
(***************************************************************************)
(* The protocol fee ledger (fee-ledger.service.ts) of one chain: accruals  *)
(* of settled settlements and concurrent withdrawals, which hold an        *)
(* advisory lock from the read of the totals to the commit.                *)
(***************************************************************************)
EXTENDS Integers, FiniteSetsExt

CONSTANTS
    Settled,     \* settlements that were settled
    Withdrawal,  \* withdrawal requests
    FeeOf,       \* feeAmount of each settlement
    Withdrawn,   \* the amounts that are asked for
    NoHolder     \* no one holds the lock

ASSUME LedgerAssumption ==
    /\ IsFiniteSet(Settled) /\ IsFiniteSet(Withdrawal) /\ Settled \cap Withdrawal = {}
    /\ FeeOf \in [Settled -> Nat] /\ Withdrawn \subseteq Int /\ NoHolder \notin Withdrawal

VARIABLES
    entry,    \* fee_ledger_entries: the rows' amounts, by what they are about
    feeLock,  \* holder of the chain's advisory lock
    asks      \* where each withdrawal stands, and its amount

ledgerVars == <<entry, feeLock, asks>>

\* The rows of each settlement (accruals) and each request (withdrawals).
LedgerInit ==
    /\ entry = [x \in Settled \cup Withdrawal |-> 0]
    /\ feeLock = NoHolder
    /\ asks = [w \in Withdrawal |-> [at |-> "idle", amount |-> 0]]

totals ==
    [accrued   |-> SumFunctionOnSet(entry, Settled),
     withdrawn |-> SumFunctionOnSet(entry, Withdrawal)]

\* accrue(): books the fee of a settled settlement unless it is zero; the
\* unique index turns a repetition into a no-op.
accrue(s) ==
    /\ FeeOf[s] # 0
    /\ entry' = [entry EXCEPT ![s] = IF @ = 0 THEN FeeOf[s] ELSE @]
    /\ UNCHANGED <<feeLock, asks>>

Goes(w, label) == asks' = [asks EXCEPT ![w] = [@ EXCEPT !.at = label]]

\* withdraw(): the check of the amount, and the transaction up to the lock.
withdraw(w, amount) ==
    /\ asks[w].at = "idle"
    /\ asks' = [asks EXCEPT ![w] =
         [at |-> IF amount <= 0 THEN "refused" ELSE "lock", amount |-> amount]]
    /\ UNCHANGED <<entry, feeLock>>

\* Mutant: the balance is read without the lock.
CheckBalanceUnlocked(w) ==
    /\ asks[w].at = "lock"
    /\ IF asks[w].amount > totals.accrued - totals.withdrawn
       THEN Goes(w, "refused") /\ UNCHANGED feeLock
       ELSE Goes(w, "insert") /\ feeLock' = w
    /\ UNCHANGED entry

\* withdraw(): under the lock, the balance decides.
checkBalance(w) ==
    /\ asks[w].at = "lock" /\ feeLock = NoHolder
    /\ IF asks[w].amount > totals.accrued - totals.withdrawn
       THEN Goes(w, "refused") /\ UNCHANGED feeLock
       ELSE Goes(w, "insert") /\ feeLock' = w
    /\ UNCHANGED entry

\* withdraw(): the entry and the commit, which ends the lock.
insertWithdrawal(w) ==
    /\ asks[w].at = "insert"
    /\ entry' = [entry EXCEPT ![w] = asks[w].amount]
    /\ feeLock' = NoHolder
    /\ Goes(w, "done")

\* The process dies, or the transaction fails: it is rolled back.
rollback(w) ==
    /\ asks[w].at \in {"lock", "insert"}
    /\ feeLock' = IF feeLock = w THEN NoHolder ELSE feeLock
    /\ Goes(w, "refused")
    /\ UNCHANGED entry

LedgerNext ==
    \/ \E s \in Settled : accrue(s)
    \/ \E w \in Withdrawal :
         \/ \E amount \in Withdrawn : withdraw(w, amount)
         \/ checkBalance(w) \/ insertWithdrawal(w) \/ rollback(w)

LedgerSpec == LedgerInit /\ [][LedgerNext]_ledgerVars

----------------------------------------------------------------------------
\* The treasury is never paid more than one fee for each settlement that was
\* booked, however withdrawals, roll-backs and repeated accruals interleave.
NotOverdrawn ==
    totals.withdrawn <= SumFunctionOnSet(FeeOf, {s \in Settled : entry[s] # 0})
============================================================================
