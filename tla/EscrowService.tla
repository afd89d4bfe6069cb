--------------------------- MODULE EscrowService ---------------------------
(***************************************************************************)
(* Escrow sessions, partial releases and refunds (escrow.service.ts,       *)
(* escrow-release.service.ts, refunds.service.ts) over the EscrowHub       *)
(* contract, whose actions are what a mined transaction of the rail does.  *)
(*                                                                         *)
(* A request, or the refund sweep of an instance, is cut at its awaits;    *)
(* job[q] is what it remembers: session and refund objects as it read      *)
(* them, the release row, the transaction.  save() writes every column of  *)
(* an object over its row.  The rail has one signer, so transactions are   *)
(* mined in the order they were sent.  Depth of a block and the clock are  *)
(* left out: mined means deep enough, any open session may be due, and     *)
(* closedAt is a rank.                                                     *)
(*                                                                         *)
(* Always possible: RPC errors, reverts, dropped transactions, waits that  *)
(* give up on a transaction the chain mines later, overlapping refunds of  *)
(* one session, settlements that are paid and booked at any time, and      *)
(* requests cut off by a crash or a failing database call.  One thing the  *)
(* code does not defend against can be switched on by Faults:              *)
(*   staleSave  a session is saved although its row moved since the read   *)
(***************************************************************************)
EXTENDS Integers, FiniteSetsExt

CONSTANTS
    Escrow,       \* escrow ids
    Request,      \* API requests and sweeps
    Sweeper,      \* the requests that are the refund sweep of an instance
    Deposit,      \* depositAmount of every session
    Budget,       \* budgetLimit of every session
    Amounts,      \* amounts that releases, claims and settlements carry
    SweepBatch,   \* refunds.sweepBatch
    Rail,         \* the account that signs for the rail and owns the hub
    Payee,        \* agentB
    MaxClaimed,   \* bound on the stream claims of a session
    MaxReleases,  \* bound on the release rows ever inserted
    MaxTx,        \* bound on the transactions ever sent
    MaxHiccups,   \* bound on lost requests, RPC errors and dropped transactions
    Faults,       \* the faults above that the environment may show
    None          \* null, and address(0)

Release == 1..MaxReleases
Tx == 1..MaxTx

EscrowStatus == {"none", "open", "closed", "expired", "cancelled"}

\* Rows of escrow_sessions, escrow_releases and escrow_refunds; settled is the
\* part of spentAmount that settlements made, kept as history.
Session == [status: EscrowStatus, released: Nat, refundedAt: BOOLEAN]
ReleaseRow == [e: Escrow, amount: Amounts, status: {"completed", "failed"}]
RefundRow ==
    [status: {"pending", "completed", "failed"}, spent: Nat, settled: Nat,
     amount: 0..Deposit]

\* Transactions of the rail's signer.
Call ==
    [fn: {"openEscrow", "settleBatch", "closeEscrow", "emergencyClose"}, e: Escrow,
     rel: Release \cup {None}, state: {"mempool", "mined", "reverted", "dropped"},
     amount: Amounts \cup {0}]

ASSUME EscrowAssumption ==
    /\ IsFiniteSet(Escrow) /\ IsFiniteSet(Request) /\ Sweeper \subseteq Request
    /\ Deposit \in Nat \ {0} /\ Budget \in Nat /\ Amounts \subseteq Nat \ {0}
    /\ SweepBatch \in Nat \ {0}
    /\ MaxClaimed \in Nat /\ MaxReleases \in Nat
    /\ MaxTx \in Nat /\ MaxHiccups \in Nat
    /\ Faults \subseteq {"staleSave"}
    /\ None \notin Escrow /\ None \notin {Rail, Payee}
    /\ None \notin ReleaseRow /\ None \notin RefundRow /\ None \notin Call

VARIABLES
    row,       \* escrow_sessions
    closedAt,  \* escrow_sessions: the rank of closedAt, 0 for null
    release,   \* escrow_releases
    refund,    \* escrow_refunds: one row per escrow or None
    settled,   \* sum of the settled settlements per escrow
    claimed,   \* sum of stream_claims.usageDelta per escrow
    pc, job,   \* where each request stands and what it remembers
    queue,     \* the sessions a sweep has still to refund
    tx,        \* the transactions of the rail's signer, by nonce
    abandoned, \* history: transactions a wait gave up on before they were mined
    hiccups,   \* how many bounded faults happened
    escrows, balance, paid, refunded, batchSettled,  \* the hub's state
    batchPaid  \* history: what settlements took out of each session on the hub

Hub == INSTANCE EscrowHub WITH
    Root <- Release \cup {0}, Agent <- {Rail, Payee}, Owner <- Rail, Zero <- None,
    FeePercent <- 0, Ttls <- {0}, MaxTime <- 1, MaxDonated <- 0,
    timestamp <- 1, donated <- 0

hubVars == <<escrows, balance, paid, refunded, batchSettled, batchPaid>>
dbVars == <<row, closedAt, release, refund, settled, claimed>>
workVars == <<pc, job, queue>>
vars == <<dbVars, workVars, tx, abandoned, hiccups, hubVars>>

\* The two states a refund is paid in.
REFUNDABLE == {"expired", "cancelled"}

NoJob ==
    [e |-> None, obj |-> None, amount |-> 0, rel |-> None, tx |-> None, ref |-> None,
     at |-> 0]

Init ==
    /\ row = [e \in Escrow |-> [status |-> "none", released |-> 0, refundedAt |-> FALSE]]
    /\ closedAt = [e \in Escrow |-> 0]
    /\ release = [k \in Release |-> None]
    /\ refund = [e \in Escrow |-> None]
    /\ settled = [e \in Escrow |-> 0]
    /\ claimed = [e \in Escrow |-> 0]
    /\ pc = [q \in Request |-> "idle"]
    /\ job = [q \in Request |-> NoJob]
    /\ queue = [q \in Request |-> {}]
    /\ tx = [t \in Tx |-> None]
    /\ abandoned = {}
    /\ hiccups = 0
    /\ Hub!Init
    /\ batchPaid = [e \in Escrow |-> 0]

----------------------------------------------------------------------------
(* Requests, contract calls and waits                                      *)

Hiccup == hiccups < MaxHiccups /\ hiccups' = hiccups + 1

\* The request goes on at label with memory j; a sweep that is done with a
\* session goes on with the next one.
Move(q, label, j) ==
    IF label # "idle"
    THEN pc' = [pc EXCEPT ![q] = label] /\ job' = [job EXCEPT ![q] = j]
    ELSE /\ pc' = [pc EXCEPT ![q] = IF q \in Sweeper THEN "next" ELSE "idle"]
         /\ job' = [job EXCEPT ![q] = NoJob]

\* A new API request.
Arrives(q) == q \notin Sweeper /\ pc[q] = "idle"

\* What the hub would answer to a call now.
Accepts(c) ==
    CASE c.fn = "openEscrow"  -> escrows[c.e].createdAt = 0
      [] c.fn = "settleBatch" -> Hub!Payable(c.e, c.amount)
      [] OTHER                -> escrows[c.e].active

\* A contract call: gas estimation refuses what the hub would refuse, the RPC
\* may fail, or the transaction is out.  An answer that is lost after the
\* broadcast acts like a wait that gives up at once.  Beyond the bound MaxTx
\* every call fails.
Sends(q, fn, sent, error) ==
    LET j == job[q]
        c == [fn |-> fn, e |-> j.e, rel |-> j.rel, state |-> "mempool",
              amount |-> j.amount]
    IN  /\ \/ /\ ~Accepts(c) \/ \A t \in Tx : tx[t] # None
              /\ Move(q, error, j) /\ UNCHANGED <<tx, hiccups>>
           \/ Hiccup /\ Move(q, error, j) /\ UNCHANGED tx
           \/ /\ Accepts(c)
              /\ \E t \in Tx :
                    /\ \A u \in Tx : tx[u] = None <=> u >= t
                    /\ tx' = [tx EXCEPT ![t] = c]
                    /\ Move(q, sent, [j EXCEPT !.tx = t])
              /\ UNCHANGED hiccups
        /\ UNCHANGED abandoned

\* waitFor(): mined, failed, or given up on while it may still be mined.
Waits(q, mined, error) ==
    LET t == job[q].tx
        state == tx[t].state
    IN  /\ \/ /\ state = "mined" /\ Move(q, mined, job[q])
              /\ UNCHANGED <<abandoned, hiccups>>
           \/ /\ state \in {"reverted", "dropped"} /\ Move(q, error, job[q])
              /\ UNCHANGED <<abandoned, hiccups>>
           \/ /\ state = "mempool" /\ Move(q, error, job[q])
              /\ abandoned' = abandoned \cup {t} /\ Hiccup
        /\ UNCHANGED tx

----------------------------------------------------------------------------
(* Sessions                                                                *)

\* open(): the row is inserted, or the spending limit refuses and nothing
\* happens; the errors of the contract call are swallowed.
open(q, e) ==
    /\ Arrives(q)
    /\ row[e].status = "none"
    /\ row' = [row EXCEPT ![e] = [@ EXCEPT !.status = "open"]]
    /\ Move(q, "openSend", [NoJob EXCEPT !.e = e])
    /\ UNCHANGED <<closedAt, release, refund, settled, claimed, queue, tx, abandoned, hiccups, hubVars>>

openOnChain(q) ==
    /\ \/ pc[q] = "openSend" /\ Sends(q, "openEscrow", "openWait", "idle")
       \/ pc[q] = "openWait" /\ Waits(q, "idle", "idle")
    /\ UNCHANGED <<dbVars, queue, hubVars>>

\* The present: behind every closedAt so far.
Now == Max({closedAt[e] : e \in Escrow}) + 1

\* findById() of an operation that will save the object at label.  Only cancel()
\* gives a closedAt that anything looks at.
Load(q, e, label) ==
    /\ Arrives(q)
    /\ row[e].status # "none"
    /\ Move(q, label, [NoJob EXCEPT !.e = e, !.obj = row[e],
                            !.at = IF label = "saveCancel" THEN Now ELSE 0])
    /\ UNCHANGED <<dbVars, queue, tx, abandoned, hiccups, hubVars>>

\* close() has no look at the status.
close(q, e) == Load(q, e, "saveClose")

\* Also behind POST /streaming/refund, for a session that is not closed.
emergencyClose(q, e) == Load(q, e, "saveEmergency")

cancel(q, e) == row[e].status = "open" /\ Load(q, e, "saveCancel")

\* The save of the three: status and every other column as it was read.
saveSession(q) ==
    LET e == job[q].e IN
    /\ pc[q] \in {"saveClose", "saveEmergency", "saveCancel"}
    /\ "staleSave" \in Faults \/ row[e] = job[q].obj
    /\ row' = [row EXCEPT ![e] = [job[q].obj EXCEPT !.status =
                    IF pc[q] = "saveCancel" THEN "cancelled" ELSE "closed"]]
    /\ closedAt' = [closedAt EXCEPT ![e] = IF pc[q] = "saveCancel" THEN job[q].at ELSE @]
    /\ Move(q, IF pc[q] = "saveClose" THEN "closeSend" ELSE "idle", job[q])
    /\ UNCHANGED <<release, refund, settled, claimed, queue, tx, abandoned, hiccups, hubVars>>

closeOnChain(q) ==
    /\ \/ pc[q] = "closeSend" /\ Sends(q, "closeEscrow", "closeWait", "idle")
       \/ pc[q] = "closeWait" /\ Waits(q, "idle", "idle")
    /\ UNCHANGED <<dbVars, queue, hubVars>>

----------------------------------------------------------------------------
(* Releases                                                                *)

\* The conditional UPDATE: CanReserve is its WHERE clause.
CanReserve(e, delta) ==
    /\ row[e].status = "open"
    /\ row[e].released + delta \in 0..Min({Deposit, Budget})

Reserved(e, delta) == row' = [row EXCEPT ![e].released = @ + delta]

\* Mutant: the payout is not reserved.
ReleaseUnreserved(q, e, amount) ==
    /\ Arrives(q)
    /\ \E k \in Release : release[k] = None
    /\ CanReserve(e, amount)
    /\ Move(q, "insert", [NoJob EXCEPT !.e = e, !.amount = amount])
    /\ UNCHANGED <<dbVars, queue, tx, abandoned, hiccups, hubVars>>

\* release() up to the reservation; a request that the pause refuses or that
\* cannot reserve changes nothing.  The release row follows in a statement of
\* its own.
releaseFunds(q, e, amount) ==
    /\ Arrives(q)
    /\ \E k \in Release : release[k] = None
    /\ CanReserve(e, amount)
    /\ Reserved(e, amount)
    /\ Move(q, "insert", [NoJob EXCEPT !.e = e, !.amount = amount])
    /\ UNCHANGED <<closedAt, release, refund, settled, claimed, queue, tx, abandoned, hiccups, hubVars>>

insertRelease(q) ==
    /\ pc[q] = "insert"
    /\ \E k \in Release :
        /\ \A i \in Release : release[i] = None <=> i >= k
        /\ release' = [release EXCEPT ![k] =
                [e |-> job[q].e, amount |-> job[q].amount, status |-> "completed"]]
        /\ Move(q, "paySend", [job[q] EXCEPT !.rel = k])
    /\ UNCHANGED <<row, closedAt, refund, settled, claimed, queue, tx, abandoned, hiccups, hubVars>>

\* Mutant: a payout that was mined, but whose hash cannot be stored, is marked as
\* failed.
PayOutSavesInTry(q) ==
    /\ \/ pc[q] = "paySend" /\ Sends(q, "settleBatch", "payWait", "giveBack")
       \/ pc[q] = "payWait" /\ (Waits(q, "idle", "giveBack") \/ Waits(q, "saveFailed", "giveBack"))
    /\ UNCHANGED <<dbVars, queue, hubVars>>

\* A success only stores the hash, so it ends the request here.
payOut(q) ==
    /\ \/ pc[q] = "paySend" /\ Sends(q, "settleBatch", "payWait", "giveBack")
       \/ pc[q] = "payWait" /\ Waits(q, "idle", "giveBack")
    /\ UNCHANGED <<dbVars, queue, hubVars>>

\* The catch block: reserve() with a negative amount, its answer ignored.
giveBack(q) ==
    LET e == job[q].e
        delta == -job[q].amount
    IN  /\ pc[q] = "giveBack"
        /\ IF CanReserve(e, delta) THEN Reserved(e, delta) ELSE UNCHANGED row
        /\ Move(q, "saveFailed", job[q])
        /\ UNCHANGED <<closedAt, release, refund, settled, claimed, queue, tx, abandoned, hiccups, hubVars>>

saveFailed(q) ==
    /\ pc[q] = "saveFailed"
    /\ release' = [release EXCEPT ![job[q].rel] = [@ EXCEPT !.status = "failed"]]
    /\ Move(q, "idle", job[q])
    /\ UNCHANGED <<row, closedAt, refund, settled, claimed, queue, tx, abandoned, hiccups, hubVars>>

----------------------------------------------------------------------------
(* Refunds                                                                 *)

\* refund(): the session is read; other states than the two are refused.
BeginRefund(q, e) ==
    IF row[e].status \in REFUNDABLE
    THEN Move(q, "lookup", [NoJob EXCEPT !.e = e, !.obj = row[e]])
    ELSE Move(q, "idle", NoJob)

refundRequest(q, e) ==
    /\ Arrives(q)
    /\ row[e].status \in REFUNDABLE
    /\ BeginRefund(q, e)
    /\ UNCHANGED <<dbVars, queue, tx, abandoned, hiccups, hubVars>>

\* Mutant: the refund is not floored at zero.
ComputedUnfloored(settlements, others) ==
    [status |-> "pending", spent |-> settlements + others, settled |-> settlements,
     amount |-> Deposit - (settlements + others)]

\* create() up to the insert; spent() adds settlements and claims up.
Computed(settlements, others) ==
    LET spent == settlements + others IN
    [status |-> "pending", spent |-> spent, settled |-> settlements,
     amount |-> IF spent > Deposit THEN 0 ELSE Deposit - spent]

\* Mutant: partial releases are not counted as spent.
LookupIgnoresReleases(q) ==
    LET e == job[q].e IN
    /\ pc[q] = "lookup"
    /\ IF refund[e] = None
       THEN Move(q, "create", [job[q] EXCEPT !.ref = Computed(settled[e], claimed[e])])
       ELSE IF refund[e].status = "completed" THEN Move(q, "idle", NoJob)
       ELSE Move(q, "execSend", [job[q] EXCEPT !.ref = refund[e]])
    /\ UNCHANGED <<dbVars, queue, tx, abandoned, hiccups, hubVars>>

\* Mutant: a refund that has a row is not tried again.
LookupTriesOnce(q) ==
    LET e == job[q].e
        others == claimed[e] + job[q].obj.released
    IN  /\ pc[q] = "lookup"
        /\ IF refund[e] = None
           THEN Move(q, "create", [job[q] EXCEPT !.ref = Computed(settled[e], others)])
           ELSE Move(q, "idle", NoJob)
        /\ UNCHANGED <<dbVars, queue, tx, abandoned, hiccups, hubVars>>

\* refund() after the session was read: a completed row ends it, another row is
\* executed, and without a row what was spent is summed up.
lookup(q) ==
    LET e == job[q].e
        others == claimed[e] + job[q].obj.released
    IN  /\ pc[q] = "lookup"
        /\ IF refund[e] = None
           THEN Move(q, "create", [job[q] EXCEPT !.ref = Computed(settled[e], others)])
           ELSE IF refund[e].status = "completed" THEN Move(q, "idle", NoJob)
           ELSE Move(q, "execSend", [job[q] EXCEPT !.ref = refund[e]])
        /\ UNCHANGED <<dbVars, queue, tx, abandoned, hiccups, hubVars>>

\* The insert; escrowId is unique, and the loser takes the winner's row.
createRefund(q) ==
    LET e == job[q].e
        stored == IF refund[e] = None THEN job[q].ref ELSE refund[e]
    IN  /\ pc[q] = "create"
        /\ refund' = [refund EXCEPT ![e] = stored]
        /\ Move(q, "execSend", [job[q] EXCEPT !.ref = stored])
        /\ UNCHANGED <<row, closedAt, release, settled, claimed, queue, tx, abandoned, hiccups, hubVars>>

\* Mutant: the refund is completed when its transaction is out.
ExecuteWithoutWait(q) ==
    /\ pc[q] = "execSend"
    /\ Sends(q, "emergencyClose", "refundCompleted", "refundFailed")
    /\ UNCHANGED <<dbVars, queue, hubVars>>

execute(q) ==
    /\ \/ pc[q] = "execSend" /\ Sends(q, "emergencyClose", "execWait", "refundFailed")
       \/ pc[q] = "execWait" /\ Waits(q, "refundCompleted", "refundFailed")
    /\ UNCHANGED <<dbVars, queue, hubVars>>

\* The last save of execute(), over whatever the row holds by now.
saveRefund(q) ==
    LET completed == pc[q] = "refundCompleted" IN
    /\ pc[q] \in {"refundCompleted", "refundFailed"}
    /\ refund' = [refund EXCEPT ![job[q].e] = [job[q].ref EXCEPT !.status =
                        IF completed THEN "completed" ELSE "failed"]]
    /\ Move(q, IF completed THEN "mark" ELSE "idle", job[q])
    /\ UNCHANGED <<row, closedAt, release, settled, claimed, queue, tx, abandoned, hiccups, hubVars>>

markRefunded(q) ==
    /\ pc[q] = "mark"
    /\ row' = [row EXCEPT ![job[q].e] = [@ EXCEPT !.refundedAt = TRUE]]
    /\ Move(q, "idle", job[q])
    /\ UNCHANGED <<closedAt, release, refund, settled, claimed, queue, tx, abandoned, hiccups, hubVars>>

\* sweep(): one UPDATE expires any set of open sessions that are due.
expireDue(s) ==
    /\ s \in Sweeper /\ pc[s] = "idle"
    /\ \E due \in SUBSET {e \in Escrow : row[e].status = "open"} :
        /\ row' = [e \in Escrow |-> IF e \in due THEN [row[e] EXCEPT !.status = "expired"]
                                    ELSE row[e]]
        /\ closedAt' = [e \in Escrow |-> IF e \in due THEN Now ELSE closedAt[e]]
    /\ pc' = [pc EXCEPT ![s] = "find"]
    /\ UNCHANGED <<release, refund, settled, claimed, job, queue, tx, abandoned, hiccups, hubVars>>

\* Expired and cancelled sessions that are not marked as refunded.
Awaiting == {e \in Escrow : row[e].status \in REFUNDABLE /\ ~row[e].refundedAt}

\* The query of the sweep: the first by closedAt, equal ones in any order.
findAwaitingRefund(s) ==
    /\ pc[s] = "find"
    /\ \E S \in SUBSET Awaiting :
        /\ Cardinality(S) = Min({SweepBatch, Cardinality(Awaiting)})
        /\ \A e \in S, f \in Awaiting \ S : closedAt[e] <= closedAt[f]
        /\ queue' = [queue EXCEPT ![s] = S]
    /\ pc' = [pc EXCEPT ![s] = "next"]
    /\ UNCHANGED <<dbVars, job, tx, abandoned, hiccups, hubVars>>

\* The loop of the sweep; its end clears the flag sweeping (pc is idle).
sweepNext(s) ==
    /\ pc[s] = "next"
    /\ \/ /\ queue[s] = {}
          /\ pc' = [pc EXCEPT ![s] = "idle"]
          /\ UNCHANGED <<job, queue>>
       \/ \E e \in queue[s] :
            /\ queue' = [queue EXCEPT ![s] = @ \ {e}]
            /\ BeginRefund(s, e)
    /\ UNCHANGED <<dbVars, tx, abandoned, hiccups, hubVars>>

----------------------------------------------------------------------------
(* Environment                                                             *)

\* The earliest transaction that waits is the next to leave the mempool.
IsNextTx(t) ==
    /\ tx[t] # None /\ tx[t].state = "mempool"
    /\ \A u \in 1..t - 1 : tx[u].state # "mempool"

Becomes(t, state) == tx' = [tx EXCEPT ![t] = [@ EXCEPT !.state = state]]

\* A block executes the call, or reverts it when the hub no longer accepts it.
Mine(t) ==
    /\ IsNextTx(t)
    /\ \/ /\ \/ /\ tx[t].fn = "openEscrow"
                /\ Hub!openEscrow(tx[t].e, Rail, Payee, Deposit, Budget, 0)
             \/ tx[t].fn = "settleBatch" /\ Hub!settleBatch(tx[t].e, tx[t].rel, tx[t].amount)
             \/ tx[t].fn = "closeEscrow" /\ Hub!closeEscrow(tx[t].e, Rail)
             \/ tx[t].fn = "emergencyClose" /\ Hub!emergencyClose(tx[t].e, Rail)
          /\ Becomes(t, "mined") /\ UNCHANGED batchPaid
       \/ ~Accepts(tx[t]) /\ Becomes(t, "reverted") /\ UNCHANGED hubVars
    /\ UNCHANGED <<dbVars, workVars, abandoned, hiccups>>

Drop(t) ==
    /\ Hiccup
    /\ IsNextTx(t) /\ Becomes(t, "dropped")
    /\ UNCHANGED <<dbVars, workVars, abandoned, hubVars>>

\* A settlement transaction is mined, whatever the session's row says by then.
settlementPaid(e, amount) ==
    /\ Hub!settleBatch(e, 0, amount)
    /\ batchPaid' = [batchPaid EXCEPT ![e] = @ + amount]
    /\ UNCHANGED <<dbVars, workVars, tx, abandoned, hiccups>>

\* The row of a settlement that was paid is saved as settled, if it ever is.
settlementBooked(e, amount) ==
    /\ settled[e] + amount <= batchPaid[e]
    /\ settled' = [settled EXCEPT ![e] = @ + amount]
    /\ UNCHANGED <<row, closedAt, release, refund, claimed, workVars,
                   tx, abandoned, hiccups, hubVars>>

\* StreamingService.claim() books a claim, whatever the session holds, and calls
\* no contract.
claim(e, amount) ==
    /\ claimed[e] + amount <= MaxClaimed
    /\ claimed' = [claimed EXCEPT ![e] = @ + amount]
    /\ UNCHANGED <<row, closedAt, release, refund, settled, workVars, tx, abandoned, hiccups, hubVars>>

\* The process dies, or a database call of the request throws.
Abort(q) ==
    /\ pc[q] # "idle"
    /\ Hiccup
    /\ pc' = [pc EXCEPT ![q] = "idle"]
    /\ job' = [job EXCEPT ![q] = NoJob]
    /\ queue' = [queue EXCEPT ![q] = {}]
    /\ UNCHANGED <<dbVars, tx, abandoned, hubVars>>

\* The steps a request that has begun goes on with.
Continues(q) ==
    \/ openOnChain(q) \/ closeOnChain(q) \/ saveSession(q)
    \/ insertRelease(q) \/ payOut(q) \/ giveBack(q) \/ saveFailed(q)
    \/ lookup(q) \/ createRefund(q) \/ execute(q) \/ saveRefund(q) \/ markRefunded(q)
    \/ findAwaitingRefund(q) \/ sweepNext(q)

Next ==
    \/ \E q \in Request, e \in Escrow :
        \/ open(q, e) \/ close(q, e) \/ emergencyClose(q, e) \/ cancel(q, e)
        \/ \E a \in Amounts : releaseFunds(q, e, a)
        \/ refundRequest(q, e)
    \/ \E q \in Request : Continues(q) \/ expireDue(q) \/ Abort(q)
    \/ \E t \in Tx : Mine(t) \/ Drop(t)
    \/ \E e \in Escrow, a \in Amounts :
        settlementPaid(e, a) \/ settlementBooked(e, a) \/ claim(e, a)

Spec == Init /\ [][Next]_vars

\* A request that began runs on, the sweep's timer fires and blocks are made.
Fairness ==
    /\ \A q \in Request : WF_vars(Continues(q))
    /\ \A s \in Sweeper : WF_vars(expireDue(s))
    /\ \A t \in Tx : WF_vars(Mine(t))

FairSpec == Spec /\ Fairness

----------------------------------------------------------------------------
(* Properties                                                              *)

\* Types of the tables, the transactions, the sweep's queue, the hub's state and
\* the history variables.
TypeOK ==
    /\ row \in [Escrow -> Session] /\ closedAt \in [Escrow -> Nat]
    /\ release \in [Release -> ReleaseRow \cup {None}]
    /\ refund \in [Escrow -> RefundRow \cup {None}]
    /\ tx \in [Tx -> Call \cup {None}] /\ abandoned \subseteq Tx
    /\ settled \in [Escrow -> Nat] /\ claimed \in [Escrow -> Nat]
    /\ queue \in [Request -> SUBSET Escrow]
    /\ hiccups \in 0..MaxHiccups
    /\ Hub!TypeOK /\ batchPaid \in [Escrow -> Nat]

\* What the transactions in T carry.
AmountOf(T) == SumFunctionOnSet([t \in T |-> tx[t].amount], T)

\* The transactions that pay, or still may pay, releases of e.
ReleasePayments(e) ==
    {t \in Tx : /\ tx[t] # None /\ tx[t].fn = "settleBatch" /\ tx[t].e = e
                /\ tx[t].state \in {"mempool", "mined"}}

\* escrow-release.service.ts: releasedAmount is "only ever moved by a single
\* conditional UPDATE".  It covers every release the chain has paid or may
\* still pay, but for those the rail gave up on before they were mined.
ReleasedCovers ==
    \A e \in Escrow : row[e].released >= AmountOf(ReleasePayments(e) \ abandoned)

\* "The payee was not paid: give the amount back" (escrow-release.service.ts): a
\* failed release is not paid after all.
FailedNotPaid ==
    \A k \in Release : release[k] # None /\ release[k].status = "failed" =>
        batchSettled[release[k].e][k] = 0

\* It is paid only if a wait gave up on its transaction before it was mined
\* (BlockchainService.waitFor()): the catch block of release() is never reached
\* for a payout that the rail saw mined, and no payout is sent twice.
FailedOnlyPaidLate ==
    \A k \in Release :
        /\ release[k] # None /\ release[k].status = "failed"
        /\ batchSettled[release[k].e][k] # 0
        => \E t \in abandoned : tx[t] # None /\ tx[t].fn = "settleBatch" /\ tx[t].rel = k

\* A refund that says completed was paid by the hub.
CompletedIsRefunded ==
    \A e \in Escrow : refund[e] # None /\ refund[e].status = "completed" =>
        escrows[e].createdAt # 0 /\ ~escrows[e].active

\* Releases of e that were paid although the rail had given up on them.
LatePayments(e) ==
    {t \in ReleasePayments(e) : t \in abandoned /\ tx[t].state = "mined"}

\* refundAmount of a completed refund, which escrow.refunded announces, exceeds
\* what the hub gave back at most by what spent() could not see: settlements
\* not booked when it was summed up, and releases paid after they had failed.
\* Releases still under way when the session ended are never among it.
RefundAccounted ==
    \A e \in Escrow : refund[e] # None /\ refund[e].status = "completed" =>
        refund[e].amount <= refunded[e] + (batchPaid[e] - refund[e].settled)
                                        + AmountOf(LatePayments(e))

\* docs/WEBHOOKS.md on escrow.refunded: "the unspent deposit of an expired or
\* cancelled session was returned": the amount it names is what the hub gave
\* back.  A settlement that is paid but not booked when the refund is summed up
\* breaks it.
RefundNotOverstated ==
    \A e \in Escrow : refund[e] # None /\ refund[e].status = "completed" =>
        refund[e].amount <= refunded[e]

\* escrow-refund.entity.ts: "an escrow is refunded once, however often the
\* refund is requested": a completed refund is final.  Of two executions that
\* overlap, the one the hub refuses writes its failure over the other.
CompletedStays ==
    [][\A e \in Escrow : refund[e] # None /\ refund[e].status = "completed" =>
            refund'[e] = refund[e]]_refund

\* Sessions the sweep selects again and again although the hub holds nothing
\* for them fill its batch.
Crowded == Cardinality({e \in Awaiting : ~escrows[e].active}) >= SweepBatch

\* The hub no longer holds the deposit, or the session was closed instead.
Returned(e) == ~escrows[e].active \/ row[e].status = "closed"

\* docs/SETTLEMENT-PROTOCOL.md 6.1: the sweep returns the deposit of expired and
\* cancelled sessions, if not for ever crowded by such that it cannot refund.
DepositReturns ==
    \A e \in Escrow :
        \/ []<>Crowded
        \/ row[e].status \in REFUNDABLE /\ escrows[e].active ~> Returned(e)

\* "Sessions that end without the payer closing them are refunded by
\* RefundsService" (docs/SETTLEMENT-PROTOCOL.md): the same without exception.
SweepRefundsAll ==
    \A e \in Escrow :
        row[e].status \in REFUNDABLE /\ escrows[e].active ~> Returned(e)
=============================================================================
