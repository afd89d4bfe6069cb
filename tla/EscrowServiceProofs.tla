------------------------ MODULE EscrowServiceProofs ------------------------
(***************************************************************************)
(* What the escrow service keeps for any number of sessions, requests,     *)
(* transactions and hiccups.  A theorem that needs the environment to be   *)
(* free of a fault names that fault; the others hold under all of them.    *)
(***************************************************************************)
EXTENDS EscrowService, SumTheorems

Job ==
    [e: Escrow \cup {None}, obj: Session \cup {None}, amount: Amounts \cup {0},
     rel: Release \cup {None}, tx: Tx \cup {None}, ref: RefundRow \cup {None}, at: Nat]

Saving == {"saveClose", "saveEmergency", "saveCancel"}
Paying == {"paySend", "payWait", "giveBack", "saveFailed"}
Refunding == {"create", "execSend", "execWait", "refundCompleted", "refundFailed"}
Resting == {"idle", "find", "next"}
Label == Saving \cup Paying \cup Refunding \cup Resting \cup
         {"openSend", "openWait", "closeSend", "closeWait", "insert", "lookup", "mark"}

\* The call whose transaction a request waits for.
Awaited ==
    [openWait |-> "openEscrow", closeWait |-> "closeEscrow",
     payWait |-> "settleBatch", execWait |-> "emergencyClose"]

\* What a request remembers where it stands.
JobFits(label, j) ==
    /\ j \in Job
    /\ label \notin Resting => j.e \in Escrow
    /\ label \in Saving \cup {"lookup"} => j.obj \in Session
    /\ label \in Paying \cup {"insert"} => j.amount \in Amounts
    /\ label \in Paying => j.rel \in Release
    /\ label \in Refunding => j.ref \in RefundRow

\* The transaction a request waits for is its own.
WaitsFor(label, j) ==
    label \in DOMAIN Awaited =>
        /\ j.tx \in Tx /\ tx[j.tx] # None
        /\ tx[j.tx].fn = Awaited[label] /\ tx[j.tx].e = j.e

\* The hub's types; what it gives back is never below zero.
HubTypes ==
    Hub!TypeOK /\ \A e \in Escrow : escrows[e].spent <= escrows[e].deposit

ServiceTypes ==
    /\ TypeOK /\ HubTypes
    /\ pc \in [Request -> Label]
    /\ job \in [Request -> Job]
    /\ \A q \in Request : JobFits(pc[q], job[q]) /\ WaitsFor(pc[q], job[q])

----------------------------------------------------------------------------
(* Refunds that say completed                                              *)

ClosedOnHub(e) == escrows[e].createdAt # 0 /\ ~escrows[e].active

\* A session that is active was opened, and one closed by emergencyClose is
\* closed; so is the session of a refund that is, or will be, completed.
CloseInv ==
    /\ \A e \in Escrow : escrows[e].active => escrows[e].createdAt # 0
    /\ \A t \in Tx : tx[t] # None /\ tx[t].fn = "emergencyClose" /\ tx[t].state = "mined" =>
          ClosedOnHub(tx[t].e)
    /\ \A q \in Request : pc[q] = "refundCompleted" => ClosedOnHub(job[q].e)
    /\ \A q \in Request : pc[q] = "create" => job[q].ref.status = "pending"
    /\ CompletedIsRefunded

----------------------------------------------------------------------------
(* Releases and their transactions                                         *)

Dead == {"reverted", "dropped"}

\* t is a transaction of release k.
Pays(t, k) == tx[t] # None /\ tx[t].fn = "settleBatch" /\ tx[t].rel = k

\* A request that pays release k is alone with it, and knows its row.
OnePayer ==
    \A q \in Request : pc[q] \in Paying =>
        LET k == job[q].rel IN
        /\ release[k] # None /\ release[k].status = "completed"
        /\ release[k].e = job[q].e /\ release[k].amount = job[q].amount
        /\ \A r \in Request : pc[r] \in Paying /\ job[r].rel = k => r = q

\* A release has one transaction at most, and it carries what the row says.
OneTransaction ==
    \A t \in Tx : tx[t] # None /\ tx[t].fn = "settleBatch" =>
        LET k == tx[t].rel IN
        /\ k \in Release /\ release[k] # None
        /\ release[k].e = tx[t].e /\ release[k].amount = tx[t].amount
        /\ \A u \in Tx : Pays(u, k) => u = t

\* What the hub logs for a release is its transaction.
LoggedIsMined ==
    \A e \in Escrow, k \in Release : batchSettled[e][k] # 0 =>
        \E t \in Tx : Pays(t, k) /\ tx[t].state = "mined"

\* The transaction is dead, or the rail does not look at it any more.
Lost(t) == tx[t].state \in Dead \/ t \in abandoned

\* Where a request stands tells what became of the transaction.
PayerKnows ==
    \A q \in Request :
        LET k == job[q].rel IN
        /\ pc[q] = "paySend" => \A t \in Tx : ~Pays(t, k)
        /\ pc[q] = "payWait" => Pays(job[q].tx, k)
        /\ pc[q] \in {"giveBack", "saveFailed"} => \A t \in Tx : Pays(t, k) => Lost(t)

\* The transaction of a failed release is lost.
FailedIsLost ==
    \A k \in Release : release[k] # None /\ release[k].status = "failed" =>
        \A t \in Tx : Pays(t, k) => Lost(t)

ReleaseInv == OnePayer /\ OneTransaction /\ LoggedIsMined /\ PayerKnows /\ FailedIsLost

----------------------------------------------------------------------------
(* What is reserved                                                        *)

\* q has reserved an amount of e that no transaction stands for, but a lost one.
Reserves(q, e) ==
    /\ job[q].e = e
    /\ \/ pc[q] \in {"insert", "paySend", "giveBack"}
       \/ pc[q] = "payWait" /\ Lost(job[q].tx)

ReservedBy(e) == [q \in Request |-> IF Reserves(q, e) THEN job[q].amount ELSE 0]
PaidBy(e) == [t \in Tx |-> IF t \in ReleasePayments(e) \ abandoned THEN tx[t].amount ELSE 0]

\* releasedAmount covers the transactions and the requests on their way.
Covered ==
    \A e \in Escrow :
        row[e].released >=
            SumFunctionOnSet(ReservedBy(e), Request) + SumFunctionOnSet(PaidBy(e), Tx)

----------------------------------------------------------------------------
(* What a refund counts as spent                                           *)

\* t has paid a release of e.
Mined(t, e) ==
    tx[t] # None /\ tx[t].fn = "settleBatch" /\ tx[t].e = e /\ tx[t].state = "mined"

MinedBy(e) == [t \in Tx |-> IF Mined(t, e) THEN tx[t].amount ELSE 0]
MinedSum(e) == SumFunctionOnSet(MinedBy(e), Tx)

\* What the hub has spent of a session went to settlements or to releases.  What
\* is left it gave back when it closed the session.
Booked(e) ==
    /\ escrows[e].createdAt = 0 =>
          escrows[e].spent = 0 /\ escrows[e].deposit = 0 /\ ~escrows[e].active
    /\ escrows[e].createdAt # 0 => escrows[e].deposit = Deposit
    /\ refunded[e] = IF escrows[e].active THEN 0 ELSE escrows[e].deposit - escrows[e].spent
    /\ escrows[e].spent <= batchPaid[e] + MinedSum(e)

HubBooked == \A e \in Escrow : Booked(e)

\* The row has left the state open, so that nothing is reserved or given back.
Shut(e) == row[e].status \notin {"none", "open"}

\* A refund row that counts the settlements it knows and the releases, and is
\* floored at zero; it knows no settlement that was not paid.
Counts(ref, released, limit) ==
    /\ ref.settled <= limit
    /\ ref.spent >= ref.settled + released
    /\ ref.amount = IF ref.spent > Deposit THEN 0 ELSE Deposit - ref.spent

\* A refund that has begun counts all releases that were or can still be paid, and
\* the settlements that were booked.
SpentIsCounted ==
    /\ \A e \in Escrow : settled[e] <= batchPaid[e]
    /\ \A e \in Escrow : refund[e] # None =>
          Shut(e) /\ Counts(refund[e], row[e].released, batchPaid[e])
    /\ \A q \in Request : pc[q] = "lookup" =>
          Shut(job[q].e) /\ job[q].obj.released = row[job[q].e].released
    /\ \A q \in Request : pc[q] \in Refunding =>
          Shut(job[q].e) /\ Counts(job[q].ref, row[job[q].e].released, batchPaid[job[q].e])

----------------------------------------------------------------------------
(* The hub's calls, field by field                                         *)

LEMMA HubOpens ==
    ASSUME HubTypes, NEW e \in Escrow, Hub!openEscrow(e, Rail, Payee, Deposit, Budget, 0)
    PROVE  /\ HubTypes' /\ escrows[e].createdAt = 0
           /\ \A x \in Escrow : x # e => escrows'[x] = escrows[x]
           /\ escrows'[e].createdAt = 1 /\ escrows'[e].active
           /\ escrows'[e].deposit = Deposit /\ escrows'[e].spent = 0
           /\ UNCHANGED <<refunded, batchSettled>>
<1> DEFINE new == [agentA |-> Rail, agentB |-> Payee, deposit |-> Deposit,
                   budgetLimit |-> Budget, spent |-> 0, ttl |-> 0, createdAt |-> 1,
                   active |-> TRUE, disputed |-> FALSE]
<1>1. /\ escrows[e].createdAt = 0 /\ escrows' = [escrows EXCEPT ![e] = new]
      /\ balance' = balance + Deposit /\ UNCHANGED <<paid, refunded, batchSettled>>
  BY DEF Hub!openEscrow
<1>2. new \in Hub!EscrowSession /\ new.deposit = Deposit /\ new.spent = 0 /\ new.createdAt = 1
      /\ new.active /\ Deposit \in Nat
  BY EscrowAssumption DEF Hub!EscrowSession, Hub!Address
<1> HIDE DEF new
<1>3. escrows \in [Escrow -> Hub!EscrowSession] /\ balance \in Int
  BY DEF HubTypes, Hub!TypeOK
<1>4. /\ escrows'[e] = new /\ \A x \in Escrow : x # e => escrows'[x] = escrows[x]
      /\ escrows' \in [Escrow -> Hub!EscrowSession] /\ balance' \in Int
  BY <1>1, <1>2, <1>3
<1>5. \A x \in Escrow : escrows'[x].spent <= escrows'[x].deposit
  BY <1>2, <1>4 DEF HubTypes
<1>6. Hub!TypeOK'
  BY <1>1, <1>4 DEF HubTypes, Hub!TypeOK
<1>7. QED
  BY <1>1, <1>2, <1>4, <1>5, <1>6 DEF HubTypes

LEMMA HubSettles ==
    ASSUME HubTypes, NEW e \in Escrow, NEW h \in Release \cup {0}, NEW total \in Nat,
           Hub!settleBatch(e, h, total)
    PROVE  /\ HubTypes' /\ escrows[e].active
           /\ \A x \in Escrow : x # e =>
                 escrows'[x] = escrows[x] /\ batchSettled'[x] = batchSettled[x]
           /\ escrows'[e].createdAt = escrows[e].createdAt
           /\ escrows'[e].active = escrows[e].active
           /\ escrows'[e].deposit = escrows[e].deposit
           /\ escrows'[e].spent = escrows[e].spent + total
           /\ \A k \in Release : k # h => batchSettled'[e][k] = batchSettled[e][k]
           /\ UNCHANGED refunded
<1> DEFINE new == [escrows[e] EXCEPT !.spent = escrows[e].spent + total]
           count == batchSettled[e][h]
           counts == [batchSettled[e] EXCEPT ![h] = IF count = 0 THEN 1 ELSE 2]
<1>1. /\ escrows[e].active /\ escrows[e].spent + total <= escrows[e].deposit
      /\ escrows' = [escrows EXCEPT ![e] = new]
      /\ paid' = [paid EXCEPT ![e] = paid[e] + (total - Hub!Fee(total))]
      /\ balance' = balance - (total - Hub!Fee(total))
      /\ batchSettled' = [batchSettled EXCEPT ![e] = counts]
      /\ UNCHANGED refunded
  BY DEF Hub!settleBatch, Hub!Payable, Hub!PayOut
<1>2. /\ escrows \in [Escrow -> Hub!EscrowSession] /\ balance \in Int
      /\ paid \in [Escrow -> Nat] /\ refunded \in [Escrow -> Nat]
      /\ batchSettled \in [Escrow -> [Release \cup {0} -> 0..2]]
  BY DEF HubTypes, Hub!TypeOK
<1>3. escrows[e] \in Hub!EscrowSession /\ escrows[e].spent + total \in Nat
  BY <1>2 DEF Hub!EscrowSession
<1>4. /\ new \in Hub!EscrowSession /\ new.spent = escrows[e].spent + total
      /\ new.deposit = escrows[e].deposit /\ new.createdAt = escrows[e].createdAt
      /\ new.active = escrows[e].active
  BY <1>3 DEF Hub!EscrowSession
<1>5. Hub!Fee(total) = 0
  <2>1. total * 0 = 0 /\ 0 \div 10000 = 0
    OBVIOUS
  <2>2. QED
    BY <2>1 DEF Hub!Fee
<1>6. /\ counts \in [Release \cup {0} -> 0..2]
      /\ \A k \in Release : k # h => counts[k] = batchSettled[e][k]
  BY <1>2
<1> HIDE DEF new, counts
<1>7. /\ escrows'[e] = new /\ \A x \in Escrow : x # e => escrows'[x] = escrows[x]
      /\ escrows' \in [Escrow -> Hub!EscrowSession]
      /\ paid' \in [Escrow -> Nat] /\ balance' \in Int
      /\ batchSettled' \in [Escrow -> [Release \cup {0} -> 0..2]]
      /\ batchSettled'[e] = counts
      /\ \A x \in Escrow : x # e => batchSettled'[x] = batchSettled[x]
  BY <1>1, <1>2, <1>4, <1>5, <1>6
<1>8. HubTypes'
  BY <1>1, <1>2, <1>4, <1>7 DEF HubTypes, Hub!TypeOK
<1>9. QED
  BY <1>1, <1>4, <1>6, <1>7, <1>8

LEMMA HubCloses ==
    ASSUME HubTypes, NEW e \in Escrow, Hub!CloseAndRefund(e)
    PROVE  /\ HubTypes' /\ escrows[e].active
           /\ \A x \in Escrow : x # e =>
                 escrows'[x] = escrows[x] /\ refunded'[x] = refunded[x]
           /\ escrows'[e].createdAt = escrows[e].createdAt
           /\ ~escrows'[e].active
           /\ escrows'[e].deposit = escrows[e].deposit
           /\ escrows'[e].spent = escrows[e].spent
           /\ refunded'[e] = refunded[e] + (escrows[e].deposit - escrows[e].spent)
           /\ UNCHANGED batchSettled
<1> DEFINE new == [escrows[e] EXCEPT !.active = FALSE]
           back == escrows[e].deposit - escrows[e].spent
<1>1. /\ escrows[e].active /\ escrows' = [escrows EXCEPT ![e] = new]
      /\ refunded' = [refunded EXCEPT ![e] = refunded[e] + back]
      /\ balance' = balance - back /\ UNCHANGED <<paid, batchSettled>>
  BY DEF Hub!CloseAndRefund
<1>2. /\ escrows \in [Escrow -> Hub!EscrowSession] /\ balance \in Int
      /\ refunded \in [Escrow -> Nat]
  BY DEF HubTypes, Hub!TypeOK
<1>3. escrows[e] \in Hub!EscrowSession /\ back \in Nat
  BY <1>2 DEF Hub!EscrowSession, HubTypes
<1>4. /\ new \in Hub!EscrowSession /\ new.spent = escrows[e].spent
      /\ new.deposit = escrows[e].deposit /\ new.createdAt = escrows[e].createdAt
      /\ ~new.active
  BY <1>3 DEF Hub!EscrowSession
<1> HIDE DEF new
<1>5. /\ escrows'[e] = new /\ \A x \in Escrow : x # e => escrows'[x] = escrows[x]
      /\ escrows' \in [Escrow -> Hub!EscrowSession]
      /\ refunded' \in [Escrow -> Nat] /\ balance' \in Int
      /\ refunded'[e] = refunded[e] + back
      /\ \A x \in Escrow : x # e => refunded'[x] = refunded[x]
  BY <1>1, <1>2, <1>3, <1>4
<1>6. HubTypes'
  BY <1>1, <1>4, <1>5 DEF HubTypes, Hub!TypeOK
<1>7. QED
  BY <1>1, <1>4, <1>5, <1>6

----------------------------------------------------------------------------
(* Types, under every fault                                                *)

LEMMA NoJobFits ==
    NoJob \in Job /\ NoJob.e = None /\ \A l \in Resting : JobFits(l, NoJob)
<1>1. NoJob \in Job /\ NoJob.e = None
  BY DEF NoJob, Job
<1>2. QED
  BY <1>1 DEF JobFits, Resting, Saving, Paying, Refunding

\* Where Move leaves the requests.
LEMMA MoveEffect ==
    ASSUME pc \in [Request -> Label], job \in [Request -> Job],
           NEW q \in Request, NEW label \in Label, NEW j \in Job, Move(q, label, j)
    PROVE  /\ pc' \in [Request -> Label] /\ job' \in [Request -> Job]
           /\ label # "idle" => pc'[q] = label /\ job'[q] = j
           /\ label = "idle" => pc'[q] \in {"idle", "next"} /\ job'[q] = NoJob
           /\ \A r \in Request : r # q => pc'[r] = pc[r] /\ job'[r] = job[r]
  BY NoJobFits DEF Move, Label, Resting

\* A transaction that is out stays out, and is the call it was.
TxKept ==
    \A t \in Tx : tx[t] # None =>
        /\ tx'[t] # None /\ tx'[t].fn = tx[t].fn /\ tx'[t].e = tx[t].e
        /\ tx'[t].rel = tx[t].rel /\ tx'[t].amount = tx[t].amount

\* The same as WaitsFor, about the transactions after a step.
WillWaitFor(label, j) ==
    label \in DOMAIN Awaited =>
        /\ j.tx \in Tx /\ tx'[j.tx] # None
        /\ tx'[j.tx].fn = Awaited[label] /\ tx'[j.tx].e = j.e

\* A step of q that fits where it goes keeps the types.
LEMMA MoveTypes ==
    ASSUME ServiceTypes, TypeOK', HubTypes', TxKept,
           NEW q \in Request, NEW label \in Label, NEW j, Move(q, label, j),
           label # "idle" => JobFits(label, j) /\ WillWaitFor(label, j),
           label = "idle" => j \in Job
    PROVE  ServiceTypes'
<1>1. j \in Job
  BY DEF JobFits
<1>2. /\ pc' \in [Request -> Label] /\ job' \in [Request -> Job]
      /\ label # "idle" => pc'[q] = label /\ job'[q] = j
      /\ label = "idle" => pc'[q] \in {"idle", "next"} /\ job'[q] = NoJob
      /\ \A r \in Request : r # q => pc'[r] = pc[r] /\ job'[r] = job[r]
  BY <1>1, MoveEffect DEF ServiceTypes
<1>3. JobFits(pc'[q], job'[q])
  BY <1>2, NoJobFits DEF Resting
<1>4. \A r \in Request : r # q => JobFits(pc'[r], job'[r])
  BY <1>2 DEF ServiceTypes
<1>5. \A r \in Request : WaitsFor(pc[r], job[r]) =>
         (pc[r] \in DOMAIN Awaited =>
            /\ job[r].tx \in Tx /\ tx'[job[r].tx] # None
            /\ tx'[job[r].tx].fn = Awaited[pc[r]] /\ tx'[job[r].tx].e = job[r].e)
  BY DEF WaitsFor, TxKept
<1>6. \A r \in Request : r # q => WaitsFor(pc[r], job[r])'
  BY <1>2, <1>5 DEF ServiceTypes, WaitsFor
<1>7. WaitsFor(pc[q], job[q])'
  <2>1. CASE label = "idle"
    BY <1>2, <2>1 DEF WaitsFor, Awaited
  <2>2. CASE label # "idle"
    BY <1>2, <2>2 DEF WaitsFor, WillWaitFor
  <2>3. QED
    BY <2>1, <2>2
<1>8. QED
  BY <1>2, <1>3, <1>4, <1>6, <1>7 DEF ServiceTypes, JobFits

\* A step that moves no request.
LEMMA StillTypes ==
    ASSUME ServiceTypes, TypeOK', HubTypes', TxKept, UNCHANGED <<pc, job>>
    PROVE  ServiceTypes'
<1>1. \A r \in Request : WaitsFor(pc[r], job[r])'
  BY DEF ServiceTypes, WaitsFor, TxKept
<1>2. QED
  BY <1>1 DEF ServiceTypes, JobFits

\* A contract call fails, or its transaction is out.
NewCall(q, fn) ==
    [fn |-> fn, e |-> job[q].e, rel |-> job[q].rel, state |-> "mempool", amount |-> job[q].amount]

SentAs(q, fn, t, label) ==
    /\ tx[t] = None /\ tx' = [tx EXCEPT ![t] = NewCall(q, fn)]
    /\ Move(q, label, [job[q] EXCEPT !.tx = t])

LEMMA SendsEffect ==
    ASSUME ServiceTypes, NEW q \in Request, job[q].e \in Escrow,
           NEW fn \in {"openEscrow", "settleBatch", "closeEscrow", "emergencyClose"},
           NEW sent, NEW error, Sends(q, fn, sent, error)
    PROVE  /\ hiccups' \in 0..MaxHiccups /\ UNCHANGED abandoned
           /\ tx' \in [Tx -> Call \cup {None}] /\ TxKept
           /\ \/ Move(q, error, job[q]) /\ UNCHANGED tx
              \/ \E t \in Tx : SentAs(q, fn, t, sent)
<1>1. hiccups' \in 0..MaxHiccups /\ UNCHANGED abandoned
  BY EscrowAssumption DEF Sends, Hiccup, ServiceTypes, TypeOK
<1>2. CASE Move(q, error, job[q]) /\ UNCHANGED tx
  BY <1>1, <1>2 DEF ServiceTypes, TypeOK, TxKept
<1>3. CASE \E t \in Tx :
                /\ \A u \in Tx : tx[u] = None <=> u >= t
                /\ tx' = [tx EXCEPT ![t] = NewCall(q, fn)]
                /\ Move(q, sent, [job[q] EXCEPT !.tx = t])
  <2>1. PICK t \in Tx :
                /\ \A u \in Tx : tx[u] = None <=> u >= t
                /\ tx' = [tx EXCEPT ![t] = NewCall(q, fn)]
                /\ Move(q, sent, [job[q] EXCEPT !.tx = t])
    BY <1>3
  <2>2. tx[t] = None
    BY <2>1 DEF Tx
  <2>3. NewCall(q, fn) \in Call
    BY DEF NewCall, Call, ServiceTypes, JobFits, Job
  <2>4. tx' \in [Tx -> Call \cup {None}] /\ TxKept
    BY <2>1, <2>2, <2>3 DEF ServiceTypes, TypeOK, TxKept
  <2>5. QED
    BY <1>1, <2>1, <2>2, <2>4 DEF SentAs
<1>4. QED
  BY <1>2, <1>3 DEF Sends, NewCall

\* The end of a wait.
LEMMA WaitsEffect ==
    ASSUME ServiceTypes, NEW q \in Request, NEW mined, NEW error, Waits(q, mined, error)
    PROVE  /\ hiccups' \in 0..MaxHiccups /\ UNCHANGED tx /\ TxKept
           /\ \/ /\ tx[job[q].tx].state = "mined" /\ Move(q, mined, job[q])
                 /\ UNCHANGED abandoned
              \/ /\ tx[job[q].tx].state \in Dead /\ Move(q, error, job[q])
                 /\ UNCHANGED abandoned
              \/ /\ tx[job[q].tx].state = "mempool" /\ Move(q, error, job[q])
                 /\ abandoned' = abandoned \cup {job[q].tx}
  BY EscrowAssumption DEF Waits, Hiccup, ServiceTypes, TypeOK, TxKept, Dead

\* The four pairs of a call and a wait, with the labels they lead to.
Chained(q, fn, send, wait, mined, error) ==
    /\ \/ pc[q] = send /\ Sends(q, fn, wait, error)
       \/ pc[q] = wait /\ Waits(q, mined, error)
    /\ UNCHANGED <<dbVars, queue, hubVars>>

\* The job with the transaction in it still fits.
LEMMA TxFits ==
    ASSUME NEW j \in Job, NEW t \in Tx, NEW l, JobFits(l, j)
    PROVE  /\ JobFits(l, [j EXCEPT !.tx = t])
           /\ [j EXCEPT !.tx = t].tx = t /\ [j EXCEPT !.tx = t].e = j.e
           /\ [j EXCEPT !.tx = t].rel = j.rel /\ [j EXCEPT !.tx = t].amount = j.amount
           /\ [j EXCEPT !.tx = t].obj = j.obj /\ [j EXCEPT !.tx = t].ref = j.ref
<1>1. /\ [j EXCEPT !.tx = t] \in Job
      /\ [j EXCEPT !.tx = t].tx = t /\ [j EXCEPT !.tx = t].e = j.e
      /\ [j EXCEPT !.tx = t].rel = j.rel /\ [j EXCEPT !.tx = t].amount = j.amount
      /\ [j EXCEPT !.tx = t].obj = j.obj /\ [j EXCEPT !.tx = t].ref = j.ref
  BY DEF Job
<1>2. QED
  BY <1>1 DEF JobFits

LEMMA ChainTypes ==
    ASSUME ServiceTypes, NEW q \in Request, NEW send \in Label, NEW wait \in DOMAIN Awaited,
           NEW mined \in Label \ DOMAIN Awaited, NEW error \in Label \ DOMAIN Awaited,
           Chained(q, Awaited[wait], send, wait, mined, error), job[q].e \in Escrow,
           \A l \in {wait, mined, error} : l # "idle" => JobFits(l, job[q])
    PROVE  ServiceTypes' /\ TxKept
<1>1. /\ job[q] \in Job /\ wait \in Label /\ wait # "idle"
      /\ Awaited[wait] \in {"openEscrow", "settleBatch", "closeEscrow", "emergencyClose"}
  BY DEF ServiceTypes, Awaited, Label, Paying, Refunding
<1>2. UNCHANGED <<row, closedAt, release, refund, settled, claimed, queue, escrows, balance, paid,
                  refunded, batchSettled, batchPaid>>
  BY DEF Chained, dbVars, hubVars
<1>3. ASSUME hiccups' \in 0..MaxHiccups, tx' \in [Tx -> Call \cup {None}], abandoned' \subseteq Tx
      PROVE  TypeOK' /\ HubTypes'
  BY <1>2, <1>3 DEF ServiceTypes, TypeOK, HubTypes, Hub!TypeOK
<1>4. ASSUME NEW l \in {mined, error}, Move(q, l, job[q]), TypeOK', HubTypes', TxKept
      PROVE  ServiceTypes'
  <2>1. l \in Label /\ WillWaitFor(l, job[q])
    BY DEF WillWaitFor
  <2>2. QED
    BY <1>1, <1>4, <2>1, MoveTypes
<1>5. CASE pc[q] = send /\ Sends(q, Awaited[wait], wait, error)
  <2>1. /\ hiccups' \in 0..MaxHiccups /\ tx' \in [Tx -> Call \cup {None}] /\ TxKept
        /\ \/ Move(q, error, job[q]) /\ UNCHANGED tx
           \/ \E t \in Tx : SentAs(q, Awaited[wait], t, wait)
    BY <1>1, <1>5, SendsEffect
  <2>2. TypeOK' /\ HubTypes'
    <3>1. abandoned' \subseteq Tx
      BY <1>1, <1>5, SendsEffect DEF ServiceTypes, TypeOK
    <3>2. QED
      BY <1>3, <2>1, <3>1
  <2>3. CASE Move(q, error, job[q])
    BY <1>4, <2>1, <2>2, <2>3
  <2>4. CASE \E t \in Tx : SentAs(q, Awaited[wait], t, wait)
    <3>1. PICK t \in Tx : SentAs(q, Awaited[wait], t, wait)
      BY <2>4
    <3>2. /\ tx'[t] = NewCall(q, Awaited[wait]) /\ NewCall(q, Awaited[wait]).fn = Awaited[wait]
          /\ NewCall(q, Awaited[wait]).e = job[q].e /\ tx'[t] # None
      <4>1. NewCall(q, Awaited[wait]) \in Call
        BY <1>1 DEF NewCall, Call, Job
      <4>2. QED
        BY <3>1, <4>1, EscrowAssumption DEF SentAs, ServiceTypes, TypeOK, NewCall
    <3>3. /\ JobFits(wait, [job[q] EXCEPT !.tx = t])
          /\ [job[q] EXCEPT !.tx = t].tx = t /\ [job[q] EXCEPT !.tx = t].e = job[q].e
      BY <1>1, TxFits
    <3>4. Move(q, wait, [job[q] EXCEPT !.tx = t])
      BY <3>1 DEF SentAs
    <3>5. WillWaitFor(wait, [job[q] EXCEPT !.tx = t])
      BY <3>2, <3>3 DEF WillWaitFor
    <3>6. QED
      BY <1>1, <2>1, <2>2, <3>3, <3>4, <3>5, MoveTypes
  <2>5. QED
    BY <2>1, <2>3, <2>4
<1>6. CASE pc[q] = wait /\ Waits(q, mined, error)
  <2>1. /\ hiccups' \in 0..MaxHiccups /\ UNCHANGED tx /\ TxKept
        /\ Move(q, mined, job[q]) \/ Move(q, error, job[q])
    BY <1>6, WaitsEffect
  <2>2. TypeOK' /\ HubTypes'
    <3>1. abandoned' \subseteq Tx
      BY <1>6, WaitsEffect DEF ServiceTypes, TypeOK, WaitsFor
    <3>2. QED
      BY <1>3, <2>1, <3>1 DEF ServiceTypes, TypeOK
  <2>3. QED
    BY <1>4, <2>1, <2>2
<1>7. QED
  BY <1>5, <1>6 DEF Chained

\* The steps that send or wait, as instances of one pattern.
LEMMA ChainSteps ==
    ASSUME ServiceTypes, NEW q \in Request
    PROVE  /\ openOnChain(q) => /\ Chained(q, "openEscrow", "openSend", "openWait", "idle", "idle")
                                /\ ServiceTypes' /\ TxKept
           /\ closeOnChain(q) => /\ Chained(q, "closeEscrow", "closeSend", "closeWait", "idle", "idle")
                                 /\ ServiceTypes' /\ TxKept
           /\ payOut(q) => /\ Chained(q, "settleBatch", "paySend", "payWait", "idle", "giveBack")
                           /\ ServiceTypes' /\ TxKept
           /\ execute(q) => /\ Chained(q, "emergencyClose", "execSend", "execWait",
                                       "refundCompleted", "refundFailed")
                            /\ ServiceTypes' /\ TxKept
<1>1. JobFits(pc[q], job[q]) /\ pc[q] \in Label
  BY DEF ServiceTypes
<1>2. /\ DOMAIN Awaited = {"openWait", "closeWait", "payWait", "execWait"}
      /\ Awaited["openWait"] = "openEscrow" /\ Awaited["closeWait"] = "closeEscrow"
      /\ Awaited["payWait"] = "settleBatch" /\ Awaited["execWait"] = "emergencyClose"
  BY DEF Awaited
<1>3. /\ {"idle", "giveBack", "refundCompleted", "refundFailed"} \subseteq Label \ DOMAIN Awaited
      /\ {"openSend", "closeSend", "paySend", "execSend"} \subseteq Label
  BY <1>2 DEF Label, Paying, Refunding, Resting, Saving
<1>4. ASSUME openOnChain(q)
      PROVE  /\ Chained(q, "openEscrow", "openSend", "openWait", "idle", "idle")
             /\ ServiceTypes' /\ TxKept
  <2>1. Chained(q, "openEscrow", "openSend", "openWait", "idle", "idle")
    BY <1>4 DEF openOnChain, Chained
  <2>2. job[q].e \in Escrow /\ JobFits("openWait", job[q])
    BY <1>1, <2>1 DEF Chained, JobFits, Resting, Saving, Paying, Refunding
  <2>3. ServiceTypes' /\ TxKept
    BY <1>2, <1>3, <2>1, <2>2, ChainTypes
  <2>4. QED
    BY <2>1, <2>3
<1>5. ASSUME closeOnChain(q)
      PROVE  /\ Chained(q, "closeEscrow", "closeSend", "closeWait", "idle", "idle")
             /\ ServiceTypes' /\ TxKept
  <2>1. Chained(q, "closeEscrow", "closeSend", "closeWait", "idle", "idle")
    BY <1>5 DEF closeOnChain, Chained
  <2>2. job[q].e \in Escrow /\ JobFits("closeWait", job[q])
    BY <1>1, <2>1 DEF Chained, JobFits, Resting, Saving, Paying, Refunding
  <2>3. ServiceTypes' /\ TxKept
    BY <1>2, <1>3, <2>1, <2>2, ChainTypes
  <2>4. QED
    BY <2>1, <2>3
<1>6. ASSUME payOut(q)
      PROVE  /\ Chained(q, "settleBatch", "paySend", "payWait", "idle", "giveBack")
             /\ ServiceTypes' /\ TxKept
  <2>1. Chained(q, "settleBatch", "paySend", "payWait", "idle", "giveBack")
    BY <1>6 DEF payOut, Chained
  <2>2. job[q].e \in Escrow /\ JobFits("payWait", job[q]) /\ JobFits("giveBack", job[q])
    BY <1>1, <2>1 DEF Chained, JobFits, Resting, Saving, Paying, Refunding
  <2>3. ServiceTypes' /\ TxKept
    BY <1>2, <1>3, <2>1, <2>2, ChainTypes
  <2>4. QED
    BY <2>1, <2>3
<1>7. ASSUME execute(q)
      PROVE  /\ Chained(q, "emergencyClose", "execSend", "execWait",
                        "refundCompleted", "refundFailed")
             /\ ServiceTypes' /\ TxKept
  <2>1. Chained(q, "emergencyClose", "execSend", "execWait", "refundCompleted", "refundFailed")
    BY <1>7 DEF execute, Chained
  <2>2. /\ job[q].e \in Escrow /\ JobFits("execWait", job[q])
        /\ JobFits("refundCompleted", job[q]) /\ JobFits("refundFailed", job[q])
    BY <1>1, <2>1 DEF Chained, JobFits, Resting, Saving, Paying, Refunding
  <2>3. ServiceTypes' /\ TxKept
    BY <1>2, <1>3, <2>1, <2>2, ChainTypes
  <2>4. QED
    BY <2>1, <2>3
<1>8. QED
  BY <1>4, <1>5, <1>6, <1>7

\* The type parts of the state that a request works on.
LEMMA TypesUnfold ==
    ASSUME ServiceTypes
    PROVE  /\ row \in [Escrow -> Session] /\ release \in [Release -> ReleaseRow \cup {None}]
           /\ refund \in [Escrow -> RefundRow \cup {None}]
           /\ settled \in [Escrow -> Nat] /\ claimed \in [Escrow -> Nat]
           /\ closedAt \in [Escrow -> Nat] /\ batchPaid \in [Escrow -> Nat]
           /\ abandoned \subseteq Tx
           /\ queue \in [Request -> SUBSET Escrow] /\ tx \in [Tx -> Call \cup {None}]
           /\ pc \in [Request -> Label] /\ job \in [Request -> Job]
           /\ hiccups \in 0..MaxHiccups /\ HubTypes
           /\ \A q \in Request : JobFits(pc[q], job[q]) /\ WaitsFor(pc[q], job[q])
  BY DEF ServiceTypes, TypeOK

\* A step of a request that leaves the chain alone.
LEMMA OffChain ==
    ASSUME ServiceTypes, NEW q \in Request, NEW label \in Label, NEW j, Move(q, label, j),
           label \notin DOMAIN Awaited, label # "idle" => JobFits(label, j), j \in Job,
           UNCHANGED <<tx, abandoned, hubVars, hiccups>>, closedAt' \in [Escrow -> Nat],
           row' \in [Escrow -> Session], release' \in [Release -> ReleaseRow \cup {None}],
           refund' \in [Escrow -> RefundRow \cup {None}],
           UNCHANGED <<settled, claimed>>, queue' \in [Request -> SUBSET Escrow]
    PROVE  ServiceTypes'
<1>1. TypeOK' /\ HubTypes' /\ TxKept
  BY TypesUnfold DEF TypeOK, HubTypes, hubVars, Hub!TypeOK, TxKept
<1>2. WillWaitFor(label, j)
  BY DEF WillWaitFor
<1>3. QED
  BY <1>1, <1>2, MoveTypes

\* Now is a rank.
LEMMA NowIsLater ==
    ASSUME ServiceTypes, NEW e \in Escrow
    PROVE  Now \in Nat
<1> DEFINE S == {closedAt[x] : x \in Escrow}
<1>1. S # {} /\ S \subseteq Nat
  BY TypesUnfold
<1>2. IsFiniteSet(S)
  <2>1. closedAt \in Surjection(Escrow, S)
    BY TypesUnfold DEF Surjection
  <2> HIDE DEF S
  <2>2. QED
    BY <2>1, FS_Surjection, EscrowAssumption
<1> HIDE DEF S
<1>3. Max(S) \in S
  <2>1. S \subseteq Int
    BY <1>1
  <2>2. QED
    BY <1>1, <1>2, <2>1, MaxIsMember
<1>4. QED
  BY <1>1, <1>3 DEF Now, S

\* Only q has moved.
OnlyMoves(q) ==
    \A r \in Request : r # q => pc'[r] = pc[r] /\ job'[r] = job[r]

LEMMA OpenEffect ==
    ASSUME ServiceTypes, NEW q \in Request, NEW e \in Escrow, open(q, e)
    PROVE  /\ ServiceTypes' /\ OnlyMoves(q)
           /\ pc[q] = "idle" /\ pc'[q] = "openSend"
           /\ row[e].status = "none" /\ row'[e].status = "open"
           /\ row'[e].released = row[e].released
           /\ \A x \in Escrow : x # e => row'[x] = row[x]
           /\ UNCHANGED <<release, refund, settled, claimed, tx, abandoned, hubVars>>
<1> DEFINE j == [NoJob EXCEPT !.e = e]
           new == [row[e] EXCEPT !.status = "open"]
<1>1. j \in Job /\ j.e = e
  BY DEF NoJob, Job
<1>2. /\ Move(q, "openSend", j) /\ pc[q] = "idle" /\ row[e].status = "none"
      /\ row' = [row EXCEPT ![e] = new]
      /\ UNCHANGED <<release, refund, settled, claimed, closedAt, queue, tx, abandoned, hiccups, hubVars>>
  BY DEF open, Arrives
<1>3. new \in Session /\ new.status = "open" /\ new.released = row[e].released
  BY TypesUnfold DEF Session, EscrowStatus
<1> HIDE DEF j, new
<1>4. /\ row' \in [Escrow -> Session] /\ row'[e] = new
      /\ \A x \in Escrow : x # e => row'[x] = row[x]
  BY <1>2, <1>3, TypesUnfold
<1>5. /\ JobFits("openSend", j) /\ "openSend" \in Label /\ "openSend" \notin DOMAIN Awaited
  BY <1>1 DEF JobFits, Label, Awaited, Saving, Paying, Refunding
<1>6. ServiceTypes'
  BY <1>1, <1>2, <1>4, <1>5, TypesUnfold, OffChain
<1>7. OnlyMoves(q) /\ pc'[q] = "openSend"
  BY <1>1, <1>2, <1>5, TypesUnfold, MoveEffect DEF OnlyMoves
<1>8. QED
  BY <1>2, <1>3, <1>4, <1>6, <1>7

\* close(), emergencyClose() and cancel() read the session they will save.
LEMMA LoadEffect ==
    ASSUME ServiceTypes, NEW q \in Request, NEW e \in Escrow,
           NEW label \in Saving, Load(q, e, label)
    PROVE  /\ ServiceTypes' /\ OnlyMoves(q)
           /\ pc[q] = "idle" /\ pc'[q] = label
           /\ UNCHANGED <<row, release, refund, settled, claimed, tx, abandoned, hubVars>>
<1> DEFINE at == IF label = "saveCancel" THEN Now ELSE 0
           j == [NoJob EXCEPT !.e = e, !.obj = row[e], !.at = at]
<1>1. j \in Job /\ j.e = e /\ j.obj \in Session
  <2>1. at \in Nat
    BY NowIsLater
  <2> HIDE DEF at
  <2>2. QED
    BY <2>1, TypesUnfold DEF NoJob, Job
<1>2. /\ Move(q, label, j) /\ pc[q] = "idle"
      /\ UNCHANGED <<row, release, refund, settled, claimed, closedAt, queue, tx, abandoned, hiccups, hubVars>>
  BY DEF Load, Arrives, dbVars
<1> HIDE DEF j
<1>3. /\ JobFits(label, j) /\ label \in Label /\ label \notin DOMAIN Awaited /\ label # "idle"
  BY <1>1 DEF JobFits, Label, Awaited, Saving, Paying, Refunding, Resting
<1>4. ServiceTypes'
  BY <1>1, <1>2, <1>3, TypesUnfold, OffChain
<1>5. OnlyMoves(q) /\ pc'[q] = label
  BY <1>1, <1>2, <1>3, TypesUnfold, MoveEffect DEF OnlyMoves
<1>6. QED
  BY <1>2, <1>4, <1>5

LEMMA SaveEffect ==
    ASSUME ServiceTypes, NEW q \in Request, saveSession(q)
    PROVE  /\ ServiceTypes' /\ OnlyMoves(q)
           /\ pc[q] \in Saving /\ pc'[q] \in {"closeSend", "idle", "next"}
           /\ "staleSave" \in Faults \/ row[job[q].e] = job[q].obj
           /\ row'[job[q].e].status \in {"closed", "cancelled"}
           /\ row'[job[q].e].released = job[q].obj.released
           /\ \A x \in Escrow : x # job[q].e => row'[x] = row[x]
           /\ UNCHANGED <<release, refund, settled, claimed, tx, abandoned, hubVars>>
<1> DEFINE e == job[q].e
           new == [job[q].obj EXCEPT !.status =
                     IF pc[q] = "saveCancel" THEN "cancelled" ELSE "closed"]
           label == IF pc[q] = "saveClose" THEN "closeSend" ELSE "idle"
<1>1. /\ pc[q] \in Saving /\ row' = [row EXCEPT ![e] = new] /\ Move(q, label, job[q])
      /\ "staleSave" \in Faults \/ row[e] = job[q].obj
      /\ closedAt' = [closedAt EXCEPT ![e] = IF pc[q] = "saveCancel" THEN job[q].at ELSE @]
      /\ UNCHANGED <<release, refund, settled, claimed, queue, tx, abandoned, hiccups, hubVars>>
  BY DEF saveSession, Saving
<1>2. job[q].obj \in Session /\ e \in Escrow /\ job[q] \in Job
  BY <1>1, TypesUnfold DEF JobFits, Saving, Resting
<1>3. /\ new \in Session /\ new.status \in {"closed", "cancelled"}
      /\ new.released = job[q].obj.released
  BY <1>2 DEF Session, EscrowStatus
<1> HIDE DEF new
<1>4. /\ row' \in [Escrow -> Session] /\ row'[e] = new
      /\ \A x \in Escrow : x # e => row'[x] = row[x]
  BY <1>1, <1>2, <1>3, TypesUnfold
<1>5. /\ label # "idle" => JobFits(label, job[q])
      /\ label \in Label /\ label \notin DOMAIN Awaited /\ label \in {"closeSend", "idle"}
  BY <1>2 DEF JobFits, Label, Awaited, Saving, Paying, Refunding, Resting
<1> HIDE DEF label
<1>9. closedAt' \in [Escrow -> Nat]
  BY <1>1, <1>2, TypesUnfold DEF Job
<1>6. ServiceTypes'
  BY <1>1, <1>2, <1>4, <1>5, <1>9, TypesUnfold, OffChain
<1>7. OnlyMoves(q) /\ pc'[q] \in {"closeSend", "idle", "next"}
  BY <1>1, <1>2, <1>5, TypesUnfold, MoveEffect DEF OnlyMoves
<1>8. QED
  BY <1>1, <1>3, <1>4, <1>6, <1>7

LEMMA ReleaseEffect ==
    ASSUME ServiceTypes, NEW q \in Request, NEW e \in Escrow, NEW amount \in Amounts,
           releaseFunds(q, e, amount)
    PROVE  /\ ServiceTypes' /\ OnlyMoves(q)
           /\ pc[q] = "idle" /\ pc'[q] = "insert" /\ job'[q].e = e /\ job'[q].amount = amount
           /\ row[e].status = "open" /\ row'[e].status = "open"
           /\ row'[e].released = row[e].released + amount
           /\ \A x \in Escrow : x # e => row'[x] = row[x]
           /\ UNCHANGED <<release, refund, settled, claimed, tx, abandoned, hubVars>>
<1> DEFINE j == [NoJob EXCEPT !.e = e, !.amount = amount]
           new == [row[e] EXCEPT !.released = row[e].released + amount]
<1>1. j \in Job /\ j.e = e /\ j.amount = amount
  BY DEF NoJob, Job
<1>0. row[e].status = "open"
  BY DEF releaseFunds, CanReserve
<1>2. /\ Move(q, "insert", j) /\ pc[q] = "idle" /\ row[e].status = "open"
      /\ row' = [row EXCEPT ![e] = new]
      /\ UNCHANGED <<release, refund, settled, claimed, closedAt, queue, tx, abandoned, hiccups, hubVars>>
  BY <1>0 DEF releaseFunds, Arrives, Reserved
<1>3. row[e] \in Session /\ row[e].released + amount \in Nat
  BY TypesUnfold, EscrowAssumption DEF Session
<1>4. /\ new \in Session /\ new.status = "open" /\ new.released = row[e].released + amount
  BY <1>2, <1>3 DEF Session, EscrowStatus
<1> HIDE DEF j, new
<1>5. /\ row' \in [Escrow -> Session] /\ row'[e] = new
      /\ \A x \in Escrow : x # e => row'[x] = row[x]
  BY <1>2, <1>4, TypesUnfold
<1>6. /\ JobFits("insert", j) /\ "insert" \in Label /\ "insert" \notin DOMAIN Awaited
  BY <1>1 DEF JobFits, Label, Awaited, Saving, Paying, Refunding
<1>7. ServiceTypes'
  BY <1>1, <1>2, <1>5, <1>6, TypesUnfold, OffChain
<1>8. OnlyMoves(q) /\ pc'[q] = "insert" /\ job'[q] = j
  BY <1>1, <1>2, <1>6, TypesUnfold, MoveEffect DEF OnlyMoves
<1>9. QED
  BY <1>1, <1>2, <1>4, <1>5, <1>7, <1>8

LEMMA InsertEffect ==
    ASSUME ServiceTypes, NEW q \in Request, insertRelease(q)
    PROVE  /\ ServiceTypes' /\ OnlyMoves(q)
           /\ pc[q] = "insert" /\ pc'[q] = "paySend"
           /\ job'[q].e = job[q].e /\ job'[q].amount = job[q].amount
           /\ job'[q].rel \in Release
           /\ release[job'[q].rel] = None /\ release'[job'[q].rel] # None
           /\ release'[job'[q].rel].status = "completed"
           /\ release'[job'[q].rel].e = job[q].e /\ release'[job'[q].rel].amount = job[q].amount
           /\ \A k \in Release : k # job'[q].rel => release'[k] = release[k]
           /\ UNCHANGED <<row, refund, settled, claimed, tx, abandoned, hubVars>>
<1>1. PICK k \in Release :
        /\ \A i \in Release : release[i] = None <=> i >= k
        /\ release' = [release EXCEPT ![k] =
                [e |-> job[q].e, amount |-> job[q].amount, status |-> "completed"]]
        /\ Move(q, "paySend", [job[q] EXCEPT !.rel = k])
  BY DEF insertRelease
<1> DEFINE j == [job[q] EXCEPT !.rel = k]
           new == [e |-> job[q].e, amount |-> job[q].amount, status |-> "completed"]
<1>2. /\ pc[q] = "insert" /\ UNCHANGED <<row, refund, settled, claimed, closedAt, queue, tx, abandoned, hiccups, hubVars>>
  BY DEF insertRelease
<1>3. /\ job[q] \in Job /\ job[q].e \in Escrow /\ job[q].amount \in Amounts
  BY <1>2, TypesUnfold DEF JobFits, Resting
<1>4. j \in Job /\ j.e = job[q].e /\ j.amount = job[q].amount /\ j.rel = k
  BY <1>3 DEF Job
<1>5. /\ new \in ReleaseRow /\ new # None /\ new.status = "completed"
      /\ new.e = job[q].e /\ new.amount = job[q].amount
  BY <1>3, EscrowAssumption DEF ReleaseRow
<1>6. release[k] = None
  BY <1>1 DEF Release
<1>7. Move(q, "paySend", j) /\ release' = [release EXCEPT ![k] = new]
  BY <1>1
<1> HIDE DEF j, new
<1>8. /\ release' \in [Release -> ReleaseRow \cup {None}] /\ release'[k] = new
      /\ \A i \in Release : i # k => release'[i] = release[i]
  BY <1>5, <1>7, TypesUnfold
<1>9. /\ JobFits("paySend", j) /\ "paySend" \in Label /\ "paySend" \notin DOMAIN Awaited
  BY <1>3, <1>4 DEF JobFits, Label, Awaited, Saving, Paying, Refunding
<1>10. ServiceTypes'
  BY <1>2, <1>4, <1>7, <1>8, <1>9, TypesUnfold, OffChain
<1>11. OnlyMoves(q) /\ pc'[q] = "paySend" /\ job'[q] = j
  BY <1>4, <1>7, <1>9, TypesUnfold, MoveEffect DEF OnlyMoves
<1>12. QED
  BY <1>2, <1>4, <1>5, <1>6, <1>8, <1>10, <1>11

LEMMA GiveBackEffect ==
    ASSUME ServiceTypes, NEW q \in Request, giveBack(q)
    PROVE  /\ ServiceTypes' /\ OnlyMoves(q)
           /\ pc[q] = "giveBack" /\ pc'[q] = "saveFailed" /\ job'[q] = job[q]
           /\ \/ row' = row
              \/ /\ row[job[q].e].status = "open" /\ row'[job[q].e].status = "open"
                 /\ row'[job[q].e].released = row[job[q].e].released - job[q].amount
                 /\ \A x \in Escrow : x # job[q].e => row'[x] = row[x]
           /\ UNCHANGED <<release, refund, settled, claimed, tx, abandoned, hubVars>>
<1> DEFINE e == job[q].e
           rest == row[e].released + -job[q].amount
           new == [row[e] EXCEPT !.released = rest]
<1>1. /\ pc[q] = "giveBack" /\ Move(q, "saveFailed", job[q])
      /\ UNCHANGED <<release, refund, settled, claimed, closedAt, queue, tx, abandoned, hiccups, hubVars>>
  BY DEF giveBack
<1>2. e \in Escrow /\ job[q].amount \in Nat /\ row[e] \in Session /\ job[q] \in Job
  BY <1>1, TypesUnfold, EscrowAssumption DEF JobFits, Resting, Paying
<1>3. \/ row' = row
      \/ row[e].status = "open" /\ rest >= 0 /\ row' = [row EXCEPT ![e] = new]
  <2>1. CASE ~CanReserve(e, -job[q].amount)
    BY <2>1 DEF giveBack
  <2>2. CASE CanReserve(e, -job[q].amount)
    <3>1. row[e].status = "open"
      BY <2>2 DEF CanReserve
    <3>2. rest \in Int /\ rest >= 0
      <4>1. rest \in 0..Min({Deposit, Budget})
        BY <2>2 DEF CanReserve
      <4> DEFINE m == Min({Deposit, Budget})
      <4>2. rest \in 0..m
        BY <4>1
      <4> HIDE DEF m, rest
      <4>3. QED
        BY <4>2
    <3>3. row' = [row EXCEPT ![e] = new]
      BY <2>2 DEF giveBack, Reserved
    <3>4. QED
      BY <3>1, <3>2, <3>3
  <2>3. QED
    BY <2>1, <2>2
<1>4. rest \in Int /\ rest = row[e].released - job[q].amount
  BY <1>2 DEF Session
<1>5. rest >= 0 => /\ new \in Session /\ new.status = row[e].status
                   /\ new.released = row[e].released - job[q].amount
  BY <1>2, <1>4 DEF Session
<1> HIDE DEF new, rest
<1>6. /\ row' \in [Escrow -> Session]
      /\ \/ row' = row
         \/ /\ row[e].status = "open" /\ row'[e].status = "open"
            /\ row'[e].released = row[e].released - job[q].amount
            /\ \A x \in Escrow : x # e => row'[x] = row[x]
  BY <1>2, <1>3, <1>5, TypesUnfold
<1>7. /\ JobFits("saveFailed", job[q]) /\ "saveFailed" \in Label /\ "saveFailed" \notin DOMAIN Awaited
  BY <1>1, TypesUnfold DEF JobFits, Label, Awaited, Saving, Paying, Refunding, Resting
<1>8. ServiceTypes'
  BY <1>1, <1>2, <1>6, <1>7, TypesUnfold, OffChain
<1>9. OnlyMoves(q) /\ pc'[q] = "saveFailed" /\ job'[q] = job[q]
  BY <1>1, <1>2, <1>7, TypesUnfold, MoveEffect DEF OnlyMoves
<1>10. QED
  BY <1>1, <1>6, <1>8, <1>9

LEMMA SaveFailedEffect ==
    ASSUME ServiceTypes, NEW q \in Request, saveFailed(q), release[job[q].rel] # None
    PROVE  /\ ServiceTypes' /\ OnlyMoves(q)
           /\ pc[q] = "saveFailed" /\ pc'[q] \in {"idle", "next"}
           /\ release'[job[q].rel] # None
           /\ release'[job[q].rel].e = release[job[q].rel].e
           /\ release'[job[q].rel].amount = release[job[q].rel].amount
           /\ \A k \in Release : k # job[q].rel => release'[k] = release[k]
           /\ UNCHANGED <<row, refund, settled, claimed, tx, abandoned, hubVars>>
<1> DEFINE k == job[q].rel
           new == [release[k] EXCEPT !.status = "failed"]
<1>1. /\ pc[q] = "saveFailed" /\ Move(q, "idle", job[q])
      /\ release' = [release EXCEPT ![k] = new]
      /\ UNCHANGED <<row, refund, settled, claimed, closedAt, queue, tx, abandoned, hiccups, hubVars>>
  BY DEF saveFailed
<1>2. k \in Release /\ job[q] \in Job
  BY <1>1, TypesUnfold DEF JobFits, Paying
<1>3. /\ new \in ReleaseRow /\ new.e = release[k].e /\ new.amount = release[k].amount
  BY <1>2, TypesUnfold DEF ReleaseRow
<1> HIDE DEF new
<1>4. /\ release' \in [Release -> ReleaseRow \cup {None}] /\ release'[k] = new
      /\ \A i \in Release : i # k => release'[i] = release[i]
  BY <1>1, <1>2, <1>3, TypesUnfold
<1>5. "idle" \in Label /\ "idle" \notin DOMAIN Awaited
  BY DEF Label, Resting, Awaited
<1>6. ServiceTypes'
  BY <1>1, <1>2, <1>4, <1>5, TypesUnfold, OffChain
<1>7. OnlyMoves(q) /\ pc'[q] \in {"idle", "next"}
  BY <1>1, <1>2, <1>5, TypesUnfold, MoveEffect DEF OnlyMoves
<1>8. QED
  BY <1>1, <1>3, <1>4, <1>6, <1>7, EscrowAssumption

\* refund() reads the session, or ends at once.
LEMMA BeginRefundEffect ==
    ASSUME ServiceTypes, NEW q \in Request, NEW e \in Escrow, BeginRefund(q, e),
           pc[q] \in {"idle", "next"}, queue' \in [Request -> SUBSET Escrow],
           UNCHANGED <<dbVars, tx, abandoned, hiccups, hubVars>>
    PROVE  /\ ServiceTypes' /\ OnlyMoves(q)
           /\ \/ pc'[q] \in {"idle", "next"}
              \/ /\ pc'[q] = "lookup" /\ job'[q].e = e /\ job'[q].obj = row[e]
                 /\ row[e].status \in REFUNDABLE
           /\ UNCHANGED <<row, release, refund, settled, claimed, tx, abandoned, hubVars>>
<1> DEFINE j == [NoJob EXCEPT !.e = e, !.obj = row[e]]
<1>1. j \in Job /\ j.e = e /\ j.obj = row[e] /\ row[e] \in Session
  BY TypesUnfold DEF NoJob, Job
<1>2. UNCHANGED <<row, closedAt, release, refund, settled, claimed, tx, abandoned, hiccups, hubVars>>
  BY DEF dbVars
<1>3. \/ row[e].status \in REFUNDABLE /\ Move(q, "lookup", j)
      \/ Move(q, "idle", NoJob)
  BY DEF BeginRefund
<1> HIDE DEF j
<1>4. /\ JobFits("lookup", j) /\ {"lookup", "idle"} \subseteq Label
      /\ "lookup" \notin DOMAIN Awaited /\ "idle" \notin DOMAIN Awaited
  BY <1>1 DEF JobFits, Label, Awaited, Saving, Paying, Refunding, Resting
<1>5. CASE row[e].status \in REFUNDABLE /\ Move(q, "lookup", j)
  <2>1. ServiceTypes'
    BY <1>1, <1>2, <1>4, <1>5, TypesUnfold, OffChain
  <2>2. OnlyMoves(q) /\ pc'[q] = "lookup" /\ job'[q] = j
    BY <1>1, <1>4, <1>5, TypesUnfold, MoveEffect DEF OnlyMoves
  <2>3. QED
    BY <1>1, <1>2, <1>5, <2>1, <2>2
<1>6. CASE Move(q, "idle", NoJob)
  <2>1. ServiceTypes'
    BY <1>2, <1>4, <1>6, NoJobFits, TypesUnfold, OffChain
  <2>2. OnlyMoves(q) /\ pc'[q] \in {"idle", "next"}
    BY <1>4, <1>6, NoJobFits, TypesUnfold, MoveEffect DEF OnlyMoves
  <2>3. QED
    BY <1>2, <2>1, <2>2
<1>7. QED
  BY <1>3, <1>5, <1>6

\* What was spent is a number, and the refund is floored.
LEMMA ComputedFits ==
    ASSUME NEW settlements \in Nat, NEW others \in Nat
    PROVE  LET ref == Computed(settlements, others) IN
           /\ ref \in RefundRow /\ ref.status = "pending"
           /\ ref.settled = settlements /\ ref.spent = settlements + others
           /\ ref.amount = IF ref.spent > Deposit THEN 0 ELSE Deposit - ref.spent
<1> DEFINE spent == settlements + others
<1>1. spent \in Nat /\ (IF spent > Deposit THEN 0 ELSE Deposit - spent) \in 0..Deposit
  BY EscrowAssumption
<1>2. QED
  BY <1>1 DEF Computed, RefundRow

\* Keeping another refund object in the job.
LEMMA RefFits ==
    ASSUME NEW j \in Job, j.e \in Escrow, NEW ref \in RefundRow, NEW l \in {"create", "execSend"}
    PROVE  /\ JobFits(l, [j EXCEPT !.ref = ref]) /\ [j EXCEPT !.ref = ref] \in Job
           /\ [j EXCEPT !.ref = ref].ref = ref /\ [j EXCEPT !.ref = ref].e = j.e
<1>1. /\ [j EXCEPT !.ref = ref] \in Job
      /\ [j EXCEPT !.ref = ref].ref = ref /\ [j EXCEPT !.ref = ref].e = j.e
  BY DEF Job
<1>2. QED
  BY <1>1 DEF JobFits, Saving, Paying, Refunding, Resting

LEMMA LookupEffect ==
    ASSUME ServiceTypes, NEW q \in Request, lookup(q)
    PROVE  /\ ServiceTypes' /\ OnlyMoves(q)
           /\ pc[q] = "lookup"
           /\ \/ pc'[q] \in {"idle", "next"}
              \/ /\ pc'[q] = "create" /\ refund[job[q].e] = None /\ job'[q].e = job[q].e
                 /\ job'[q].ref =
                       Computed(settled[job[q].e], claimed[job[q].e] + job[q].obj.released)
              \/ /\ pc'[q] = "execSend" /\ refund[job[q].e] # None /\ job'[q].e = job[q].e
                 /\ refund[job[q].e].status # "completed" /\ job'[q].ref = refund[job[q].e]
           /\ UNCHANGED <<row, release, refund, settled, claimed, tx, abandoned, hubVars>>
<1> DEFINE e == job[q].e
           others == claimed[e] + job[q].obj.released
           new == Computed(settled[e], others)
<1>1. /\ pc[q] = "lookup"
      /\ \/ refund[e] = None /\ Move(q, "create", [job[q] EXCEPT !.ref = new])
         \/ Move(q, "idle", NoJob)
         \/ /\ refund[e] # None /\ refund[e].status # "completed"
            /\ Move(q, "execSend", [job[q] EXCEPT !.ref = refund[e]])
      /\ UNCHANGED <<row, release, refund, settled, claimed, closedAt, queue, tx, abandoned, hiccups, hubVars>>
  BY DEF lookup, dbVars
<1>2. job[q] \in Job /\ e \in Escrow /\ job[q].obj \in Session
  BY <1>1, TypesUnfold DEF JobFits, Resting
<1>3. new \in RefundRow
  <2>1. settled[e] \in Nat /\ others \in Nat
    BY <1>2, TypesUnfold DEF Session
  <2> HIDE DEF others
  <2>2. QED
    BY <2>1, ComputedFits
<1> HIDE DEF new
<1>4. /\ {"create", "execSend", "idle"} \subseteq Label
      /\ \A l \in {"create", "execSend", "idle"} : l \notin DOMAIN Awaited
  BY DEF Label, Awaited, Refunding, Resting
<1>5. CASE refund[e] = None /\ Move(q, "create", [job[q] EXCEPT !.ref = new])
  <2> DEFINE j == [job[q] EXCEPT !.ref = new]
  <2>1. JobFits("create", j) /\ j \in Job /\ j.ref = new /\ j.e = e
    BY <1>2, <1>3, RefFits
  <2>2. Move(q, "create", j)
    BY <1>5
  <2> HIDE DEF j
  <2>3. ServiceTypes'
    BY <1>1, <1>4, <2>1, <2>2, TypesUnfold, OffChain
  <2>4. OnlyMoves(q) /\ pc'[q] = "create" /\ job'[q] = j
    BY <1>4, <2>1, <2>2, TypesUnfold, MoveEffect DEF OnlyMoves
  <2>5. QED
    BY <1>1, <1>5, <2>1, <2>3, <2>4 DEF new
<1>6. CASE Move(q, "idle", NoJob)
  <2>1. ServiceTypes'
    BY <1>1, <1>4, <1>6, NoJobFits, TypesUnfold, OffChain
  <2>2. OnlyMoves(q) /\ pc'[q] \in {"idle", "next"}
    BY <1>4, <1>6, NoJobFits, TypesUnfold, MoveEffect DEF OnlyMoves
  <2>3. QED
    BY <1>1, <2>1, <2>2
<1>7. CASE /\ refund[e] # None /\ refund[e].status # "completed"
           /\ Move(q, "execSend", [job[q] EXCEPT !.ref = refund[e]])
  <2> DEFINE j == [job[q] EXCEPT !.ref = refund[e]]
  <2>0. refund[e] \in RefundRow
    BY <1>2, <1>7, TypesUnfold
  <2>1. JobFits("execSend", j) /\ j \in Job /\ j.ref = refund[e] /\ j.e = e
    BY <1>2, <2>0, RefFits
  <2>2. Move(q, "execSend", j)
    BY <1>7
  <2> HIDE DEF j
  <2>3. ServiceTypes'
    BY <1>1, <1>4, <2>1, <2>2, TypesUnfold, OffChain
  <2>4. OnlyMoves(q) /\ pc'[q] = "execSend" /\ job'[q] = j
    BY <1>4, <2>1, <2>2, TypesUnfold, MoveEffect DEF OnlyMoves
  <2>5. QED
    BY <1>1, <1>7, <2>1, <2>3, <2>4
<1>8. QED
  BY <1>1, <1>5, <1>6, <1>7

LEMMA CreateEffect ==
    ASSUME ServiceTypes, NEW q \in Request, createRefund(q)
    PROVE  /\ ServiceTypes' /\ OnlyMoves(q)
           /\ pc[q] = "create" /\ pc'[q] = "execSend"
           /\ job'[q].e = job[q].e /\ job'[q].ref = refund'[job[q].e]
           /\ refund'[job[q].e] =
                 IF refund[job[q].e] = None THEN job[q].ref ELSE refund[job[q].e]
           /\ \A x \in Escrow : x # job[q].e => refund'[x] = refund[x]
           /\ UNCHANGED <<row, release, settled, claimed, tx, abandoned, hubVars>>
<1> DEFINE e == job[q].e
           stored == IF refund[e] = None THEN job[q].ref ELSE refund[e]
           j == [job[q] EXCEPT !.ref = stored]
<1>1. /\ pc[q] = "create" /\ refund' = [refund EXCEPT ![e] = stored] /\ Move(q, "execSend", j)
      /\ UNCHANGED <<row, release, settled, claimed, closedAt, queue, tx, abandoned, hiccups, hubVars>>
  BY DEF createRefund
<1>2. job[q] \in Job /\ e \in Escrow /\ stored \in RefundRow
  BY <1>1, TypesUnfold DEF JobFits, Resting, Refunding
<1> HIDE DEF stored
<1>3. JobFits("execSend", j) /\ j \in Job /\ j.ref = stored /\ j.e = e
  BY <1>2, RefFits
<1> HIDE DEF j
<1>4. /\ refund' \in [Escrow -> RefundRow \cup {None}] /\ refund'[e] = stored
      /\ \A x \in Escrow : x # e => refund'[x] = refund[x]
  BY <1>1, <1>2, TypesUnfold
<1>5. "execSend" \in Label /\ "execSend" \notin DOMAIN Awaited
  BY DEF Label, Awaited, Refunding
<1>6. ServiceTypes'
  BY <1>1, <1>3, <1>4, <1>5, TypesUnfold, OffChain
<1>7. OnlyMoves(q) /\ pc'[q] = "execSend" /\ job'[q] = j
  BY <1>1, <1>3, <1>5, TypesUnfold, MoveEffect DEF OnlyMoves
<1>8. QED
  BY <1>1, <1>3, <1>4, <1>6, <1>7 DEF stored

LEMMA SaveRefundEffect ==
    ASSUME ServiceTypes, NEW q \in Request, saveRefund(q)
    PROVE  /\ ServiceTypes' /\ OnlyMoves(q)
           /\ \/ pc[q] = "refundCompleted" /\ pc'[q] = "mark" /\ refund'[job[q].e].status = "completed"
              \/ /\ pc[q] = "refundFailed" /\ pc'[q] \in {"idle", "next"}
                 /\ refund'[job[q].e].status = "failed"
           /\ refund'[job[q].e].spent = job[q].ref.spent
           /\ refund'[job[q].e].amount = job[q].ref.amount
           /\ refund'[job[q].e].settled = job[q].ref.settled
           /\ \A x \in Escrow : x # job[q].e => refund'[x] = refund[x]
           /\ UNCHANGED <<row, release, settled, claimed, tx, abandoned, hubVars>>
<1> DEFINE e == job[q].e
           completed == pc[q] = "refundCompleted"
           new == [job[q].ref EXCEPT !.status = IF completed THEN "completed" ELSE "failed"]
           label == IF completed THEN "mark" ELSE "idle"
<1>1. /\ pc[q] \in {"refundCompleted", "refundFailed"} /\ refund' = [refund EXCEPT ![e] = new]
      /\ Move(q, label, job[q])
      /\ UNCHANGED <<row, release, settled, claimed, closedAt, queue, tx, abandoned, hiccups, hubVars>>
  BY DEF saveRefund
<1>2. job[q] \in Job /\ e \in Escrow /\ job[q].ref \in RefundRow
  BY <1>1, TypesUnfold DEF JobFits, Resting, Refunding
<1>3. /\ new \in RefundRow /\ new.status = IF completed THEN "completed" ELSE "failed"
      /\ new.spent = job[q].ref.spent /\ new.amount = job[q].ref.amount
      /\ new.settled = job[q].ref.settled
  BY <1>2 DEF RefundRow
<1> HIDE DEF new
<1>4. /\ refund' \in [Escrow -> RefundRow \cup {None}] /\ refund'[e] = new
      /\ \A x \in Escrow : x # e => refund'[x] = refund[x]
  BY <1>1, <1>2, <1>3, TypesUnfold
<1>5. /\ label \in Label /\ label \notin DOMAIN Awaited
      /\ label # "idle" => JobFits(label, job[q])
      /\ completed => label = "mark"
      /\ ~completed => label = "idle"
  BY <1>2 DEF Label, Awaited, JobFits, Resting, Saving, Paying, Refunding
<1> HIDE DEF label
<1>6. ServiceTypes'
  BY <1>1, <1>2, <1>4, <1>5, TypesUnfold, OffChain
<1>7. /\ OnlyMoves(q)
      /\ completed => pc'[q] = "mark"
      /\ ~completed => pc'[q] \in {"idle", "next"}
  BY <1>1, <1>2, <1>5, TypesUnfold, MoveEffect DEF OnlyMoves
<1>8. CASE completed
  BY <1>1, <1>3, <1>4, <1>6, <1>7, <1>8
<1>9. CASE ~completed
  BY <1>1, <1>3, <1>4, <1>6, <1>7, <1>9
<1>10. QED
  BY <1>8, <1>9

LEMMA MarkEffect ==
    ASSUME ServiceTypes, NEW q \in Request, markRefunded(q)
    PROVE  /\ ServiceTypes' /\ OnlyMoves(q)
           /\ pc[q] = "mark" /\ pc'[q] \in {"idle", "next"}
           /\ \A x \in Escrow : row'[x].status = row[x].status /\ row'[x].released = row[x].released
           /\ UNCHANGED <<release, refund, settled, claimed, tx, abandoned, hubVars>>
<1> DEFINE e == job[q].e
           new == [row[e] EXCEPT !.refundedAt = TRUE]
<1>1. /\ pc[q] = "mark" /\ row' = [row EXCEPT ![e] = new] /\ Move(q, "idle", job[q])
      /\ UNCHANGED <<release, refund, settled, claimed, closedAt, queue, tx, abandoned, hiccups, hubVars>>
  BY DEF markRefunded
<1>2. job[q] \in Job /\ e \in Escrow /\ row[e] \in Session
  BY <1>1, TypesUnfold DEF JobFits, Resting
<1>3. new \in Session /\ new.status = row[e].status /\ new.released = row[e].released
  BY <1>2 DEF Session
<1> HIDE DEF new
<1>4. /\ row' \in [Escrow -> Session]
      /\ \A x \in Escrow : row'[x].status = row[x].status /\ row'[x].released = row[x].released
  BY <1>1, <1>2, <1>3, TypesUnfold
<1>5. "idle" \in Label /\ "idle" \notin DOMAIN Awaited
  BY DEF Label, Resting, Awaited
<1>6. ServiceTypes'
  BY <1>1, <1>2, <1>4, <1>5, TypesUnfold, OffChain
<1>7. OnlyMoves(q) /\ pc'[q] \in {"idle", "next"}
  BY <1>1, <1>2, <1>5, TypesUnfold, MoveEffect DEF OnlyMoves
<1>8. QED
  BY <1>1, <1>4, <1>6, <1>7

\* The sweep's first two statements, and a crash: the request takes no part in
\* the refunds and releases any more.
LEMMA ExpireEffect ==
    ASSUME ServiceTypes, NEW q \in Request, expireDue(q)
    PROVE  /\ ServiceTypes' /\ OnlyMoves(q)
           /\ pc[q] = "idle" /\ pc'[q] = "find"
           /\ \A x \in Escrow :
                 /\ row'[x].released = row[x].released
                 /\ row'[x].status = row[x].status
                    \/ (row[x].status = "open" /\ row'[x].status = "expired")
           /\ UNCHANGED <<release, refund, settled, claimed, tx, abandoned, hubVars>>
<1>1. /\ pc[q] = "idle" /\ pc' = [pc EXCEPT ![q] = "find"]
      /\ UNCHANGED <<release, refund, settled, claimed, job, queue, tx, abandoned, hiccups, hubVars>>
  BY DEF expireDue
<1>2. PICK due \in SUBSET {e \in Escrow : row[e].status = "open"} :
        /\ row' = [e \in Escrow |-> IF e \in due THEN [row[e] EXCEPT !.status = "expired"]
                                    ELSE row[e]]
        /\ closedAt' = [e \in Escrow |-> IF e \in due THEN Now ELSE closedAt[e]]
  BY DEF expireDue
<1>3. \A x \in Escrow :
        /\ [row[x] EXCEPT !.status = "expired"] \in Session
        /\ [row[x] EXCEPT !.status = "expired"].status = "expired"
        /\ [row[x] EXCEPT !.status = "expired"].released = row[x].released
  BY TypesUnfold DEF Session, EscrowStatus
<1>4. /\ row' \in [Escrow -> Session]
      /\ \A x \in Escrow :
            /\ row'[x].released = row[x].released
            /\ row'[x].status = row[x].status
               \/ (row[x].status = "open" /\ row'[x].status = "expired")
  <2>1. \A x \in Escrow : row'[x] = IF x \in due THEN [row[x] EXCEPT !.status = "expired"]
                                   ELSE row[x]
    BY <1>2
  <2>2. \A x \in due : x \in Escrow /\ row[x].status = "open"
    OBVIOUS
  <2>3. \A x \in Escrow : row[x] \in Session
    BY TypesUnfold
  <2>4. \A x \in Escrow : row'[x] \in Session
    BY <1>3, <2>1, <2>3
  <2>5. DOMAIN row' = Escrow /\ row' = [x \in Escrow |-> row'[x]]
    BY <1>2
  <2>6. row' \in [Escrow -> Session]
    BY <2>4, <2>5
  <2>7. ASSUME NEW x \in Escrow
        PROVE  /\ row'[x].released = row[x].released
               /\ row'[x].status = row[x].status
                  \/ (row[x].status = "open" /\ row'[x].status = "expired")
    <3>1. CASE x \in due
      BY <1>3, <2>1, <2>2, <3>1
    <3>2. CASE x \notin due
      BY <2>1, <3>2
    <3>3. QED
      BY <3>1, <3>2
  <2>8. QED
    BY <2>6, <2>7
<1>5. /\ pc' \in [Request -> Label] /\ pc'[q] = "find"
      /\ \A r \in Request : r # q => pc'[r] = pc[r]
      /\ "find" \in Resting /\ "find" \notin DOMAIN Awaited
  BY <1>1, TypesUnfold DEF Label, Resting, Awaited
<1>6. TypeOK' /\ HubTypes'
  <2>1. \A x \in Escrow : Now \in Nat /\ closedAt[x] \in Nat
    BY NowIsLater, TypesUnfold
  <2>2. closedAt' \in [Escrow -> Nat]
    BY <1>2, <2>1
  <2>3. QED
    BY <1>1, <1>4, <2>2, TypesUnfold DEF TypeOK, HubTypes, hubVars, Hub!TypeOK
<1>7. \A r \in Request : JobFits(pc'[r], job'[r])
  BY <1>1, <1>5, TypesUnfold DEF JobFits, Resting, Saving, Paying, Refunding
<1>8. \A r \in Request : WaitsFor(pc[r], job[r])'
  BY <1>1, <1>5, TypesUnfold DEF WaitsFor
<1>9. ServiceTypes'
  BY <1>1, <1>5, <1>6, <1>7, <1>8, TypesUnfold DEF ServiceTypes, JobFits
<1>10. QED
  BY <1>1, <1>4, <1>5, <1>9 DEF OnlyMoves

\* findAwaitingRefund() and the end of the sweep's loop, or a crash.
LEMMA RestEffect ==
    ASSUME ServiceTypes, NEW q \in Request, NEW label \in Resting,
           pc' = [pc EXCEPT ![q] = label],
           (UNCHANGED job /\ pc[q] \in Resting) \/ job' = [job EXCEPT ![q] = NoJob],
           queue' \in [Request -> SUBSET Escrow], hiccups' \in 0..MaxHiccups,
           UNCHANGED <<dbVars, tx, abandoned, hubVars>>
    PROVE  /\ ServiceTypes' /\ OnlyMoves(q) /\ pc'[q] \in Resting
           /\ UNCHANGED <<row, release, refund, settled, claimed, tx, abandoned, hubVars>>
<1>1. UNCHANGED <<row, closedAt, release, refund, settled, claimed, tx, abandoned, hubVars>>
  BY DEF dbVars
<1>2. /\ pc' \in [Request -> Label] /\ pc'[q] = label /\ label \notin DOMAIN Awaited
      /\ \A r \in Request : r # q => pc'[r] = pc[r]
  BY TypesUnfold DEF Label, Resting, Awaited
<1>3. /\ job' \in [Request -> Job] /\ \A r \in Request : r # q => job'[r] = job[r]
  BY NoJobFits, TypesUnfold
<1>4. TypeOK' /\ HubTypes'
  BY <1>1, TypesUnfold DEF TypeOK, HubTypes, hubVars, Hub!TypeOK
<1>5. \A r \in Request : JobFits(pc'[r], job'[r])
  BY <1>2, <1>3, TypesUnfold DEF JobFits, Resting, Saving, Paying, Refunding
<1>6. \A r \in Request : WaitsFor(pc[r], job[r])'
  BY <1>1, <1>2, <1>3, TypesUnfold DEF WaitsFor
<1>7. ServiceTypes'
  BY <1>2, <1>3, <1>4, <1>5, <1>6 DEF ServiceTypes, JobFits
<1>8. QED
  BY <1>1, <1>2, <1>3, <1>7 DEF OnlyMoves

LEMMA FindEffect ==
    ASSUME ServiceTypes, NEW q \in Request, findAwaitingRefund(q)
    PROVE  /\ ServiceTypes' /\ OnlyMoves(q) /\ pc[q] \in Resting /\ pc'[q] \in Resting
           /\ UNCHANGED <<row, release, refund, settled, claimed, tx, abandoned, hubVars>>
<1>1. /\ pc[q] = "find" /\ pc' = [pc EXCEPT ![q] = "next"]
      /\ UNCHANGED <<dbVars, job, tx, abandoned, hiccups, hubVars>>
  BY DEF findAwaitingRefund
<1>2. \E S \in SUBSET Escrow : queue' = [queue EXCEPT ![q] = S]
  BY DEF findAwaitingRefund, Awaiting
<1>3. queue' \in [Request -> SUBSET Escrow] /\ hiccups' \in 0..MaxHiccups
  BY <1>1, <1>2, TypesUnfold
<1>4. "next" \in Resting /\ pc[q] \in Resting
  BY <1>1 DEF Resting
<1>5. QED
  BY <1>1, <1>3, <1>4, RestEffect

LEMMA AbortEffect ==
    ASSUME ServiceTypes, NEW q \in Request, Abort(q)
    PROVE  /\ ServiceTypes' /\ OnlyMoves(q) /\ pc'[q] \in Resting
           /\ UNCHANGED <<row, release, refund, settled, claimed, tx, abandoned, hubVars>>
<1>1. /\ pc' = [pc EXCEPT ![q] = "idle"] /\ job' = [job EXCEPT ![q] = NoJob]
      /\ queue' = [queue EXCEPT ![q] = {}] /\ Hiccup /\ UNCHANGED <<dbVars, tx, abandoned, hubVars>>
  BY DEF Abort
<1>2. queue' \in [Request -> SUBSET Escrow] /\ hiccups' \in 0..MaxHiccups
  BY <1>1, TypesUnfold, EscrowAssumption DEF Hiccup
<1>3. "idle" \in Resting
  BY DEF Resting
<1>4. QED
  BY <1>1, <1>2, <1>3, RestEffect

\* A request for a refund, from the API or from the loop of the sweep.
RefundBegins(q) ==
    \/ pc'[q] \in {"idle", "next"}
    \/ /\ pc'[q] = "lookup" /\ job'[q].e \in Escrow /\ job'[q].obj = row[job'[q].e]
       /\ row[job'[q].e].status \in REFUNDABLE

LEMMA SweepNextEffect ==
    ASSUME ServiceTypes, NEW q \in Request, sweepNext(q)
    PROVE  /\ ServiceTypes' /\ OnlyMoves(q) /\ pc[q] \in Resting /\ RefundBegins(q)
           /\ UNCHANGED <<row, release, refund, settled, claimed, tx, abandoned, hubVars>>
<1>1. pc[q] = "next" /\ pc[q] \in Resting /\ UNCHANGED <<dbVars, tx, abandoned, hiccups, hubVars>>
  BY DEF sweepNext, Resting
<1>2. CASE pc' = [pc EXCEPT ![q] = "idle"] /\ UNCHANGED <<job, queue>>
  <2>1. queue' \in [Request -> SUBSET Escrow] /\ hiccups' \in 0..MaxHiccups
    BY <1>1, <1>2, TypesUnfold
  <2>2. pc'[q] = "idle" /\ "idle" \in Resting
    BY <1>2, TypesUnfold DEF Resting
  <2>3. QED
    BY <1>1, <1>2, <2>1, <2>2, RestEffect DEF RefundBegins
<1>3. CASE \E e \in queue[q] : queue' = [queue EXCEPT ![q] = @ \ {e}] /\ BeginRefund(q, e)
  <2>1. PICK e \in queue[q] : queue' = [queue EXCEPT ![q] = @ \ {e}] /\ BeginRefund(q, e)
    BY <1>3
  <2>2. e \in Escrow /\ queue' \in [Request -> SUBSET Escrow]
    BY <2>1, TypesUnfold
  <2>3. QED
    BY <1>1, <2>1, <2>2, BeginRefundEffect DEF RefundBegins
<1>4. QED
  BY <1>2, <1>3 DEF sweepNext

LEMMA RefundRequestEffect ==
    ASSUME ServiceTypes, NEW q \in Request, NEW e \in Escrow, refundRequest(q, e)
    PROVE  /\ ServiceTypes' /\ OnlyMoves(q) /\ pc[q] \in Resting /\ RefundBegins(q)
           /\ UNCHANGED <<row, release, refund, settled, claimed, tx, abandoned, hubVars>>
<1>1. pc[q] = "idle" /\ BeginRefund(q, e) /\ UNCHANGED <<dbVars, queue, tx, abandoned, hiccups, hubVars>>
  BY DEF refundRequest, Arrives
<1>2. queue' \in [Request -> SUBSET Escrow] /\ pc[q] \in Resting
  BY <1>1, TypesUnfold DEF Resting
<1>3. QED
  BY <1>1, <1>2, BeginRefundEffect DEF RefundBegins

----------------------------------------------------------------------------
(* The environment's steps                                                 *)

\* The step of t from the mempool to another state.
LEMMA BecomesEffect ==
    ASSUME ServiceTypes, NEW t \in Tx, IsNextTx(t),
           NEW state \in {"mined", "reverted", "dropped"}, Becomes(t, state)
    PROVE  /\ tx' \in [Tx -> Call \cup {None}] /\ TxKept
           /\ tx[t] \in Call /\ tx[t].state = "mempool" /\ tx'[t].state = state
           /\ \A u \in Tx : u # t => tx'[u] = tx[u]
           /\ \A u \in Tx : tx[u] = None => tx'[u] = None
<1> DEFINE new == [tx[t] EXCEPT !.state = state]
<1>1. tx[t] # None /\ tx[t].state = "mempool" /\ tx' = [tx EXCEPT ![t] = new]
  BY DEF IsNextTx, Becomes
<1>2. tx[t] \in Call
  BY <1>1, TypesUnfold
<1>3. /\ new \in Call /\ new.state = state /\ new.fn = tx[t].fn /\ new.e = tx[t].e
      /\ new.rel = tx[t].rel /\ new.amount = tx[t].amount
  BY <1>2 DEF Call
<1> HIDE DEF new
<1>4. /\ tx' \in [Tx -> Call \cup {None}] /\ tx'[t] = new
      /\ \A u \in Tx : u # t => tx'[u] = tx[u]
  BY <1>1, <1>3, TypesUnfold
<1>5. QED
  BY <1>1, <1>2, <1>3, <1>4, EscrowAssumption DEF TxKept

\* What a mined transaction does to the hub.
HubRuns(t) ==
    \/ tx[t].fn = "openEscrow" /\ Hub!openEscrow(tx[t].e, Rail, Payee, Deposit, Budget, 0)
    \/ tx[t].fn = "settleBatch" /\ Hub!settleBatch(tx[t].e, tx[t].rel, tx[t].amount)
    \/ tx[t].fn \in {"closeEscrow", "emergencyClose"} /\ Hub!CloseAndRefund(tx[t].e)

\* A settleBatch of the rail carries a release.
Carries == \A t \in Tx : tx[t] # None /\ tx[t].fn = "settleBatch" => tx[t].rel \in Release

LEMMA MineEffect ==
    ASSUME ServiceTypes, Carries, NEW t \in Tx, Mine(t)
    PROVE  /\ ServiceTypes' /\ TxKept
           /\ tx[t] \in Call /\ tx[t].state = "mempool"
           /\ \/ HubRuns(t) /\ tx'[t].state = "mined"
              \/ tx'[t].state = "reverted" /\ UNCHANGED hubVars
           /\ \A u \in Tx : u # t => tx'[u] = tx[u]
           /\ UNCHANGED <<row, release, refund, settled, claimed, pc, job, abandoned, batchPaid>>
<1>1. /\ UNCHANGED <<row, closedAt, release, refund, settled, claimed, pc, job, queue>>
      /\ UNCHANGED <<abandoned, hiccups, batchPaid>> /\ IsNextTx(t)
  BY DEF Mine, dbVars, workVars, hubVars
<1>2. \/ Becomes(t, "mined") /\ HubRuns(t)
      \/ Becomes(t, "reverted") /\ UNCHANGED hubVars
  BY DEF Mine, HubRuns, Hub!closeEscrow, Hub!emergencyClose
<1>3. /\ tx' \in [Tx -> Call \cup {None}] /\ TxKept
      /\ tx[t] \in Call /\ tx[t].state = "mempool"
      /\ \A u \in Tx : u # t => tx'[u] = tx[u]
      /\ \/ HubRuns(t) /\ tx'[t].state = "mined"
         \/ tx'[t].state = "reverted" /\ UNCHANGED hubVars
  BY <1>1, <1>2, BecomesEffect
<1>4. HubTypes'
  <2>0. tx[t].e \in Escrow /\ tx[t].amount \in Amounts \cup {0}
    BY <1>3 DEF Call
  <2>1. HubTypes /\ tx[t].e \in Escrow /\ tx[t].amount \in Nat
    <3>1. \A a \in Amounts : a \in Nat
      BY EscrowAssumption
    <3>2. tx[t].amount \in Nat
      BY <2>0, <3>1
    <3>3. QED
      BY <2>0, <3>2, TypesUnfold
  <2>2. CASE tx[t].fn = "openEscrow" /\ Hub!openEscrow(tx[t].e, Rail, Payee, Deposit, Budget, 0)
    BY <2>1, <2>2, HubOpens
  <2>3. CASE tx[t].fn = "settleBatch" /\ Hub!settleBatch(tx[t].e, tx[t].rel, tx[t].amount)
    <3>1. tx[t] # None /\ tx[t].rel \in Release
      BY <1>3, <2>3, EscrowAssumption DEF Carries
    <3>2. QED
      BY <2>1, <2>3, <3>1, HubSettles
  <2>4. CASE Hub!CloseAndRefund(tx[t].e)
    BY <2>1, <2>4, HubCloses
  <2>5. CASE UNCHANGED hubVars
    BY <2>1, <2>5 DEF hubVars, HubTypes, Hub!TypeOK
  <2>6. QED
    BY <1>3, <2>2, <2>3, <2>4, <2>5 DEF HubRuns
<1>5. TypeOK'
  BY <1>1, <1>3, <1>4, TypesUnfold DEF TypeOK, HubTypes
<1>6. ServiceTypes'
  BY <1>1, <1>3, <1>4, <1>5, StillTypes
<1>7. QED
  BY <1>1, <1>3, <1>6

LEMMA DropEffect ==
    ASSUME ServiceTypes, NEW t \in Tx, Drop(t)
    PROVE  /\ ServiceTypes' /\ TxKept
           /\ tx[t] \in Call /\ tx[t].state = "mempool" /\ tx'[t].state = "dropped"
           /\ \A u \in Tx : u # t => tx'[u] = tx[u]
           /\ UNCHANGED <<row, release, refund, settled, claimed, pc, job, abandoned, hubVars>>
<1>1. /\ UNCHANGED <<row, closedAt, release, refund, settled, claimed, pc, job, queue, abandoned, hubVars>>
      /\ IsNextTx(t) /\ Becomes(t, "dropped") /\ Hiccup
  BY DEF Drop, dbVars, workVars
<1>2. /\ tx' \in [Tx -> Call \cup {None}] /\ TxKept
      /\ tx[t] \in Call /\ tx[t].state = "mempool" /\ tx'[t].state = "dropped"
      /\ \A u \in Tx : u # t => tx'[u] = tx[u]
  BY <1>1, BecomesEffect
<1>3. hiccups' \in 0..MaxHiccups
  BY <1>1, TypesUnfold, EscrowAssumption DEF Hiccup
<1>4. TypeOK' /\ HubTypes'
  BY <1>1, <1>2, <1>3, TypesUnfold DEF TypeOK, HubTypes, hubVars, Hub!TypeOK
<1>5. QED
  BY <1>1, <1>2, <1>4, StillTypes

LEMMA PaidEffect ==
    ASSUME ServiceTypes, NEW e \in Escrow, NEW a \in Amounts, settlementPaid(e, a)
    PROVE  /\ ServiceTypes' /\ Hub!settleBatch(e, 0, a)
           /\ batchPaid'[e] = batchPaid[e] + a
           /\ \A x \in Escrow : x # e => batchPaid'[x] = batchPaid[x]
           /\ UNCHANGED <<row, release, refund, settled, claimed, pc, job, tx, abandoned>>
<1>1. /\ UNCHANGED <<row, closedAt, release, refund, settled, claimed, pc, job, queue>>
      /\ UNCHANGED <<tx, abandoned, hiccups>> /\ Hub!settleBatch(e, 0, a)
      /\ batchPaid' = [batchPaid EXCEPT ![e] = @ + a]
  BY DEF settlementPaid, workVars, dbVars
<1>2. a \in Nat /\ HubTypes
  BY TypesUnfold, EscrowAssumption
<1>3. HubTypes'
  BY <1>1, <1>2, HubSettles
<1>4. /\ batchPaid' \in [Escrow -> Nat] /\ batchPaid'[e] = batchPaid[e] + a
      /\ \A x \in Escrow : x # e => batchPaid'[x] = batchPaid[x]
  BY <1>1, <1>2, TypesUnfold
<1>5. TypeOK' /\ TxKept
  BY <1>1, <1>3, <1>4, TypesUnfold DEF TypeOK, HubTypes, TxKept
<1>6. ServiceTypes'
  BY <1>1, <1>3, <1>5, StillTypes
<1>7. QED
  BY <1>1, <1>4, <1>6

LEMMA BookedEffect ==
    ASSUME ServiceTypes, NEW e \in Escrow, NEW a \in Amounts, settlementBooked(e, a)
    PROVE  /\ ServiceTypes' /\ settled'[e] = settled[e] + a
           /\ settled[e] + a <= batchPaid[e]
           /\ \A x \in Escrow : x # e => settled'[x] = settled[x]
           /\ UNCHANGED <<row, release, refund, claimed, pc, job, tx, abandoned, hubVars>>
<1>1. /\ UNCHANGED <<row, closedAt, release, refund, claimed, pc, job, queue, tx, abandoned, hiccups, hubVars>>
      /\ settled' = [settled EXCEPT ![e] = @ + a] /\ settled[e] + a <= batchPaid[e]
  BY DEF settlementBooked, workVars
<1>2. /\ settled' \in [Escrow -> Nat] /\ settled'[e] = settled[e] + a
      /\ \A x \in Escrow : x # e => settled'[x] = settled[x]
  BY <1>1, TypesUnfold, EscrowAssumption
<1>3. TypeOK' /\ HubTypes' /\ TxKept
  BY <1>1, <1>2, TypesUnfold DEF TypeOK, HubTypes, TxKept, hubVars, Hub!TypeOK
<1>4. QED
  BY <1>1, <1>2, <1>3, StillTypes

LEMMA ClaimEffect ==
    ASSUME ServiceTypes, NEW e \in Escrow, NEW a \in Amounts, claim(e, a)
    PROVE  /\ ServiceTypes'
           /\ UNCHANGED <<row, release, refund, settled, pc, job, tx, abandoned, hubVars>>
<1>1. /\ UNCHANGED <<row, closedAt, release, refund, settled, pc, job, queue, tx, abandoned, hiccups, hubVars>>
      /\ claimed' = [claimed EXCEPT ![e] = @ + a]
  BY DEF claim, workVars
<1>2. claimed' \in [Escrow -> Nat]
  BY <1>1, TypesUnfold, EscrowAssumption
<1>3. TypeOK' /\ HubTypes' /\ TxKept
  BY <1>1, <1>2, TypesUnfold DEF TypeOK, HubTypes, TxKept, hubVars, Hub!TypeOK
<1>4. QED
  BY <1>1, <1>3, StillTypes

LEMMA IdleEffect ==
    ASSUME ServiceTypes, UNCHANGED vars
    PROVE  /\ ServiceTypes'
           /\ UNCHANGED <<row, release, refund, settled, claimed, pc, job, tx, abandoned, hubVars>>
<1>1. /\ UNCHANGED <<row, closedAt, release, refund, settled, claimed, pc, job, queue>>
      /\ UNCHANGED <<tx, abandoned, hiccups, hubVars>>
  BY DEF vars, dbVars, workVars
<1>2. TypeOK' /\ HubTypes' /\ TxKept
  BY <1>1, TypesUnfold DEF TypeOK, HubTypes, TxKept, hubVars, Hub!TypeOK
<1>3. QED
  BY <1>1, <1>2, StillTypes

----------------------------------------------------------------------------
(* What a step can be, for the invariants below                            *)

\* Where a request has no part in a release or a refund.
Outer == Resting \cup Saving \cup {"openSend", "openWait", "closeSend", "closeWait", "mark"}

\* A row that has left the state open does not come back, and releasedAmount
\* is only moved by a stale save.
RowSteady ==
    \A x \in Escrow :
        /\ "staleSave" \in Faults \/ row'[x].released = row[x].released
        /\ row[x].status \notin {"none", "open"} => row'[x].status \notin {"none", "open"}

\* No transaction but one that opens or closes a session is new.
TxGrows ==
    \A t \in Tx :
        \/ tx'[t] = tx[t]
        \/ /\ tx[t] = None /\ tx'[t] # None /\ tx'[t].state = "mempool"
           /\ tx'[t].fn \notin {"settleBatch", "emergencyClose"}

\* No transaction of a release is given up on.
NoneGivenUp ==
    \A t \in Tx : tx[t] # None /\ tx[t].fn = "settleBatch" =>
        (t \in abandoned' <=> t \in abandoned)

Outside(q) ==
    /\ OnlyMoves(q) /\ pc'[q] \in Outer /\ RowSteady /\ TxGrows /\ NoneGivenUp
    /\ UNCHANGED <<release, refund, settled, hubVars>>

Reserving(q) ==
    /\ OnlyMoves(q) /\ pc'[q] = "insert" /\ job'[q].e \in Escrow /\ job'[q].amount \in Amounts
    /\ pc[q] = "idle"
    /\ row[job'[q].e].status = "open" /\ row'[job'[q].e].status = "open"
    /\ row'[job'[q].e].released = row[job'[q].e].released + job'[q].amount
    /\ \A x \in Escrow : x # job'[q].e => row'[x] = row[x]
    /\ UNCHANGED <<release, refund, settled, tx, abandoned, hubVars>>

Inserting(q) ==
    /\ OnlyMoves(q) /\ pc[q] = "insert" /\ pc'[q] = "paySend"
    /\ job'[q].e = job[q].e /\ job'[q].amount = job[q].amount
    /\ job'[q].rel \in Release
    /\ release[job'[q].rel] = None /\ release'[job'[q].rel] # None
    /\ release'[job'[q].rel].status = "completed"
    /\ release'[job'[q].rel].e = job[q].e /\ release'[job'[q].rel].amount = job[q].amount
    /\ \A k \in Release : k # job'[q].rel => release'[k] = release[k]
    /\ UNCHANGED <<row, refund, settled, tx, abandoned, hubVars>>

\* q sends the call fn and waits for it.
Sending(q, fn, wait) ==
    /\ OnlyMoves(q) /\ pc'[q] = wait
    /\ job'[q].tx \in Tx /\ job'[q].e = job[q].e /\ job'[q].rel = job[q].rel
    /\ job'[q].amount = job[q].amount /\ job'[q].ref = job[q].ref
    /\ tx[job'[q].tx] = None /\ tx'[job'[q].tx] = NewCall(q, fn)
    /\ \A t \in Tx : t # job'[q].tx => tx'[t] = tx[t]
    /\ UNCHANGED <<row, release, refund, settled, abandoned, hubVars>>

\* q is told, by an error or by what became of its transaction, where to go on.
Told(q, from, label) ==
    /\ OnlyMoves(q) /\ pc[q] \in from /\ pc'[q] = label /\ job'[q] = job[q]
    /\ UNCHANGED <<row, release, refund, settled, tx, hubVars>>

GivingUp(q) ==
    /\ Told(q, {"paySend", "payWait"}, "giveBack")
    /\ \/ UNCHANGED abandoned /\ (pc[q] = "payWait" => tx[job[q].tx].state \in Dead)
       \/ /\ pc[q] = "payWait" /\ tx[job[q].tx].state = "mempool"
          /\ abandoned' = abandoned \cup {job[q].tx}

GivingBack(q) ==
    /\ OnlyMoves(q) /\ pc[q] = "giveBack" /\ pc'[q] = "saveFailed" /\ job'[q] = job[q]
    /\ \/ row' = row
       \/ /\ row[job[q].e].status = "open" /\ row'[job[q].e].status = "open"
          /\ row'[job[q].e].released = row[job[q].e].released - job[q].amount
          /\ \A x \in Escrow : x # job[q].e => row'[x] = row[x]
    /\ UNCHANGED <<release, refund, settled, tx, abandoned, hubVars>>

Failing(q) ==
    /\ OnlyMoves(q) /\ pc[q] = "saveFailed" /\ pc'[q] \in {"idle", "next"}
    /\ release'[job[q].rel] # None
    /\ release'[job[q].rel].e = release[job[q].rel].e
    /\ release'[job[q].rel].amount = release[job[q].rel].amount
    /\ \A k \in Release : k # job[q].rel => release'[k] = release[k]
    /\ UNCHANGED <<row, refund, settled, tx, abandoned, hubVars>>

Reading(q) ==
    /\ OnlyMoves(q) /\ pc'[q] = "lookup" /\ job'[q].e \in Escrow
    /\ job'[q].obj = row[job'[q].e] /\ row[job'[q].e].status \in REFUNDABLE
    /\ UNCHANGED <<row, release, refund, settled, tx, abandoned, hubVars>>

Deciding(q) ==
    /\ OnlyMoves(q) /\ pc[q] = "lookup" /\ job'[q].e = job[q].e
    /\ \/ /\ pc'[q] = "create" /\ refund[job[q].e] = None
          /\ job'[q].ref = Computed(settled[job[q].e], claimed[job[q].e] + job[q].obj.released)
       \/ /\ pc'[q] = "execSend" /\ refund[job[q].e] # None
          /\ refund[job[q].e].status # "completed" /\ job'[q].ref = refund[job[q].e]
    /\ UNCHANGED <<row, release, refund, settled, tx, abandoned, hubVars>>

Creating(q) ==
    /\ OnlyMoves(q) /\ pc[q] = "create" /\ pc'[q] = "execSend"
    /\ job'[q].e = job[q].e /\ job'[q].ref = refund'[job[q].e]
    /\ refund'[job[q].e] = IF refund[job[q].e] = None THEN job[q].ref ELSE refund[job[q].e]
    /\ \A x \in Escrow : x # job[q].e => refund'[x] = refund[x]
    /\ UNCHANGED <<row, release, settled, tx, abandoned, hubVars>>

Executed(q) ==
    /\ NoneGivenUp
    /\ \/ Told(q, {"execSend", "execWait"}, "refundFailed")
       \/ Told(q, {"execWait"}, "refundCompleted") /\ tx[job[q].tx].state = "mined"

SavingRefund(q) ==
    /\ OnlyMoves(q)
    /\ \/ pc[q] = "refundCompleted" /\ pc'[q] = "mark" /\ refund'[job[q].e].status = "completed"
       \/ /\ pc[q] = "refundFailed" /\ pc'[q] \in {"idle", "next"}
          /\ refund'[job[q].e].status = "failed"
    /\ refund'[job[q].e].spent = job[q].ref.spent
    /\ refund'[job[q].e].amount = job[q].ref.amount
    /\ refund'[job[q].e].settled = job[q].ref.settled
    /\ \A x \in Escrow : x # job[q].e => refund'[x] = refund[x]
    /\ UNCHANGED <<row, release, settled, tx, abandoned, hubVars>>

\* A transaction leaves the mempool.
Leaving(t, state) ==
    /\ tx[t] \in Call /\ tx[t] # None /\ tx[t].state = "mempool" /\ tx'[t].state = state /\ TxKept
    /\ \A u \in Tx : u # t => tx'[u] = tx[u]
    /\ UNCHANGED <<row, release, refund, settled, pc, job, abandoned, batchPaid>>

Dying(t) == Leaving(t, "reverted") \/ Leaving(t, "dropped")

\* A settlement is paid by the hub, and booked.
BatchPaying(e, a) ==
    /\ Hub!settleBatch(e, 0, a) /\ batchPaid'[e] = batchPaid[e] + a
    /\ \A x \in Escrow : x # e => batchPaid'[x] = batchPaid[x]
    /\ UNCHANGED <<row, release, refund, settled, pc, job, tx, abandoned>>

Booking(e, a) ==
    /\ settled'[e] = settled[e] + a /\ settled'[e] <= batchPaid[e]
    /\ \A x \in Escrow : x # e => settled'[x] = settled[x]
    /\ UNCHANGED <<row, release, refund, pc, job, tx, abandoned, hubVars>>

ReleaseSteps(q) ==
    \/ Reserving(q) \/ Inserting(q)
    \/ pc[q] = "paySend" /\ Sending(q, "settleBatch", "payWait")
    \/ GivingUp(q) \/ GivingBack(q) \/ Failing(q)

RefundSteps(q) ==
    \/ Reading(q) \/ Deciding(q) \/ Creating(q)
    \/ pc[q] = "execSend" /\ Sending(q, "emergencyClose", "execWait")
    \/ Executed(q) \/ SavingRefund(q)

HubSteps ==
    \/ \E t \in Tx : Leaving(t, "mined") /\ HubRuns(t)
    \/ \E t \in Tx : Dying(t) /\ UNCHANGED hubVars
    \/ \E e \in Escrow, a \in Amounts : BatchPaying(e, a) \/ Booking(e, a)
    \/ UNCHANGED <<row, release, refund, settled, pc, job, tx, abandoned, hubVars>>

\* A request that pays a release has its row.
RowsExist == \A q \in Request : pc[q] \in Paying => release[job[q].rel] # None

Base == ServiceTypes /\ Carries /\ RowsExist

\* A call or a wait of q, step by step.
LEMMA ChainCases ==
    ASSUME ServiceTypes, NEW q \in Request, NEW send \in Label, NEW wait \in DOMAIN Awaited,
           NEW mined \in Label, NEW error \in Label, NEW fn,
           fn = Awaited[wait], Chained(q, fn, send, wait, mined, error), job[q].e \in Escrow
    PROVE  /\ OnlyMoves(q) /\ UNCHANGED <<row, release, refund, settled, hubVars>>
           /\ fn # "settleBatch" => NoneGivenUp
           /\ \/ pc[q] = send /\ Sending(q, fn, wait)
              \/ /\ UNCHANGED tx
                 /\ \/ pc[q] = send /\ UNCHANGED abandoned
                    \/ pc[q] = wait /\ tx[job[q].tx].state \in Dead /\ UNCHANGED abandoned
                    \/ /\ pc[q] = wait /\ tx[job[q].tx].state = "mempool"
                       /\ abandoned' = abandoned \cup {job[q].tx}
                 /\ error # "idle" => pc'[q] = error /\ job'[q] = job[q]
                 /\ error = "idle" => pc'[q] \in {"idle", "next"}
              \/ /\ UNCHANGED <<tx, abandoned>> /\ pc[q] = wait /\ tx[job[q].tx].state = "mined"
                 /\ mined # "idle" => pc'[q] = mined /\ job'[q] = job[q]
                 /\ mined = "idle" => pc'[q] \in {"idle", "next"}
<1>1. /\ job[q] \in Job /\ wait \in Label /\ wait # "idle"
      /\ fn \in {"openEscrow", "settleBatch", "closeEscrow", "emergencyClose"}
  BY TypesUnfold DEF Awaited, Label, Paying, Refunding
<1>2. UNCHANGED <<row, release, refund, settled, hubVars>>
  BY DEF Chained, dbVars, hubVars
<1>3. ASSUME NEW l \in Label, Move(q, l, job[q])
      PROVE  /\ OnlyMoves(q)
             /\ l # "idle" => pc'[q] = l /\ job'[q] = job[q]
             /\ l = "idle" => pc'[q] \in {"idle", "next"}
  BY <1>1, <1>3, TypesUnfold, MoveEffect DEF OnlyMoves
<1>4. ASSUME NEW t \in Tx, pc[q] = send, SentAs(q, fn, t, wait), UNCHANGED abandoned
      PROVE  OnlyMoves(q) /\ Sending(q, fn, wait)
  <2> DEFINE j == [job[q] EXCEPT !.tx = t]
  <2>1. /\ j \in Job /\ j.tx = t /\ j.e = job[q].e /\ j.rel = job[q].rel
        /\ j.amount = job[q].amount /\ j.ref = job[q].ref
    BY <1>1 DEF Job
  <2>2. Move(q, wait, j) /\ tx[t] = None /\ tx' = [tx EXCEPT ![t] = NewCall(q, fn)]
    BY <1>4 DEF SentAs
  <2> HIDE DEF j
  <2>3. OnlyMoves(q) /\ pc'[q] = wait /\ job'[q] = j
    BY <1>1, <2>1, <2>2, TypesUnfold, MoveEffect DEF OnlyMoves
  <2>4. tx'[t] = NewCall(q, fn) /\ \A u \in Tx : u # t => tx'[u] = tx[u]
    BY <2>2, TypesUnfold
  <2>5. QED
    BY <1>2, <1>4, <2>1, <2>2, <2>3, <2>4 DEF Sending
<1>5. CASE pc[q] = send /\ Sends(q, fn, wait, error)
  <2>1. /\ UNCHANGED abandoned
        /\ \/ Move(q, error, job[q]) /\ UNCHANGED tx
           \/ \E t \in Tx : SentAs(q, fn, t, wait)
    BY <1>1, <1>5, SendsEffect
  <2>2. NoneGivenUp
    BY <2>1 DEF NoneGivenUp
  <2>3. QED
    BY <1>2, <1>3, <1>4, <1>5, <2>1, <2>2
<1>6. CASE pc[q] = wait /\ Waits(q, mined, error)
  <2>1. /\ UNCHANGED tx
        /\ \/ /\ tx[job[q].tx].state = "mined" /\ Move(q, mined, job[q])
              /\ UNCHANGED abandoned
           \/ /\ tx[job[q].tx].state \in Dead /\ Move(q, error, job[q])
              /\ UNCHANGED abandoned
           \/ /\ tx[job[q].tx].state = "mempool" /\ Move(q, error, job[q])
              /\ abandoned' = abandoned \cup {job[q].tx}
    BY <1>6, WaitsEffect
  <2>2. fn # "settleBatch" => NoneGivenUp
    <3>1. tx[job[q].tx].fn = fn
      BY <1>6, TypesUnfold DEF WaitsFor
    <3>2. QED
      BY <2>1, <3>1 DEF NoneGivenUp
  <2>3. QED
    BY <1>2, <1>3, <1>6, <2>1, <2>2
<1>7. QED
  BY <1>5, <1>6 DEF Chained

\* The four pairs of a call and a wait, step by step.
LEMMA OnChainCases ==
    ASSUME Base, NEW q \in Request,
           openOnChain(q) \/ closeOnChain(q) \/ payOut(q) \/ execute(q)
    PROVE  ServiceTypes' /\ (Outside(q) \/ ReleaseSteps(q) \/ RefundSteps(q))
<1>1. ServiceTypes /\ JobFits(pc[q], job[q])
  BY TypesUnfold DEF Base
<1>2. /\ DOMAIN Awaited = {"openWait", "closeWait", "payWait", "execWait"}
      /\ Awaited["openWait"] = "openEscrow" /\ Awaited["closeWait"] = "closeEscrow"
      /\ Awaited["payWait"] = "settleBatch" /\ Awaited["execWait"] = "emergencyClose"
  BY DEF Awaited
<1>3. {"idle", "giveBack", "refundCompleted", "refundFailed",
       "openSend", "closeSend", "paySend", "execSend"} \subseteq Label
  BY DEF Label, Paying, Refunding, Resting, Saving
<1>4. {"idle", "next", "openWait", "closeWait"} \subseteq Outer
  BY DEF Outer, Resting
<1>5. UNCHANGED row => RowSteady
  BY DEF RowSteady
<1>6. UNCHANGED tx => TxGrows
  BY DEF TxGrows
<1>7. ASSUME NEW fn \in {"openEscrow", "closeEscrow"}, NEW wait, Sending(q, fn, wait),
             job[q].e \in Escrow
      PROVE  TxGrows
  <2>1. NewCall(q, fn) \in Call /\ NewCall(q, fn).state = "mempool" /\ NewCall(q, fn).fn = fn
    BY <1>1, <1>7, TypesUnfold DEF NewCall, Call, Job
  <2>2. NewCall(q, fn) # None
    BY <2>1, EscrowAssumption
  <2>3. QED
    BY <1>7, <2>1, <2>2 DEF Sending, TxGrows
<1>8. CASE openOnChain(q)
  <2>1. Chained(q, "openEscrow", "openSend", "openWait", "idle", "idle") /\ ServiceTypes'
    BY <1>1, <1>8, ChainSteps
  <2>2. job[q].e \in Escrow
    BY <1>1, <2>1 DEF Chained, JobFits, Resting
  <2>3. /\ OnlyMoves(q) /\ UNCHANGED <<row, release, refund, settled, hubVars>> /\ NoneGivenUp
        /\ Sending(q, "openEscrow", "openWait") \/ (UNCHANGED tx /\ pc'[q] \in {"idle", "next"})
    BY <1>1, <1>2, <1>3, <2>1, <2>2, ChainCases
  <2>4. TxGrows /\ pc'[q] \in Outer
    BY <1>4, <1>6, <1>7, <2>2, <2>3 DEF Sending
  <2>5. QED
    BY <1>5, <2>1, <2>3, <2>4 DEF Outside
<1>9. CASE closeOnChain(q)
  <2>1. Chained(q, "closeEscrow", "closeSend", "closeWait", "idle", "idle") /\ ServiceTypes'
    BY <1>1, <1>9, ChainSteps
  <2>2. job[q].e \in Escrow
    BY <1>1, <2>1 DEF Chained, JobFits, Resting
  <2>3. /\ OnlyMoves(q) /\ UNCHANGED <<row, release, refund, settled, hubVars>> /\ NoneGivenUp
        /\ Sending(q, "closeEscrow", "closeWait") \/ (UNCHANGED tx /\ pc'[q] \in {"idle", "next"})
    BY <1>1, <1>2, <1>3, <2>1, <2>2, ChainCases
  <2>4. TxGrows /\ pc'[q] \in Outer
    BY <1>4, <1>6, <1>7, <2>2, <2>3 DEF Sending
  <2>5. QED
    BY <1>5, <2>1, <2>3, <2>4 DEF Outside
<1>10. CASE payOut(q)
  <2>1. /\ Chained(q, "settleBatch", "paySend", "payWait", "idle", "giveBack") /\ ServiceTypes'
    BY <1>1, <1>10, ChainSteps
  <2>2. job[q].e \in Escrow
    BY <1>1, <2>1 DEF Chained, JobFits, Resting
  <2>3. /\ OnlyMoves(q) /\ UNCHANGED <<row, release, refund, settled, hubVars>>
        /\ \/ pc[q] = "paySend" /\ Sending(q, "settleBatch", "payWait")
           \/ /\ UNCHANGED tx
              /\ \/ pc[q] = "paySend" /\ UNCHANGED abandoned
                 \/ pc[q] = "payWait" /\ tx[job[q].tx].state \in Dead /\ UNCHANGED abandoned
                 \/ /\ pc[q] = "payWait" /\ tx[job[q].tx].state = "mempool"
                    /\ abandoned' = abandoned \cup {job[q].tx}
              /\ pc'[q] = "giveBack" /\ job'[q] = job[q]
           \/ UNCHANGED <<tx, abandoned>> /\ pc'[q] \in {"idle", "next"}
    BY <1>1, <1>2, <1>3, <2>1, <2>2, ChainCases
  <2>4. UNCHANGED abandoned => NoneGivenUp
    BY DEF NoneGivenUp
  <2>5. QED
    BY <1>4, <1>5, <1>6, <2>1, <2>3, <2>4 DEF Outside, ReleaseSteps, GivingUp, Told
<1>11. CASE execute(q)
  <2>1. /\ Chained(q, "emergencyClose", "execSend", "execWait", "refundCompleted", "refundFailed")
        /\ ServiceTypes'
    BY <1>1, <1>11, ChainSteps
  <2>2. job[q].e \in Escrow
    BY <1>1, <2>1 DEF Chained, JobFits, Resting
  <2>3. /\ OnlyMoves(q) /\ UNCHANGED <<row, release, refund, settled, hubVars>> /\ NoneGivenUp
        /\ \/ pc[q] = "execSend" /\ Sending(q, "emergencyClose", "execWait")
           \/ /\ UNCHANGED tx /\ pc[q] \in {"execSend", "execWait"}
              /\ pc'[q] = "refundFailed" /\ job'[q] = job[q]
           \/ /\ UNCHANGED tx /\ pc[q] = "execWait" /\ tx[job[q].tx].state = "mined"
              /\ pc'[q] = "refundCompleted" /\ job'[q] = job[q]
    BY <1>1, <1>2, <1>3, <2>1, <2>2, ChainCases
  <2>4. QED
    BY <2>1, <2>3 DEF RefundSteps, Executed, Told
<1>12. QED
  BY <1>8, <1>9, <1>10, <1>11

\* Every step of a request is one of the kinds above.
LEMMA RequestCases ==
    ASSUME Base, NEW q \in Request,
           \/ Continues(q) \/ expireDue(q) \/ Abort(q)
           \/ \E e \in Escrow :
                \/ open(q, e) \/ close(q, e) \/ emergencyClose(q, e) \/ cancel(q, e)
                \/ \E a \in Amounts : releaseFunds(q, e, a)
                \/ refundRequest(q, e)
    PROVE  ServiceTypes' /\ (Outside(q) \/ ReleaseSteps(q) \/ RefundSteps(q))
<1>1. ServiceTypes
  BY DEF Base
<1>2. /\ Resting \cup Saving \cup {"openSend", "closeSend", "idle", "next", "find"} \subseteq Outer
      /\ UNCHANGED row => RowSteady
      /\ UNCHANGED tx => TxGrows
      /\ UNCHANGED abandoned => NoneGivenUp
  BY DEF Outer, Resting, RowSteady, TxGrows, NoneGivenUp
<1>3. ASSUME NEW e \in Escrow, open(q, e) PROVE ServiceTypes' /\ Outside(q)
  <2>1. /\ ServiceTypes' /\ OnlyMoves(q) /\ pc'[q] = "openSend"
        /\ row[e].status = "none" /\ row'[e].released = row[e].released
        /\ \A x \in Escrow : x # e => row'[x] = row[x]
        /\ UNCHANGED <<release, refund, settled, tx, abandoned, hubVars>>
    BY <1>1, <1>3, OpenEffect
  <2>2. RowSteady
    BY <2>1 DEF RowSteady
  <2>3. QED
    BY <1>2, <2>1, <2>2 DEF Outside
<1>4. ASSUME NEW e \in Escrow, close(q, e) \/ emergencyClose(q, e) \/ cancel(q, e)
      PROVE  ServiceTypes' /\ Outside(q)
  <2>1. \E l \in Saving : Load(q, e, l)
    BY <1>4 DEF close, emergencyClose, cancel, Saving
  <2>2. /\ ServiceTypes' /\ OnlyMoves(q) /\ pc'[q] \in Saving
        /\ UNCHANGED <<row, release, refund, settled, tx, abandoned, hubVars>>
    BY <1>1, <2>1, LoadEffect
  <2>3. QED
    BY <1>2, <2>2 DEF Outside
<1>5. ASSUME saveSession(q) PROVE ServiceTypes' /\ Outside(q)
  <2>1. /\ ServiceTypes' /\ OnlyMoves(q) /\ pc'[q] \in {"closeSend", "idle", "next"}
        /\ "staleSave" \in Faults \/ row[job[q].e] = job[q].obj
        /\ row'[job[q].e].status \in {"closed", "cancelled"}
        /\ row'[job[q].e].released = job[q].obj.released
        /\ \A x \in Escrow : x # job[q].e => row'[x] = row[x]
        /\ UNCHANGED <<release, refund, settled, tx, abandoned, hubVars>>
    BY <1>1, <1>5, SaveEffect
  <2>2. ASSUME NEW x \in Escrow
        PROVE  /\ "staleSave" \in Faults \/ row'[x].released = row[x].released
               /\ row[x].status \notin {"none", "open"} => row'[x].status \notin {"none", "open"}
    <3>1. CASE x = job[q].e
      BY <2>1, <3>1
    <3>2. CASE x # job[q].e
      BY <2>1, <3>2
    <3>3. QED
      BY <3>1, <3>2
  <2>3. QED
    BY <1>2, <2>1, <2>2 DEF Outside, RowSteady
<1>6. ASSUME expireDue(q) PROVE ServiceTypes' /\ Outside(q)
  <2>1. /\ ServiceTypes' /\ OnlyMoves(q) /\ pc'[q] = "find"
        /\ \A x \in Escrow :
              /\ row'[x].released = row[x].released
              /\ row'[x].status = row[x].status
                 \/ (row[x].status = "open" /\ row'[x].status = "expired")
        /\ UNCHANGED <<release, refund, settled, tx, abandoned, hubVars>>
    BY <1>1, <1>6, ExpireEffect
  <2>2. RowSteady
    BY <2>1 DEF RowSteady
  <2>3. QED
    BY <1>2, <2>1, <2>2 DEF Outside
<1>7. ASSUME markRefunded(q) PROVE ServiceTypes' /\ Outside(q)
  <2>1. /\ ServiceTypes' /\ OnlyMoves(q) /\ pc'[q] \in {"idle", "next"}
        /\ \A x \in Escrow : row'[x].status = row[x].status /\ row'[x].released = row[x].released
        /\ UNCHANGED <<release, refund, settled, tx, abandoned, hubVars>>
    BY <1>1, <1>7, MarkEffect
  <2>2. RowSteady
    BY <2>1 DEF RowSteady
  <2>3. QED
    BY <1>2, <2>1, <2>2 DEF Outside
<1>8. ASSUME findAwaitingRefund(q) \/ Abort(q) PROVE ServiceTypes' /\ Outside(q)
  <2>1. /\ ServiceTypes' /\ OnlyMoves(q) /\ pc'[q] \in Resting
        /\ UNCHANGED <<row, release, refund, settled, tx, abandoned, hubVars>>
    BY <1>1, <1>8, FindEffect, AbortEffect
  <2>2. QED
    BY <1>2, <2>1 DEF Outside
<1>9. ASSUME sweepNext(q) \/ \E e \in Escrow : refundRequest(q, e)
      PROVE  ServiceTypes' /\ (Outside(q) \/ Reading(q))
  <2>1. /\ ServiceTypes' /\ OnlyMoves(q) /\ RefundBegins(q)
        /\ UNCHANGED <<row, release, refund, settled, tx, abandoned, hubVars>>
    BY <1>1, <1>9, SweepNextEffect, RefundRequestEffect
  <2>2. QED
    BY <1>2, <2>1 DEF Outside, Reading, RefundBegins
<1>10. ASSUME NEW e \in Escrow, NEW a \in Amounts, releaseFunds(q, e, a)
       PROVE  ServiceTypes' /\ Reserving(q)
  BY <1>1, <1>10, ReleaseEffect DEF Reserving
<1>11. ASSUME insertRelease(q) PROVE ServiceTypes' /\ Inserting(q)
  BY <1>1, <1>11, InsertEffect DEF Inserting
<1>12. ASSUME giveBack(q) PROVE ServiceTypes' /\ GivingBack(q)
  BY <1>1, <1>12, GiveBackEffect DEF GivingBack
<1>13. ASSUME saveFailed(q) PROVE ServiceTypes' /\ Failing(q)
  <2>1. release[job[q].rel] # None
    BY <1>13 DEF saveFailed, Base, RowsExist, Paying
  <2>2. QED
    BY <1>1, <1>13, <2>1, SaveFailedEffect DEF Failing
<1>14. ASSUME lookup(q) PROVE ServiceTypes' /\ (Outside(q) \/ Deciding(q))
  <2>1. /\ ServiceTypes' /\ OnlyMoves(q)
        /\ pc[q] = "lookup"
        /\ \/ pc'[q] \in {"idle", "next"}
           \/ /\ pc'[q] = "create" /\ refund[job[q].e] = None /\ job'[q].e = job[q].e
              /\ job'[q].ref =
                    Computed(settled[job[q].e], claimed[job[q].e] + job[q].obj.released)
           \/ /\ pc'[q] = "execSend" /\ refund[job[q].e] # None /\ job'[q].e = job[q].e
              /\ refund[job[q].e].status # "completed" /\ job'[q].ref = refund[job[q].e]
        /\ UNCHANGED <<row, release, refund, settled, tx, abandoned, hubVars>>
    BY <1>1, <1>14, LookupEffect
  <2>2. CASE pc'[q] \in {"idle", "next"}
    BY <1>2, <2>1, <2>2 DEF Outside
  <2>3. CASE pc'[q] \notin {"idle", "next"}
    BY <2>1, <2>3 DEF Deciding
  <2>4. QED
    BY <2>2, <2>3
<1>15. ASSUME createRefund(q) PROVE ServiceTypes' /\ Creating(q)
  BY <1>1, <1>15, CreateEffect DEF Creating
<1>16. ASSUME saveRefund(q) PROVE ServiceTypes' /\ SavingRefund(q)
  BY <1>1, <1>16, SaveRefundEffect DEF SavingRefund
<1>17. ASSUME openOnChain(q) \/ closeOnChain(q) \/ payOut(q) \/ execute(q)
       PROVE  ServiceTypes' /\ (Outside(q) \/ ReleaseSteps(q) \/ RefundSteps(q))
  BY <1>17, OnChainCases
<1>18. ASSUME Continues(q) PROVE ServiceTypes' /\ (Outside(q) \/ ReleaseSteps(q) \/ RefundSteps(q))
  BY <1>5, <1>7, <1>8, <1>9, <1>11, <1>12, <1>13, <1>14, <1>15, <1>16, <1>17, <1>18
     DEF Continues, ReleaseSteps, RefundSteps
<1>19. QED
  BY <1>3, <1>4, <1>6, <1>8, <1>9, <1>10, <1>18 DEF ReleaseSteps, RefundSteps

\* So is every step of the environment.
LEMMA HubCases ==
    ASSUME Base,
           \/ \E t \in Tx : Mine(t) \/ Drop(t)
           \/ \E e \in Escrow, a \in Amounts :
                settlementPaid(e, a) \/ settlementBooked(e, a) \/ claim(e, a)
           \/ UNCHANGED vars
    PROVE  ServiceTypes' /\ HubSteps
<1>1. ServiceTypes /\ Carries
  BY DEF Base
<1>2. None \notin Call
  BY EscrowAssumption
<1>3. ASSUME NEW t \in Tx, Mine(t) PROVE ServiceTypes' /\ HubSteps
  <2>1. /\ ServiceTypes' /\ TxKept
        /\ tx[t] \in Call /\ tx[t].state = "mempool"
        /\ \/ HubRuns(t) /\ tx'[t].state = "mined"
           \/ tx'[t].state = "reverted" /\ UNCHANGED hubVars
        /\ \A u \in Tx : u # t => tx'[u] = tx[u]
        /\ UNCHANGED <<row, release, refund, settled, pc, job, abandoned, batchPaid>>
    BY <1>1, <1>3, MineEffect
  <2>2. tx[t] # None
    BY <1>2, <2>1
  <2>3. CASE HubRuns(t) /\ tx'[t].state = "mined"
    BY <2>1, <2>2, <2>3 DEF HubSteps, Leaving
  <2>4. CASE tx'[t].state = "reverted" /\ UNCHANGED hubVars
    BY <2>1, <2>2, <2>4 DEF HubSteps, Leaving, Dying
  <2>5. QED
    BY <2>1, <2>3, <2>4
<1>4. ASSUME NEW t \in Tx, Drop(t) PROVE ServiceTypes' /\ HubSteps
  <2>1. /\ ServiceTypes' /\ TxKept
        /\ tx[t] \in Call /\ tx[t].state = "mempool" /\ tx'[t].state = "dropped"
        /\ \A u \in Tx : u # t => tx'[u] = tx[u]
        /\ UNCHANGED <<row, release, refund, settled, pc, job, abandoned, hubVars>>
    BY <1>1, <1>4, DropEffect
  <2>2. tx[t] # None
    BY <1>2, <2>1
  <2>3. QED
    BY <2>1, <2>2 DEF HubSteps, Leaving, Dying, hubVars
<1>5. ASSUME NEW e \in Escrow, NEW a \in Amounts, settlementPaid(e, a) \/ settlementBooked(e, a)
      PROVE  ServiceTypes' /\ HubSteps
  <2>1. ServiceTypes' /\ (BatchPaying(e, a) \/ Booking(e, a))
    BY <1>1, <1>5, PaidEffect, BookedEffect DEF BatchPaying, Booking
  <2>2. QED
    BY <2>1 DEF HubSteps
<1>6. ASSUME NEW e \in Escrow, NEW a \in Amounts, claim(e, a)
      PROVE  ServiceTypes' /\ HubSteps
  BY <1>1, <1>6, ClaimEffect DEF HubSteps
<1>7. ASSUME UNCHANGED vars PROVE ServiceTypes' /\ HubSteps
  BY <1>1, <1>7, IdleEffect DEF HubSteps
<1>8. QED
  BY <1>3, <1>4, <1>5, <1>6, <1>7

\* A release row that is there stays there.
LEMMA RowsKept ==
    ASSUME Base, (\E q \in Request : Outside(q) \/ ReleaseSteps(q) \/ RefundSteps(q)) \/ HubSteps
    PROVE  \A k \in Release : release[k] # None => release'[k] # None
<1>1. ASSUME NEW q \in Request, Inserting(q) \/ Failing(q)
      PROVE  \A k \in Release : release[k] # None => release'[k] # None
  BY <1>1 DEF Inserting, Failing
<1>2. ASSUME NEW q \in Request, ReleaseSteps(q)
      PROVE  Inserting(q) \/ Failing(q) \/ UNCHANGED release
  BY <1>2 DEF ReleaseSteps, Reserving, Sending, GivingUp, GivingBack, Told
<1>3. ASSUME NEW q \in Request, RefundSteps(q) \/ Outside(q)
      PROVE  UNCHANGED release
  BY <1>3 DEF RefundSteps, Outside, Reading, Deciding, Creating, Sending, Executed, Told, SavingRefund
<1>4. HubSteps => UNCHANGED release
  BY DEF HubSteps, Dying, Leaving, BatchPaying, Booking
<1>5. QED
  BY <1>1, <1>2, <1>3, <1>4

\* Types, and what keeps them, through a step.
LEMMA StepCases ==
    ASSUME Base, [Next]_vars
    PROVE  /\ Base'
           /\ (\E q \in Request : Outside(q) \/ ReleaseSteps(q) \/ RefundSteps(q)) \/ HubSteps
<1>1. \/ \E q \in Request :
            \/ Continues(q) \/ expireDue(q) \/ Abort(q)
            \/ \E e \in Escrow :
                 \/ open(q, e) \/ close(q, e) \/ emergencyClose(q, e) \/ cancel(q, e)
                 \/ \E a \in Amounts : releaseFunds(q, e, a)
                 \/ refundRequest(q, e)
      \/ \E t \in Tx : Mine(t) \/ Drop(t)
      \/ \E e \in Escrow, a \in Amounts :
            settlementPaid(e, a) \/ settlementBooked(e, a) \/ claim(e, a)
      \/ UNCHANGED vars
  BY DEF Next
<1>2. /\ ServiceTypes'
      /\ (\E q \in Request : Outside(q) \/ ReleaseSteps(q) \/ RefundSteps(q)) \/ HubSteps
  BY <1>1, RequestCases, HubCases
<1>3. \A k \in Release : release[k] # None => release'[k] # None
  BY <1>2, RowsKept
<1>4. \A q \in Request : pc[q] \in Paying => job[q].rel \in Release
  BY TypesUnfold DEF Base, JobFits
<1>5. ASSUME NEW q \in Request, Outside(q) \/ ReleaseSteps(q) \/ RefundSteps(q)
      PROVE  Carries' /\ RowsExist'
  <2>1. \A t \in Tx : tx'[t] = tx[t] \/ tx'[t].fn # "settleBatch" \/ tx'[t].rel \in Release
    <3>1. CASE Outside(q)
      BY <3>1 DEF Outside, TxGrows
    <3>2. CASE pc[q] = "paySend" /\ Sending(q, "settleBatch", "payWait")
      BY <1>4, <3>2 DEF Sending, NewCall, Paying
    <3>3. CASE Sending(q, "emergencyClose", "execWait")
      BY <3>3 DEF Sending, NewCall
    <3>4. CASE UNCHANGED tx
      BY <3>4
    <3>5. QED
      BY <1>5, <3>1, <3>2, <3>3, <3>4 DEF ReleaseSteps, RefundSteps, Reserving, Inserting, GivingUp,
         GivingBack, Failing, Told, Reading, Deciding, Creating, Executed, SavingRefund
  <2>2. pc'[q] \in Paying => release'[job'[q].rel] # None
    <3>1. CASE Outside(q)
      BY <3>1 DEF Outside, Outer, Resting, Saving, Paying
    <3>2. CASE RefundSteps(q)
      BY <3>2 DEF RefundSteps, Reading, Deciding, Creating, Sending, Executed, Told, SavingRefund, Paying
    <3>3. CASE Inserting(q)
      BY <3>3 DEF Inserting
    <3>4. CASE Reserving(q) \/ Failing(q)
      BY <3>4 DEF Reserving, Failing, Paying
    <3>5. CASE (pc[q] = "paySend" /\ Sending(q, "settleBatch", "payWait")) \/ GivingUp(q) \/ GivingBack(q)
      <4>1. pc[q] \in Paying /\ job'[q].rel = job[q].rel
        BY <3>5 DEF Sending, GivingUp, Told, GivingBack, Paying
      <4>2. QED
        BY <1>3, <1>4, <4>1 DEF Base, RowsExist
    <3>6. QED
      BY <1>5, <3>1, <3>2, <3>3, <3>4, <3>5 DEF ReleaseSteps
  <2>3. OnlyMoves(q)
    BY <1>5 DEF Outside, ReleaseSteps, RefundSteps, Reserving, Inserting, Sending, GivingUp,
       GivingBack, Failing, Told, Reading, Deciding, Creating, Executed, SavingRefund
  <2>4. \A r \in Request : pc'[r] \in Paying => release'[job'[r].rel] # None
    BY <1>3, <1>4, <2>2, <2>3 DEF OnlyMoves, Base, RowsExist
  <2>5. QED
    BY <2>1, <2>4 DEF Base, Carries, RowsExist
<1>6. ASSUME HubSteps PROVE Carries' /\ RowsExist'
  <2>1. UNCHANGED <<release, pc, job>>
    BY <1>6 DEF HubSteps, Dying, Leaving, BatchPaying, Booking
  <2>2. \A t \in Tx : tx'[t] = tx[t] \/ (tx[t] # None /\ tx'[t].fn = tx[t].fn /\ tx'[t].rel = tx[t].rel)
    BY <1>6 DEF HubSteps, Dying, Leaving, BatchPaying, Booking, TxKept
  <2>3. Carries'
    BY <2>2 DEF Base, Carries
  <2>4. QED
    BY <2>1, <2>3 DEF Base, RowsExist
<1>7. QED
  BY <1>2, <1>5, <1>6 DEF Base

LEMMA InitBase == Init => Base
<1> SUFFICES ASSUME Init PROVE Base
  OBVIOUS
<1>1. /\ [status |-> "none", released |-> 0, refundedAt |-> FALSE] \in Session
      /\ Hub!Unwritten \in Hub!EscrowSession
  BY DEF Session, EscrowStatus, Hub!Unwritten, Hub!EscrowSession, Hub!Address
<1>2. /\ row \in [Escrow -> Session] /\ release \in [Release -> ReleaseRow \cup {None}]
      /\ refund \in [Escrow -> RefundRow \cup {None}] /\ tx \in [Tx -> Call \cup {None}]
      /\ settled \in [Escrow -> Nat] /\ claimed \in [Escrow -> Nat]
      /\ queue \in [Request -> SUBSET Escrow]
      /\ closedAt \in [Escrow -> Nat] /\ batchPaid \in [Escrow -> Nat] /\ abandoned \subseteq Tx
  BY <1>1 DEF Init
<1>3. hiccups \in 0..MaxHiccups
  BY EscrowAssumption DEF Init
<1>4. HubTypes
  <2>1. /\ escrows = [e \in Escrow |-> Hub!Unwritten] /\ balance = 0
        /\ paid = [e \in Escrow |-> 0] /\ refunded = [e \in Escrow |-> 0]
        /\ batchSettled = [e \in Escrow |-> [h \in Release \cup {0} |-> 0]]
    BY DEF Init, Hub!Init
  <2>2. Hub!TypeOK
    BY <1>1, <2>1 DEF Hub!TypeOK
  <2>3. \A e \in Escrow : escrows[e].spent <= escrows[e].deposit
    BY <2>1 DEF Hub!Unwritten
  <2>4. QED
    BY <2>2, <2>3 DEF HubTypes
<1>5. /\ pc \in [Request -> Label] /\ job \in [Request -> Job]
      /\ \A q \in Request : pc[q] = "idle" /\ job[q] = NoJob
  BY NoJobFits DEF Init, Label, Resting
<1>6. \A q \in Request : JobFits(pc[q], job[q]) /\ WaitsFor(pc[q], job[q])
  BY <1>5, NoJobFits DEF WaitsFor, Awaited, Resting
<1>7. ServiceTypes
  BY <1>2, <1>3, <1>4, <1>5, <1>6 DEF ServiceTypes, TypeOK, HubTypes
<1>8. Carries /\ RowsExist
  BY <1>5 DEF Carries, RowsExist, Init, Paying
<1>9. QED
  BY <1>7, <1>8 DEF Base

\* Under every fault the rows keep their columns' types, no counter goes below
\* zero, and a request never works on what it does not have.
THEOREM EscrowTypes == Spec => []TypeOK
<1>1. Base /\ [Next]_vars => Base'
  BY StepCases
<1>2. Base => TypeOK
  BY DEF Base, ServiceTypes
<1>3. QED
  BY <1>1, <1>2, InitBase, PTL DEF Spec

----------------------------------------------------------------------------
(* A refund that says completed was paid, under every fault                *)

\* Steps of requests leave the hub alone.
LEMMA RequestsLeaveHub ==
    ASSUME NEW q \in Request, Outside(q) \/ ReleaseSteps(q) \/ RefundSteps(q)
    PROVE  OnlyMoves(q) /\ UNCHANGED <<settled, escrows, refunded, batchSettled, batchPaid>>
<1>1. OnlyMoves(q) /\ UNCHANGED <<settled, hubVars>>
  BY DEF Outside, ReleaseSteps, RefundSteps, Reserving, Inserting, Sending, GivingUp,
     GivingBack, Failing, Told, Reading, Deciding, Creating, Executed, SavingRefund
<1>2. QED
  BY <1>1 DEF hubVars

\* A mined transaction and its session.
LEMMA MinedCall ==
    ASSUME Base, NEW t \in Tx, Leaving(t, "mined")
    PROVE  /\ HubTypes /\ tx[t].e \in Escrow /\ tx[t].amount \in Nat
           /\ tx[t].fn = "settleBatch" => tx[t].rel \in Release
<1>1. tx[t] \in Call /\ tx[t] # None
  BY DEF Leaving
<1>2. tx[t].e \in Escrow /\ tx[t].amount \in Amounts \cup {0}
  BY <1>1 DEF Call
<1>3. \A a \in Amounts : a \in Nat
  BY EscrowAssumption
<1>4. QED
  BY <1>1, <1>2, <1>3, TypesUnfold DEF Base, Carries

\* The hub opens a session once, and what is closed stays closed.
LEMMA HubKeepsClosed ==
    ASSUME Base, \A e \in Escrow : escrows[e].active => escrows[e].createdAt # 0, HubSteps
    PROVE  /\ \A e \in Escrow : escrows'[e].active => escrows'[e].createdAt # 0
           /\ \A e \in Escrow : ClosedOnHub(e) => ClosedOnHub(e)'
<1> DEFINE Keeps(e) == /\ escrows'[e].active => escrows'[e].createdAt # 0
                       /\ ClosedOnHub(e) => escrows'[e].createdAt # 0 /\ ~escrows'[e].active
<1>1. ASSUME UNCHANGED escrows PROVE \A e \in Escrow : Keeps(e)
  BY <1>1 DEF ClosedOnHub
<1>2. ASSUME NEW e \in Escrow, escrows'[e].createdAt = escrows[e].createdAt,
             escrows'[e].active => escrows[e].active
      PROVE  Keeps(e)
  BY <1>2 DEF ClosedOnHub
<1>3. ASSUME NEW e \in Escrow, NEW a \in Amounts, BatchPaying(e, a)
      PROVE  \A x \in Escrow : Keeps(x)
  <2>1. Hub!settleBatch(e, 0, a) /\ a \in Nat /\ HubTypes
    BY <1>3, TypesUnfold, EscrowAssumption DEF BatchPaying, Base
  <2>2. /\ \A x \in Escrow : x # e => escrows'[x] = escrows[x]
        /\ escrows'[e].createdAt = escrows[e].createdAt
        /\ escrows'[e].active = escrows[e].active
    BY <2>1, HubSettles
  <2>3. QED
    BY <1>2, <2>2
<1>4. ASSUME NEW t \in Tx, Leaving(t, "mined"), HubRuns(t)
      PROVE  \A x \in Escrow : Keeps(x)
  <2> DEFINE e == tx[t].e
  <2>1. /\ HubTypes /\ e \in Escrow /\ tx[t].amount \in Nat
        /\ tx[t].fn = "settleBatch" => tx[t].rel \in Release
    BY <1>4, MinedCall
  <2>2. CASE Hub!openEscrow(e, Rail, Payee, Deposit, Budget, 0)
    <3>1. /\ escrows[e].createdAt = 0 /\ escrows'[e].createdAt = 1
          /\ \A x \in Escrow : x # e => escrows'[x] = escrows[x]
      BY <2>1, <2>2, HubOpens
    <3>2. Keeps(e)
      BY <3>1 DEF ClosedOnHub
    <3>3. QED
      BY <1>2, <3>1, <3>2
  <2>3. CASE tx[t].fn = "settleBatch" /\ Hub!settleBatch(e, tx[t].rel, tx[t].amount)
    <3>1. /\ \A x \in Escrow : x # e => escrows'[x] = escrows[x]
          /\ escrows'[e].createdAt = escrows[e].createdAt
          /\ escrows'[e].active = escrows[e].active
      BY <2>1, <2>3, HubSettles
    <3>2. QED
      BY <1>2, <3>1
  <2>4. CASE Hub!CloseAndRefund(e)
    <3>1. /\ \A x \in Escrow : x # e => escrows'[x] = escrows[x]
          /\ escrows'[e].createdAt = escrows[e].createdAt /\ ~escrows'[e].active
      BY <2>1, <2>4, HubCloses
    <3>2. QED
      BY <1>2, <3>1
  <2>5. QED
    BY <1>4, <2>2, <2>3, <2>4 DEF HubRuns
<1>5. HubSteps => \A e \in Escrow : Keeps(e)
  BY <1>1, <1>3, <1>4 DEF HubSteps, Booking, hubVars
<1>6. QED
  BY <1>5 DEF ClosedOnHub

LEMMA CloseStep ==
    ASSUME Base, CloseInv, [Next]_vars
    PROVE  CloseInv'
<1>1. Base' /\ ((\E q \in Request : Outside(q) \/ ReleaseSteps(q) \/ RefundSteps(q)) \/ HubSteps)
  BY StepCases
<1>2. /\ \A e \in Escrow : escrows[e].active => escrows[e].createdAt # 0
      /\ \A t \in Tx : tx[t] # None /\ tx[t].fn = "emergencyClose" /\ tx[t].state = "mined" =>
            ClosedOnHub(tx[t].e)
      /\ \A q \in Request : pc[q] = "refundCompleted" => ClosedOnHub(job[q].e)
      /\ \A q \in Request : pc[q] = "create" => job[q].ref.status = "pending"
      /\ \A e \in Escrow : refund[e] # None /\ refund[e].status = "completed" => ClosedOnHub(e)
  BY DEF CloseInv, CompletedIsRefunded, ClosedOnHub
<1>3. ASSUME NEW q \in Request, Outside(q) \/ ReleaseSteps(q) \/ RefundSteps(q)
      PROVE  CloseInv'
  <2>1. OnlyMoves(q) /\ UNCHANGED escrows
    BY <1>3, RequestsLeaveHub
  <2>2. \A t \in Tx : tx'[t] = tx[t] \/ tx'[t].state = "mempool"
    <3>1. CASE Outside(q)
      BY <3>1 DEF Outside, TxGrows
    <3>2. ASSUME NEW fn, NEW wait, Sending(q, fn, wait) PROVE \A t \in Tx : tx'[t] = tx[t] \/ tx'[t].state = "mempool"
      BY <3>2 DEF Sending, NewCall
    <3>3. QED
      BY <1>3, <3>1, <3>2 DEF ReleaseSteps, RefundSteps, Reserving, Inserting, GivingUp,
         GivingBack, Failing, Told, Reading, Deciding, Creating, Executed, SavingRefund
  <2>3. \A t \in Tx : tx'[t] # None /\ tx'[t].fn = "emergencyClose" /\ tx'[t].state = "mined" =>
            ClosedOnHub(tx'[t].e)
    BY <1>2, <2>2
  <2>4. pc'[q] = "refundCompleted" => ClosedOnHub(job'[q].e)
    <3>1. pc'[q] = "refundCompleted" =>
            pc[q] = "execWait" /\ tx[job[q].tx].state = "mined" /\ job'[q] = job[q]
      BY <1>3 DEF Outside, Outer, Resting, Saving, ReleaseSteps, RefundSteps, Reserving, Inserting,
         Sending, GivingUp, GivingBack, Failing, Told, Reading, Deciding, Creating, Executed, SavingRefund
    <3>2. pc[q] = "execWait" => /\ job[q].tx \in Tx /\ tx[job[q].tx] # None
                                /\ tx[job[q].tx].fn = "emergencyClose" /\ tx[job[q].tx].e = job[q].e
      BY TypesUnfold DEF Base, WaitsFor, Awaited
    <3>3. QED
      BY <1>2, <3>1, <3>2
  <2>5. pc'[q] = "create" => job'[q].ref.status = "pending"
    <3>1. pc'[q] = "create" => /\ pc[q] = "lookup"
                               /\ \E n, m : job'[q].ref = Computed(n, m)
      BY <1>3 DEF Outside, Outer, Resting, Saving, ReleaseSteps, RefundSteps, Reserving, Inserting,
         Sending, GivingUp, GivingBack, Failing, Told, Reading, Deciding, Creating, Executed, SavingRefund
    <3>2. \A n, m : Computed(n, m).status = "pending"
      BY DEF Computed
    <3>3. QED
      BY <3>1, <3>2
  <2>6. \A e \in Escrow : refund'[e] # None /\ refund'[e].status = "completed" => ClosedOnHub(e)
    <3>1. CASE Creating(q)
      BY <1>2, <3>1 DEF Creating
    <3>2. CASE SavingRefund(q)
      BY <1>2, <3>2 DEF SavingRefund
    <3>3. CASE UNCHANGED refund
      BY <1>2, <3>3
    <3>4. QED
      BY <1>3, <3>1, <3>2, <3>3 DEF Outside, ReleaseSteps, RefundSteps, Reserving, Inserting,
         Sending, GivingUp, GivingBack, Failing, Told, Reading, Deciding, Executed
  <2>7. QED
    BY <1>2, <2>1, <2>3, <2>4, <2>5, <2>6 DEF CloseInv, CompletedIsRefunded, ClosedOnHub, OnlyMoves
<1>4. ASSUME HubSteps PROVE CloseInv'
  <2>1. /\ \A e \in Escrow : escrows'[e].active => escrows'[e].createdAt # 0
        /\ \A e \in Escrow : ClosedOnHub(e) => ClosedOnHub(e)'
    BY <1>2, <1>4, HubKeepsClosed
  <2>2. UNCHANGED <<pc, job, refund>>
    BY <1>4 DEF HubSteps, Dying, Leaving, BatchPaying, Booking
  <2>3. \A q \in Request : pc[q] = "refundCompleted" => job[q].e \in Escrow
    BY TypesUnfold DEF Base, JobFits, Resting
  <2>4. \A t \in Tx : tx[t] # None => tx[t].e \in Escrow
    BY TypesUnfold DEF Base, Call
  <2>5. ASSUME NEW t \in Tx, tx'[t] # None, tx'[t].fn = "emergencyClose", tx'[t].state = "mined"
        PROVE  escrows'[tx'[t].e].createdAt # 0 /\ ~escrows'[tx'[t].e].active
    <3>1. CASE tx'[t] = tx[t]
      BY <1>2, <2>1, <2>4, <2>5, <3>1 DEF ClosedOnHub
    <3>2. CASE tx'[t] # tx[t]
      <4>1. Leaving(t, "mined") /\ HubRuns(t)
        BY <1>4, <2>5, <3>2 DEF HubSteps, Dying, Leaving, BatchPaying, Booking
      <4>2. /\ HubTypes /\ tx[t].e \in Escrow /\ tx'[t].e = tx[t].e
            /\ tx[t].fn = "emergencyClose"
        BY <2>5, <4>1, MinedCall DEF Leaving, TxKept
      <4>3. Hub!CloseAndRefund(tx[t].e)
        BY <4>1, <4>2 DEF HubRuns
      <4>4. /\ escrows[tx[t].e].active /\ ~escrows'[tx[t].e].active
            /\ escrows'[tx[t].e].createdAt = escrows[tx[t].e].createdAt
        BY <4>2, <4>3, HubCloses
      <4>5. QED
        BY <1>2, <4>2, <4>4 DEF ClosedOnHub
    <3>3. QED
      BY <3>1, <3>2
  <2>6. QED
    BY <1>2, <2>1, <2>2, <2>3, <2>5 DEF CloseInv, CompletedIsRefunded, ClosedOnHub
<1>5. QED
  BY <1>1, <1>3, <1>4

\* A refund whose row says completed was paid by the hub, whatever the faults:
\* execute() writes "completed" only after it saw its emergencyClose mined, and
\* neither a crash in between nor a second execution of the same refund can
\* write it for a session that is still open.
THEOREM CompletedRefundPaid == Spec => []CompletedIsRefunded
<1>1. Init => CloseInv
  BY DEF Init, Hub!Init, Hub!Unwritten, CloseInv, CompletedIsRefunded
<1>2. Base /\ CloseInv /\ [Next]_vars => Base' /\ CloseInv'
  BY CloseStep, StepCases
<1>3. CloseInv => CompletedIsRefunded
  BY DEF CloseInv
<1>4. QED
  BY <1>1, <1>2, <1>3, InitBase, PTL DEF Spec

----------------------------------------------------------------------------
(* A failed release is paid only if it was given up on too early           *)

\* The transactions of releases are the same, and in the same state.
PaymentsSame ==
    \A t \in Tx : tx'[t] = tx[t] \/ (tx[t] = None /\ tx'[t].fn # "settleBatch")

\* Nobody goes on with a release but where he was.
PayersSame ==
    \A r \in Request : pc'[r] \in Paying => pc[r] = pc'[r] /\ job[r] = job'[r]

\* Pays and PayerKnows, about the transactions after a step.
WillPay(t, k) == tx'[t] # None /\ tx'[t].fn = "settleBatch" /\ tx'[t].rel = k

WillBeLost(t) == tx'[t].state \in Dead \/ t \in abandoned'

WillKnow(q) ==
    LET k == job'[q].rel IN
    /\ pc'[q] = "paySend" => \A t \in Tx : ~WillPay(t, k)
    /\ pc'[q] = "payWait" => WillPay(job'[q].tx, k)
    /\ pc'[q] \in {"giveBack", "saveFailed"} => \A t \in Tx : WillPay(t, k) => WillBeLost(t)

LEMMA AllWillKnow == ASSUME \A q \in Request : WillKnow(q) PROVE PayerKnows'
  BY DEF PayerKnows, Pays, WillKnow, WillPay, Dead, Lost, WillBeLost

\* The transaction a payer waits for.
LEMMA PayerWaits ==
    ASSUME Base, NEW q \in Request
    PROVE  /\ pc[q] = "payWait" => job[q].tx \in Tx
           /\ pc[q] \in Paying => job[q].rel \in Release /\ job[q].e \in Escrow
  BY TypesUnfold DEF Base, WaitsFor, Awaited, JobFits, Paying, Resting

LEMMA ReleaseQuiet ==
    ASSUME ReleaseInv, PaymentsSame, PayersSame, NoneGivenUp, UNCHANGED <<release, batchSettled>>, Base
    PROVE  ReleaseInv'
<1>1. \A k : \A t \in Tx : Pays(t, k)' <=> Pays(t, k)
  BY DEF Pays, PaymentsSame
<1>2. \A t \in Tx : tx'[t] # None /\ tx'[t].fn = "settleBatch" => tx'[t] = tx[t]
  BY DEF PaymentsSame
<1>3. \A k : \A t \in Tx : Pays(t, k) => tx'[t] = tx[t] /\ (Lost(t) => WillBeLost(t))
  BY DEF Pays, PaymentsSame, NoneGivenUp, Lost, WillBeLost
<1>4. OnePayer'
  BY DEF ReleaseInv, OnePayer, PayersSame
<1>5. OneTransaction'
  BY <1>1, <1>2 DEF ReleaseInv, OneTransaction
<1>6. LoggedIsMined'
  BY <1>1, <1>3 DEF ReleaseInv, LoggedIsMined
<1>7. FailedIsLost'
  BY <1>1, <1>3 DEF ReleaseInv, FailedIsLost, Lost, WillBeLost
<1>8. PayerKnows'
  <2>1. \A q \in Request : pc'[q] \in {"paySend", "payWait", "giveBack", "saveFailed"} =>
          pc[q] = pc'[q] /\ job[q] = job'[q]
    BY DEF PayersSame, Paying
  <2>2. \A q \in Request : WillKnow(q)
    BY <1>2, <1>3, <2>1, PayerWaits DEF ReleaseInv, PayerKnows, Pays, WillKnow, WillPay
  <2>3. QED
    BY <2>2, AllWillKnow
<1>9. QED
  BY <1>4, <1>5, <1>6, <1>7, <1>8 DEF ReleaseInv

LEMMA InsertKeeps ==
    ASSUME Base, ReleaseInv, NEW q \in Request, Inserting(q)
    PROVE  ReleaseInv'
<1> DEFINE k == job'[q].rel
<1>1. /\ UNCHANGED <<tx, abandoned, batchSettled>> /\ OnlyMoves(q) /\ k \in Release /\ pc'[q] = "paySend"
      /\ job'[q].e = job[q].e /\ job'[q].amount = job[q].amount
      /\ release[k] = None /\ release'[k] # None /\ release'[k].status = "completed"
      /\ release'[k].e = job[q].e /\ release'[k].amount = job[q].amount
      /\ \A i \in Release : i # k => release'[i] = release[i]
  BY DEF Inserting, hubVars
<1>2. \A t \in Tx : ~Pays(t, k)
  BY <1>1 DEF ReleaseInv, OneTransaction, Pays
<1>3. \A r \in Request : pc[r] \in Paying => job[r].rel # k /\ job[r].rel \in Release
  BY <1>1, PayerWaits DEF ReleaseInv, OnePayer
<1>4. OnePayer'
  BY <1>1, <1>3 DEF ReleaseInv, OnePayer, OnlyMoves
<1>5. OneTransaction'
  BY <1>1 DEF ReleaseInv, OneTransaction, Pays
<1>6. LoggedIsMined'
  BY <1>1 DEF ReleaseInv, LoggedIsMined, Pays
<1>7. FailedIsLost'
  BY <1>1 DEF ReleaseInv, FailedIsLost, Pays, Lost
<1>8. \A r \in Request : WillKnow(r)
  BY <1>1, <1>2 DEF ReleaseInv, PayerKnows, Pays, WillKnow, WillPay, OnlyMoves, Lost, WillBeLost
<1>9. QED
  BY <1>4, <1>5, <1>6, <1>7, <1>8, AllWillKnow DEF ReleaseInv

LEMMA PaySendKeeps ==
    ASSUME Base, ReleaseInv, NEW q \in Request,
           pc[q] = "paySend", Sending(q, "settleBatch", "payWait")
    PROVE  ReleaseInv'
<1> DEFINE k == job[q].rel
           new == job'[q].tx
<1>1. /\ UNCHANGED <<release, abandoned, batchSettled>> /\ OnlyMoves(q) /\ pc'[q] = "payWait" /\ new \in Tx
      /\ job'[q].e = job[q].e /\ job'[q].amount = job[q].amount /\ job'[q].rel = k
      /\ tx[new] = None /\ tx'[new].fn = "settleBatch" /\ tx'[new].rel = k
      /\ tx'[new].e = job[q].e /\ tx'[new].amount = job[q].amount
      /\ \A t \in Tx : t # new => tx'[t] = tx[t]
  BY DEF Sending, hubVars, NewCall
<1>2. k \in Release /\ pc[q] \in Paying /\ tx'[new] # None
  <2>1. pc[q] \in Paying /\ k \in Release /\ job[q] \in Job /\ job[q].e \in Escrow
    BY PayerWaits, TypesUnfold DEF Base, Paying
  <2>2. NewCall(q, "settleBatch") \in Call
    BY <2>1 DEF NewCall, Call, Job
  <2>3. QED
    BY <2>1, <2>2, EscrowAssumption DEF Sending
<1>3. /\ release[k] # None /\ release[k].status = "completed"
      /\ release[k].e = job[q].e /\ release[k].amount = job[q].amount
      /\ \A r \in Request : pc[r] \in Paying /\ job[r].rel = k => r = q
      /\ \A t \in Tx : ~Pays(t, k)
  BY <1>2 DEF ReleaseInv, OnePayer, PayerKnows
<1> HIDE DEF k, new
<1>4. OnePayer'
  BY <1>1, <1>2, <1>3 DEF ReleaseInv, OnePayer, OnlyMoves, Paying
<1>5. OneTransaction'
  <2>1. \A t \in Tx : t # new /\ tx[t] # None /\ tx[t].fn = "settleBatch" => tx[t].rel # k
    BY <1>3 DEF Pays
  <2>2. QED
    BY <1>1, <1>2, <1>3, <2>1 DEF ReleaseInv, OneTransaction, Pays
<1>6. LoggedIsMined'
  BY <1>1 DEF ReleaseInv, LoggedIsMined, Pays
<1>7. FailedIsLost'
  BY <1>1, <1>3 DEF ReleaseInv, FailedIsLost, Pays, Lost
<1>8. ASSUME NEW r \in Request PROVE WillKnow(r)
  <2>1. CASE r = q
    BY <1>1, <1>2, <2>1 DEF WillKnow, WillPay, new
  <2>2. CASE r # q
    <3>1. pc'[r] = pc[r] /\ job'[r] = job[r] /\ (pc[r] \in Paying => job[r].rel # k)
      BY <1>1, <1>3, <2>2 DEF OnlyMoves
    <3>2. \A i : \A t \in Tx : i # k => (WillPay(t, i) <=> Pays(t, i)) /\ (Pays(t, i) => tx'[t] = tx[t])
      BY <1>1 DEF WillPay, Pays
    <3>3. QED
      BY <1>1, <3>1, <3>2, PayerWaits DEF ReleaseInv, PayerKnows, WillKnow, Paying, Lost, WillBeLost
  <2>3. QED
    BY <2>1, <2>2
<1>9. QED
  BY <1>4, <1>5, <1>6, <1>7, <1>8, AllWillKnow DEF ReleaseInv

LEMMA GiveUpKeeps ==
    ASSUME Base, ReleaseInv, NEW q \in Request, GivingUp(q) \/ GivingBack(q)
    PROVE  ReleaseInv'
<1> DEFINE k == job[q].rel
<1>1. /\ UNCHANGED <<release, batchSettled, tx>> /\ OnlyMoves(q) /\ job'[q] = job[q]
      /\ pc[q] \in Paying /\ pc'[q] \in {"giveBack", "saveFailed"}
      /\ pc[q] = "payWait" => tx[job[q].tx].state \in Dead \/ job[q].tx \in abandoned'
      /\ pc[q] \in {"paySend", "payWait", "giveBack"} /\ abandoned \subseteq abandoned'
  BY DEF GivingUp, GivingBack, Told, hubVars, Paying
<1>0. \A t \in Tx : Lost(t) => WillBeLost(t)
  BY <1>1 DEF Lost, WillBeLost
<1>2. ASSUME NEW t \in Tx, Pays(t, k) PROVE WillBeLost(t)
  <2>1. CASE pc[q] = "paySend"
    BY <1>2, <2>1 DEF ReleaseInv, PayerKnows
  <2>2. CASE pc[q] = "giveBack"
    BY <1>0, <1>2, <2>2 DEF ReleaseInv, PayerKnows
  <2>3. CASE pc[q] = "payWait"
    <3>1. Pays(job[q].tx, k) /\ job[q].tx \in Tx
      BY <2>3, PayerWaits DEF ReleaseInv, PayerKnows
    <3>2. t = job[q].tx
      BY <1>2, <3>1 DEF ReleaseInv, OneTransaction, Pays
    <3>3. QED
      BY <1>1, <2>3, <3>2 DEF WillBeLost
  <2>4. QED
    BY <1>1, <2>1, <2>2, <2>3
<1>3. OnePayer'
  BY <1>1 DEF ReleaseInv, OnePayer, OnlyMoves
<1>4. OneTransaction' /\ LoggedIsMined'
  BY <1>1 DEF ReleaseInv, OneTransaction, LoggedIsMined, Pays
<1>7. FailedIsLost'
  BY <1>0, <1>1 DEF ReleaseInv, FailedIsLost, Pays, Lost, WillBeLost
<1>5. \A r \in Request : WillKnow(r)
  BY <1>0, <1>1, <1>2 DEF ReleaseInv, PayerKnows, Pays, WillKnow, WillPay, OnlyMoves
<1>6. QED
  BY <1>3, <1>4, <1>5, <1>7, AllWillKnow DEF ReleaseInv

LEMMA FailKeeps ==
    ASSUME Base, ReleaseInv, NEW q \in Request, Failing(q)
    PROVE  ReleaseInv'
<1> DEFINE k == job[q].rel
<1>1. /\ UNCHANGED <<batchSettled, tx, abandoned>> /\ OnlyMoves(q)
      /\ pc[q] = "saveFailed" /\ pc[q] \in Paying /\ pc'[q] \notin Paying
      /\ release'[k] # None /\ release'[k].e = release[k].e /\ release'[k].amount = release[k].amount
      /\ \A i \in Release : i # k => release'[i] = release[i]
  BY DEF Failing, hubVars, Paying
<1>2. /\ \A r \in Request : pc[r] \in Paying /\ job[r].rel = k => r = q
      /\ \A t \in Tx : Pays(t, k) => Lost(t)
      /\ \A r \in Request : pc[r] \in Paying => job[r].rel \in Release
  BY <1>1, PayerWaits DEF ReleaseInv, OnePayer, PayerKnows
<1> HIDE DEF k
<1>3. OnePayer'
  BY <1>1, <1>2 DEF ReleaseInv, OnePayer, OnlyMoves
<1>4. OneTransaction'
  BY <1>1 DEF ReleaseInv, OneTransaction, Pays
<1>5. LoggedIsMined'
  BY <1>1 DEF ReleaseInv, LoggedIsMined, Pays
<1>6. FailedIsLost'
  BY <1>1, <1>2 DEF ReleaseInv, FailedIsLost, Pays, Lost
<1>7. \A r \in Request : WillKnow(r)
  BY <1>1 DEF ReleaseInv, PayerKnows, Pays, WillKnow, WillPay, OnlyMoves, Paying, Lost, WillBeLost
<1>8. QED
  BY <1>3, <1>4, <1>5, <1>6, <1>7, AllWillKnow DEF ReleaseInv

\* A transaction that leaves the mempool; if it is mined, and only then, the hub
\* logs its release.
LEMMA LeavingKeeps ==
    ASSUME Base, ReleaseInv, NEW t \in Tx,
           \/ Leaving(t, "mined") /\ HubRuns(t)
           \/ Dying(t) /\ UNCHANGED hubVars
    PROVE  ReleaseInv'
<1>1. /\ UNCHANGED <<release, pc, job, abandoned>> /\ TxKept /\ tx[t] # None /\ tx[t].state = "mempool"
      /\ \A u \in Tx : u # t => tx'[u] = tx[u]
  BY DEF Leaving, Dying
<1>2. \A k : \A u \in Tx : WillPay(u, k) <=> Pays(u, k)
  BY <1>1 DEF WillPay, Pays, TxKept
<1>3. \A u \in Tx : tx[u].state # "mempool" => tx'[u] = tx[u]
  BY <1>1
<1>4. ASSUME NEW e \in Escrow, NEW k \in Release, batchSettled'[e][k] # 0
      PROVE  \E u \in Tx : WillPay(u, k) /\ tx'[u].state = "mined"
  <2>1. CASE batchSettled'[e][k] = batchSettled[e][k]
    <3>1. PICK u \in Tx : Pays(u, k) /\ tx[u].state = "mined"
      BY <1>4, <2>1 DEF ReleaseInv, LoggedIsMined
    <3>2. QED
      BY <1>2, <1>3, <3>1
  <2>2. CASE batchSettled'[e][k] # batchSettled[e][k]
    <3>1. Leaving(t, "mined") /\ HubRuns(t)
      BY <2>2 DEF hubVars
    <3>2. /\ HubTypes /\ tx[t].e \in Escrow /\ tx[t].amount \in Nat
          /\ tx[t].fn = "settleBatch" => tx[t].rel \in Release
      BY <3>1, MinedCall
    <3>3. tx[t].fn = "settleBatch" /\ Hub!settleBatch(tx[t].e, tx[t].rel, tx[t].amount)
      BY <2>2, <3>1, <3>2, HubOpens, HubCloses DEF HubRuns
    <3>4. e = tx[t].e /\ k = tx[t].rel
      BY <2>2, <3>2, <3>3, HubSettles
    <3>5. QED
      BY <1>1, <1>2, <3>1, <3>3, <3>4 DEF Pays, Leaving
  <2>3. QED
    BY <2>1, <2>2
<1>5. OnePayer'
  BY <1>1 DEF ReleaseInv, OnePayer
<1>6. OneTransaction'
  BY <1>1, <1>2 DEF ReleaseInv, OneTransaction, Pays, WillPay, TxKept
<1>7. LoggedIsMined'
  BY <1>4 DEF LoggedIsMined, Pays, WillPay
<1>11. \A u \in Tx : Lost(u) => WillBeLost(u)
  BY <1>1, <1>3 DEF Lost, WillBeLost, Dead
<1>8. FailedIsLost'
  BY <1>1, <1>2, <1>11 DEF ReleaseInv, FailedIsLost, Pays, WillPay, Lost, WillBeLost
<1>9. \A r \in Request : WillKnow(r)
  BY <1>1, <1>2, <1>11, PayerWaits DEF ReleaseInv, PayerKnows, WillKnow
<1>10. QED
  BY <1>5, <1>6, <1>7, <1>8, <1>9, AllWillKnow DEF ReleaseInv

LEMMA ReleaseStep ==
    ASSUME Base, ReleaseInv, [Next]_vars
    PROVE  ReleaseInv'
<1>1. (\E q \in Request : Outside(q) \/ ReleaseSteps(q) \/ RefundSteps(q)) \/ HubSteps
  BY StepCases
<1>2. ASSUME NEW q \in Request, Outside(q) \/ RefundSteps(q) \/ Reserving(q)
      PROVE  ReleaseInv'
  <2>1. OnlyMoves(q) /\ UNCHANGED batchSettled
    BY <1>2, RequestsLeaveHub DEF ReleaseSteps
  <2>2. UNCHANGED release /\ pc'[q] \notin Paying
    BY <1>2 DEF Outside, Outer, Resting, Saving, Paying, RefundSteps, Reserving, Sending, Told,
       Reading, Deciding, Creating, Executed, SavingRefund
  <2>3. PaymentsSame
    <3>1. CASE Outside(q)
      BY <3>1 DEF Outside, TxGrows, PaymentsSame
    <3>2. CASE Sending(q, "emergencyClose", "execWait")
      BY <3>2 DEF Sending, NewCall, PaymentsSame
    <3>3. CASE UNCHANGED tx
      BY <3>3 DEF PaymentsSame
    <3>4. QED
      BY <1>2, <3>1, <3>2, <3>3 DEF RefundSteps, Reserving, Told, Reading, Deciding, Creating,
         Executed, SavingRefund
  <2>4. PayersSame
    BY <2>1, <2>2 DEF PayersSame, OnlyMoves
  <2>5. NoneGivenUp
    BY <1>2 DEF Outside, RefundSteps, Reserving, Sending, Reading, Deciding, Creating, Executed,
       SavingRefund, NoneGivenUp
  <2>6. QED
    BY <2>1, <2>2, <2>3, <2>4, <2>5, ReleaseQuiet
<1>3. ASSUME NEW q \in Request, ReleaseSteps(q) PROVE ReleaseInv'
  BY <1>2, <1>3, InsertKeeps, PaySendKeeps, GiveUpKeeps, FailKeeps DEF ReleaseSteps
<1>4. ASSUME NEW e \in Escrow, NEW a \in Amounts, BatchPaying(e, a) PROVE ReleaseInv'
  <2>1. Hub!settleBatch(e, 0, a) /\ a \in Nat /\ HubTypes
    BY <1>4, TypesUnfold, EscrowAssumption DEF BatchPaying, Base
  <2>2. \A x \in Escrow, k \in Release : batchSettled'[x][k] = batchSettled[x][k]
    <3>1. \A k \in Release : k # 0
      BY DEF Release
    <3>2. /\ \A x \in Escrow : x # e => batchSettled'[x] = batchSettled[x]
          /\ \A k \in Release : k # 0 => batchSettled'[e][k] = batchSettled[e][k]
      BY <2>1, HubSettles
    <3>3. QED
      BY <3>1, <3>2
  <2>3. UNCHANGED <<release, pc, job, tx, abandoned>>
    BY <1>4 DEF BatchPaying
  <2>4. LoggedIsMined'
    BY <2>2, <2>3 DEF ReleaseInv, LoggedIsMined, Pays
  <2>5. OnePayer' /\ OneTransaction' /\ PayerKnows' /\ FailedIsLost'
    BY <2>3 DEF ReleaseInv, OnePayer, OneTransaction, PayerKnows, FailedIsLost, Pays, Dead, Lost
  <2>6. QED
    BY <2>4, <2>5 DEF ReleaseInv
<1>5. ASSUME UNCHANGED <<release, pc, job, tx, abandoned, hubVars>> PROVE ReleaseInv'
  <2>1. PaymentsSame /\ PayersSame /\ NoneGivenUp /\ UNCHANGED <<release, batchSettled>>
    BY <1>5 DEF PaymentsSame, PayersSame, NoneGivenUp, hubVars
  <2>2. QED
    BY <2>1, ReleaseQuiet
<1>6. ASSUME HubSteps PROVE ReleaseInv'
  BY <1>4, <1>5, <1>6, LeavingKeeps DEF HubSteps, Booking
<1>7. QED
  BY <1>1, <1>2, <1>3, <1>6

LEMMA InitRelease == Init => ReleaseInv
<1> SUFFICES ASSUME Init PROVE ReleaseInv
  OBVIOUS
<1>1. /\ \A q \in Request : pc[q] = "idle"
      /\ \A t \in Tx : tx[t] = None
      /\ \A k \in Release : release[k] = None
      /\ \A e \in Escrow, k \in Release : batchSettled[e][k] = 0
  BY DEF Init, Hub!Init
<1>2. QED
  BY <1>1 DEF ReleaseInv, OnePayer, OneTransaction, LoggedIsMined, PayerKnows, FailedIsLost, Paying, Pays

\* A release that is marked failed is paid by the hub only if a wait gave up on
\* its transaction before it was mined: it has no other transaction, and where
\* the rail saw one fail it is dead.
THEOREM FailedReleasePaidLate == Spec => []FailedOnlyPaidLate
<1>1. Base /\ ReleaseInv /\ [Next]_vars => Base' /\ ReleaseInv'
  BY StepCases, ReleaseStep
<1>2. Base /\ ReleaseInv => FailedOnlyPaidLate
  <2> SUFFICES ASSUME Base, ReleaseInv, NEW k \in Release, release[k] # None,
                      release[k].status = "failed", batchSettled[release[k].e][k] # 0
               PROVE  \E t \in abandoned : tx[t] # None /\ tx[t].fn = "settleBatch" /\ tx[t].rel = k
    BY DEF FailedOnlyPaidLate
  <2>1. release[k].e \in Escrow
    BY TypesUnfold DEF Base, ReleaseRow
  <2>2. \E t \in Tx : Pays(t, k) /\ tx[t].state = "mined"
    BY <2>1 DEF ReleaseInv, LoggedIsMined
  <2>3. QED
    BY <2>2 DEF ReleaseInv, FailedIsLost, Lost, Dead, Pays
<1>3. QED
  BY <1>1, <1>2, InitBase, InitRelease, PTL DEF Spec

----------------------------------------------------------------------------
(* releasedAmount covers the payments, without stale saves                 *)

\* What the two sums are made of.
LEMMA SumsPoint ==
    ASSUME NEW e
    PROVE  /\ \A q \in Request : /\ ReservedBy(e)[q] = IF Reserves(q, e) THEN job[q].amount ELSE 0
                                 /\ ReservedBy(e)'[q] = IF Reserves(q, e)' THEN job'[q].amount ELSE 0
           /\ \A t \in Tx : /\ PaidBy(e)[t] = IF t \in ReleasePayments(e) \ abandoned THEN tx[t].amount ELSE 0
                            /\ PaidBy(e)'[t] = IF t \in ReleasePayments(e)' \ abandoned' THEN tx'[t].amount ELSE 0
  BY DEF ReservedBy, PaidBy

LEMMA SumsTyped ==
    ASSUME Base, Base', NEW e \in Escrow
    PROVE  /\ IsFiniteSet(Request) /\ IsFiniteSet(Tx)
           /\ ReservedBy(e) \in [Request -> Nat] /\ ReservedBy(e)' \in [Request -> Nat]
           /\ PaidBy(e) \in [Tx -> Nat] /\ PaidBy(e)' \in [Tx -> Nat]
           /\ SumFunctionOnSet(ReservedBy(e), Request) \in Nat
           /\ SumFunctionOnSet(ReservedBy(e)', Request) \in Nat
           /\ SumFunctionOnSet(PaidBy(e), Tx) \in Nat
           /\ SumFunctionOnSet(PaidBy(e)', Tx) \in Nat
           /\ row[e].released \in Nat /\ row'[e].released \in Nat
<1>1. IsFiniteSet(Request) /\ IsFiniteSet(Tx) /\ \A a \in Amounts \cup {0} : a \in Nat
  BY EscrowAssumption, FS_Interval DEF Tx
<1>2. /\ \A q \in Request : job[q].amount \in Amounts \cup {0} /\ job'[q].amount \in Amounts \cup {0}
      /\ row[e] \in Session /\ row'[e] \in Session
  BY DEF Base, ServiceTypes, TypeOK, Job
<1>3. \A t \in Tx : /\ tx[t] # None => tx[t].amount \in Amounts \cup {0}
                    /\ tx'[t] # None => tx'[t].amount \in Amounts \cup {0}
  BY DEF Base, ServiceTypes, TypeOK, Call
<1>4. ReservedBy(e) \in [Request -> Nat] /\ ReservedBy(e)' \in [Request -> Nat]
  BY <1>1, <1>2 DEF ReservedBy
<1>5. PaidBy(e) \in [Tx -> Nat] /\ PaidBy(e)' \in [Tx -> Nat]
  <2>1. \A t \in Tx : /\ t \in ReleasePayments(e) => tx[t] # None
                      /\ t \in ReleasePayments(e)' => tx'[t] # None
    BY DEF ReleasePayments
  <2>2. \A t \in Tx : PaidBy(e)[t] \in Nat /\ PaidBy(e)'[t] \in Nat
    BY <1>1, <1>3, <2>1, SumsPoint
  <2>3. PaidBy(e) = [t \in Tx |-> PaidBy(e)[t]] /\ PaidBy(e)' = [t \in Tx |-> PaidBy(e)'[t]]
    BY DEF PaidBy
  <2>4. QED
    BY <2>2, <2>3
<1>6. /\ SumFunctionOnSet(ReservedBy(e), Request) \in Nat
      /\ SumFunctionOnSet(ReservedBy(e)', Request) \in Nat
  BY <1>1, <1>4, SumPart
<1>7. /\ SumFunctionOnSet(PaidBy(e), Tx) \in Nat
      /\ SumFunctionOnSet(PaidBy(e)', Tx) \in Nat
  BY <1>1, <1>5, SumPart
<1>8. QED
  BY <1>1, <1>2, <1>4, <1>5, <1>6, <1>7 DEF Session

\* No reservation and no payment is new.
LEMMA CoveredQuiet ==
    ASSUME Base, Base', Covered, NEW e \in Escrow, row'[e].released = row[e].released,
           \A q \in Request : ReservedBy(e)'[q] <= ReservedBy(e)[q],
           \A t \in Tx : PaidBy(e)'[t] <= PaidBy(e)[t]
    PROVE  row'[e].released >=
               SumFunctionOnSet(ReservedBy(e)', Request) + SumFunctionOnSet(PaidBy(e)', Tx)
<1>1. SumFunctionOnSet(ReservedBy(e)', Request) <= SumFunctionOnSet(ReservedBy(e), Request)
  BY SumsTyped, SumMonotone
<1>2. SumFunctionOnSet(PaidBy(e)', Tx) <= SumFunctionOnSet(PaidBy(e), Tx)
  BY SumsTyped, SumMonotone
<1>3. row[e].released >= SumFunctionOnSet(ReservedBy(e), Request) + SumFunctionOnSet(PaidBy(e), Tx)
  BY DEF Covered
<1> DEFINE a == SumFunctionOnSet(ReservedBy(e), Request)
           b == SumFunctionOnSet(PaidBy(e), Tx)
           c == SumFunctionOnSet(ReservedBy(e)', Request)
           d == SumFunctionOnSet(PaidBy(e)', Tx)
<1>4. a \in Nat /\ b \in Nat /\ c \in Nat /\ d \in Nat /\ row[e].released \in Nat
  BY SumsTyped
<1> HIDE DEF a, b, c, d
<1>5. row[e].released >= a + b /\ c <= a /\ d <= b
  BY <1>1, <1>2, <1>3 DEF a, b, c, d
<1>6. row[e].released >= c + d
  BY <1>4, <1>5
<1>7. QED
  BY <1>6 DEF c, d

\* The reservation of q, and the payment t, change.
LEMMA CoveredChange ==
    ASSUME Base, Base', Covered, NEW e \in Escrow, NEW q \in Request,
           \A r \in Request : r # q => ReservedBy(e)'[r] <= ReservedBy(e)[r],
           \/ /\ \A t \in Tx : PaidBy(e)'[t] = PaidBy(e)[t]
              /\ row'[e].released - row[e].released = ReservedBy(e)'[q] - ReservedBy(e)[q]
           \/ /\ row'[e].released = row[e].released
              /\ \E t \in Tx :
                    /\ \A u \in Tx : u # t => PaidBy(e)'[u] = PaidBy(e)[u]
                    /\ PaidBy(e)'[t] - PaidBy(e)[t] = ReservedBy(e)[q] - ReservedBy(e)'[q]
    PROVE  row'[e].released >=
               SumFunctionOnSet(ReservedBy(e)', Request) + SumFunctionOnSet(PaidBy(e)', Tx)
<1> DEFINE mid == [r \in Request |-> IF r = q THEN ReservedBy(e)'[q] ELSE ReservedBy(e)[r]]
           x == ReservedBy(e)[q]
           y == ReservedBy(e)'[q]
           a == SumFunctionOnSet(ReservedBy(e), Request)
           b == SumFunctionOnSet(PaidBy(e), Tx)
           c == SumFunctionOnSet(ReservedBy(e)', Request)
           d == SumFunctionOnSet(PaidBy(e)', Tx)
<1>1. /\ a \in Nat /\ b \in Nat /\ c \in Nat /\ d \in Nat
      /\ row[e].released \in Nat /\ row'[e].released \in Nat
      /\ ReservedBy(e) \in [Request -> Nat] /\ ReservedBy(e)' \in [Request -> Nat]
      /\ PaidBy(e) \in [Tx -> Nat] /\ PaidBy(e)' \in [Tx -> Nat]
      /\ IsFiniteSet(Request) /\ IsFiniteSet(Tx)
  BY SumsTyped
<1>2. /\ \A r \in Request : mid[r] \in Int /\ ReservedBy(e)[r] \in Int /\ ReservedBy(e)'[r] \in Int
      /\ \A r \in Request : r # q => mid[r] = ReservedBy(e)[r]
      /\ \A r \in Request : ReservedBy(e)'[r] <= mid[r]
      /\ mid[q] = y /\ x \in Nat /\ y \in Nat
  BY <1>1
<1> HIDE DEF mid
<1>3. SumFunctionOnSet(mid, Request) = a + (y - x)
  <2> DEFINE old == ReservedBy(e)
  <2>1. \A r \in Request : old[r] \in Int /\ mid[r] \in Int /\ (r # q => mid[r] = old[r])
    BY <1>2
  <2>2. mid[q] = y /\ old[q] = x /\ a = SumFunctionOnSet(old, Request)
    BY <1>2
  <2> HIDE DEF old, a, x, y
  <2>3. SumFunctionOnSet(mid, Request) = SumFunctionOnSet(old, Request) + (mid[q] - old[q])
    BY <1>1, <2>1, SumChange
  <2>4. QED
    BY <2>2, <2>3
<1>4. c <= SumFunctionOnSet(mid, Request)
  BY <1>1, <1>2, SumMonotone
<1>5. row[e].released >= a + b
  BY DEF Covered
<1>6. CASE /\ \A t \in Tx : PaidBy(e)'[t] = PaidBy(e)[t]
           /\ row'[e].released - row[e].released = y - x
  <2>1. d = b
    <3>1. PaidBy(e)' = PaidBy(e)
      BY <1>1, <1>6
    <3>2. QED
      BY <3>1
  <2> HIDE DEF a, b, c, d, x, y
  <2>2. row'[e].released >= c + d
    BY <1>1, <1>2, <1>3, <1>4, <1>5, <1>6, <2>1
  <2>3. QED
    BY <2>2 DEF c, d
<1>7. CASE /\ row'[e].released = row[e].released
           /\ \E t \in Tx :
                 /\ \A u \in Tx : u # t => PaidBy(e)'[u] = PaidBy(e)[u]
                 /\ PaidBy(e)'[t] - PaidBy(e)[t] = x - y
  <2>1. PICK t \in Tx : /\ \A u \in Tx : u # t => PaidBy(e)'[u] = PaidBy(e)[u]
                        /\ PaidBy(e)'[t] - PaidBy(e)[t] = x - y
    BY <1>7
  <2>2. d = b + (PaidBy(e)'[t] - PaidBy(e)[t])
    BY <1>1, <2>1, SumChange
  <2>3. d = b + (x - y) /\ row'[e].released = row[e].released
    BY <1>7, <2>1, <2>2
  <2> HIDE DEF a, b, c, d, x, y
  <2>4. row'[e].released >= c + d
    BY <1>1, <1>2, <1>3, <1>4, <1>5, <2>3
  <2>5. QED
    BY <2>4 DEF c, d
<1>8. QED
  BY <1>6, <1>7

\* What covers the payments of e after a step.
CoversNext(e) ==
    row'[e].released >=
        SumFunctionOnSet(ReservedBy(e)', Request) + SumFunctionOnSet(PaidBy(e)', Tx)

\* The steps of a request leave the transactions alone that are out.
LEMMA TxLeftAlone ==
    ASSUME NEW q \in Request, Outside(q) \/ ReleaseSteps(q) \/ RefundSteps(q)
    PROVE  \A t \in Tx : tx[t] # None => tx'[t] = tx[t]
<1>1. CASE Outside(q)
  BY <1>1 DEF Outside, TxGrows
<1>2. CASE Sending(q, "settleBatch", "payWait") \/ Sending(q, "emergencyClose", "execWait")
  BY <1>2 DEF Sending
<1>3. CASE UNCHANGED tx
  BY <1>3
<1>4. QED
  BY <1>1, <1>2, <1>3 DEF ReleaseSteps, RefundSteps, Reserving, Inserting, GivingUp, GivingBack,
     Failing, Told, Reading, Deciding, Creating, Executed, SavingRefund

\* The reservations of the requests that stay where they are.
LEMMA ReservationsKept ==
    ASSUME Base, NEW e, NEW r \in Request, pc'[r] = pc[r], job'[r] = job[r],
           pc[r] = "payWait" => (WillBeLost(job[r].tx) <=> Lost(job[r].tx))
    PROVE  ReservedBy(e)'[r] = ReservedBy(e)[r]
<1>1. Reserves(r, e)' <=> Reserves(r, e)
  BY DEF Reserves, Lost, WillBeLost, Dead
<1>2. QED
  BY <1>1, SumsPoint

LEMMA OthersKept ==
    ASSUME Base, ReleaseInv, NEW e, NEW q \in Request, OnlyMoves(q), NoneGivenUp,
           \A t \in Tx : tx[t] # None => tx'[t] = tx[t]
    PROVE  \A r \in Request : r # q => ReservedBy(e)'[r] = ReservedBy(e)[r]
<1>1. \A r \in Request : pc[r] = "payWait" =>
        job[r].tx \in Tx /\ tx[job[r].tx] # None /\ tx[job[r].tx].fn = "settleBatch"
  BY PayerWaits DEF ReleaseInv, PayerKnows, Pays
<1>2. \A r \in Request : pc[r] = "payWait" => (WillBeLost(job[r].tx) <=> Lost(job[r].tx))
  BY <1>1 DEF NoneGivenUp, Lost, WillBeLost
<1>3. QED
  BY <1>2, ReservationsKept DEF OnlyMoves

LEMMA PaymentsKept ==
    ASSUME PaymentsSame, NoneGivenUp, NEW e
    PROVE  \A t \in Tx : PaidBy(e)'[t] = PaidBy(e)[t]
<1>1. \A t \in Tx : /\ t \in ReleasePayments(e)' <=> t \in ReleasePayments(e)
                    /\ t \in ReleasePayments(e) => tx'[t] = tx[t] /\ (t \in abandoned' <=> t \in abandoned)
  BY DEF ReleasePayments, PaymentsSame, NoneGivenUp
<1>2. QED
  BY <1>1, SumsPoint

\* The steps that reserve nothing and pay nothing.
LEMMA QuietCovered ==
    ASSUME Base, Base', ReleaseInv, Covered, "staleSave" \notin Faults, NEW e \in Escrow,
           NEW q \in Request, Outside(q) \/ RefundSteps(q) \/ Failing(q)
    PROVE  CoversNext(e)
<1>1. OnlyMoves(q) /\ \A t \in Tx : tx[t] # None => tx'[t] = tx[t]
  BY RequestsLeaveHub, TxLeftAlone DEF ReleaseSteps
<1>2. row'[e].released = row[e].released
  BY DEF Outside, RowSteady, RefundSteps, Failing, Sending, Told, Reading, Deciding, Creating,
     Executed, SavingRefund
<1>3. PaymentsSame
  <2>1. CASE Outside(q)
    BY <2>1 DEF Outside, TxGrows, PaymentsSame
  <2>2. CASE Sending(q, "emergencyClose", "execWait")
    BY <2>2 DEF Sending, NewCall, PaymentsSame
  <2>3. CASE UNCHANGED tx
    BY <2>3 DEF PaymentsSame
  <2>4. QED
    BY <2>1, <2>2, <2>3 DEF RefundSteps, Failing, Told, Reading, Deciding, Creating,
       Executed, SavingRefund
<1>9. NoneGivenUp
  BY DEF Outside, RefundSteps, Failing, Sending, Reading, Deciding, Creating, Executed,
     SavingRefund, NoneGivenUp
<1>4. pc'[q] \notin {"insert", "paySend", "giveBack", "payWait"}
  BY DEF Outside, Outer, Resting, Saving, RefundSteps, Failing, Sending, Told, Reading, Deciding,
     Creating, Executed, SavingRefund
<1>5. ReservedBy(e)'[q] = 0
  BY <1>4, SumsPoint DEF Reserves
<1>6. \A r \in Request : ReservedBy(e)'[r] <= ReservedBy(e)[r]
  <2>1. \A r \in Request : ReservedBy(e)[r] \in Nat
    BY SumsTyped
  <2>2. \A r \in Request : r # q => ReservedBy(e)'[r] = ReservedBy(e)[r]
    BY <1>1, <1>9, OthersKept
  <2>3. QED
    BY <1>5, <2>1, <2>2
<1>7. \A t \in Tx : PaidBy(e)'[t] <= PaidBy(e)[t]
  <2>1. \A t \in Tx : PaidBy(e)[t] \in Nat
    BY SumsTyped
  <2>2. QED
    BY <1>3, <1>9, <2>1, PaymentsKept
<1>8. QED
  BY <1>2, <1>6, <1>7, CoveredQuiet DEF CoversNext

\* The steps of a release.
LEMMA ReleaseCovered ==
    ASSUME Base, Base', ReleaseInv, Covered, NEW e \in Escrow,
           NEW q \in Request, ReleaseSteps(q), ~Failing(q)
    PROVE  CoversNext(e)
<1>1. OnlyMoves(q) /\ \A t \in Tx : tx[t] # None => tx'[t] = tx[t]
  BY RequestsLeaveHub, TxLeftAlone
<1>2. /\ \A r \in Request : ReservedBy(e)[r] \in Nat /\ ReservedBy(e)'[r] \in Nat
      /\ \A t \in Tx : PaidBy(e)[t] \in Nat /\ PaidBy(e)'[t] \in Nat
      /\ row[e].released \in Nat /\ row'[e].released \in Nat
  BY SumsTyped
<1>3. ASSUME UNCHANGED abandoned
      PROVE  \A r \in Request : r # q => ReservedBy(e)'[r] <= ReservedBy(e)[r]
  BY <1>1, <1>2, <1>3, OthersKept DEF NoneGivenUp
<1>4. /\ ReservedBy(e)[q] = IF Reserves(q, e) THEN job[q].amount ELSE 0
      /\ ReservedBy(e)'[q] = IF Reserves(q, e)' THEN job'[q].amount ELSE 0
  BY SumsPoint
<1>5. ASSUME UNCHANGED <<tx, abandoned>> PROVE \A t \in Tx : PaidBy(e)'[t] = PaidBy(e)[t]
  BY <1>5, PaymentsKept DEF PaymentsSame, NoneGivenUp
<1>6. ASSUME UNCHANGED <<tx, abandoned>>,
             row'[e].released - row[e].released = ReservedBy(e)'[q] - ReservedBy(e)[q]
      PROVE  CoversNext(e)
  BY <1>3, <1>5, <1>6, CoveredChange DEF CoversNext
<1>7. CASE Reserving(q)
  <2>1. ~Reserves(q, e) /\ (Reserves(q, e)' <=> e = job'[q].e) /\ UNCHANGED <<tx, abandoned>>
    BY <1>7 DEF Reserving, Reserves
  <2>2. /\ e = job'[q].e => row'[e].released = row[e].released + job'[q].amount
        /\ e # job'[q].e => row'[e].released = row[e].released
    BY <1>7 DEF Reserving
  <2>3. row'[e].released - row[e].released = ReservedBy(e)'[q] - ReservedBy(e)[q]
    BY <1>2, <1>4, <2>1, <2>2
  <2>4. QED
    BY <1>6, <2>1, <2>3
<1>8. CASE (Inserting(q) \/ GivingUp(q)) /\ UNCHANGED abandoned
  <2>1. UNCHANGED <<row, tx, abandoned>> /\ job'[q].amount = job[q].amount
    BY <1>8 DEF Inserting, GivingUp, Told
  <2>2. Reserves(q, e)' <=> Reserves(q, e)
    BY <1>8 DEF Inserting, GivingUp, Told, Reserves, Lost
  <2>3. row'[e].released - row[e].released = ReservedBy(e)'[q] - ReservedBy(e)[q]
    BY <1>2, <1>4, <2>1, <2>2
  <2>4. QED
    BY <1>6, <2>1, <2>3
<1>9. CASE GivingBack(q)
  <2>1. (Reserves(q, e) <=> e = job[q].e) /\ ~Reserves(q, e)' /\ UNCHANGED <<tx, abandoned>>
    BY <1>9 DEF GivingBack, Reserves
  <2>2. CASE row'[e].released = row[e].released
    <3>1. ReservedBy(e)'[q] <= ReservedBy(e)[q]
      BY <1>2, <1>4, <2>1
    <3>2. \A r \in Request : ReservedBy(e)'[r] <= ReservedBy(e)[r]
      BY <1>3, <2>1, <3>1
    <3>3. \A t \in Tx : PaidBy(e)'[t] <= PaidBy(e)[t]
      BY <1>2, <1>5, <2>1
    <3>4. QED
      BY <2>2, <3>2, <3>3, CoveredQuiet DEF CoversNext
  <2>3. CASE e = job[q].e /\ row'[e].released = row[e].released - job[q].amount
    <3>1. row'[e].released - row[e].released = ReservedBy(e)'[q] - ReservedBy(e)[q]
      BY <1>2, <1>4, <2>1, <2>3
    <3>2. QED
      BY <1>6, <2>1, <3>1
  <2>4. QED
    BY <1>9, <2>2, <2>3 DEF GivingBack
<1>12. CASE GivingUp(q) /\ abandoned' # abandoned
  <2> DEFINE t == job[q].tx
  <2>1. /\ UNCHANGED <<row, tx>> /\ pc[q] = "payWait" /\ pc'[q] = "giveBack" /\ job'[q] = job[q]
        /\ tx[t].state = "mempool" /\ abandoned' = abandoned \cup {t} /\ t \notin abandoned
    BY <1>12 DEF GivingUp, Told
  <2>2. t \in Tx /\ pc[q] \in Paying /\ Pays(t, job[q].rel)
    BY <2>1, PayerWaits DEF ReleaseInv, PayerKnows, Paying
  <2>3. tx[t].fn = "settleBatch" /\ tx[t].e = job[q].e /\ tx[t].amount = job[q].amount
    BY <2>2 DEF ReleaseInv, OnePayer, OneTransaction, Pays
  <2>4. ~Reserves(q, e) /\ (Reserves(q, e)' <=> e = job[q].e)
    BY <2>1 DEF Reserves, Lost, Dead
  <2>5. (t \in ReleasePayments(e) <=> e = job[q].e) /\ \A u \in Tx : u \in ReleasePayments(e)' <=> u \in ReleasePayments(e)
    BY <2>1, <2>2, <2>3 DEF ReleasePayments, Pays
  <2>6. \A u \in Tx : u # t => PaidBy(e)'[u] = PaidBy(e)[u]
    BY <2>1, <2>5, SumsPoint
  <2>7. PaidBy(e)'[t] = 0 /\ PaidBy(e)[t] = IF e = job[q].e THEN job[q].amount ELSE 0
    BY <2>1, <2>2, <2>3, <2>5, SumsPoint
  <2>8. PaidBy(e)'[t] - PaidBy(e)[t] = ReservedBy(e)[q] - ReservedBy(e)'[q]
    BY <1>2, <1>4, <2>1, <2>4, <2>7
  <2>9. \A r \in Request : r # q => ReservedBy(e)'[r] <= ReservedBy(e)[r]
    <3>1. \A r \in Request : r # q /\ pc[r] = "payWait" => job[r].tx # t
      <4>1. \A r \in Request : pc[r] = "payWait" /\ job[r].tx = t => job[r].rel = job[q].rel
        BY <2>2 DEF ReleaseInv, PayerKnows, Pays
      <4>2. QED
        BY <2>2, <4>1 DEF ReleaseInv, OnePayer, Paying
    <3>2. \A r \in Request : r # q => pc'[r] = pc[r] /\ job'[r] = job[r]
      BY <1>1 DEF OnlyMoves
    <3>3. \A r \in Request : r # q /\ pc[r] = "payWait" => (WillBeLost(job[r].tx) <=> Lost(job[r].tx))
      BY <2>1, <3>1 DEF Lost, WillBeLost
    <3> HIDE DEF t
    <3>4. \A r \in Request : r # q => ReservedBy(e)'[r] = ReservedBy(e)[r]
      BY <3>2, <3>3, ReservationsKept
    <3>5. QED
      BY <1>2, <3>4
  <2> HIDE DEF t
  <2>10. QED
    BY <2>1, <2>2, <2>6, <2>8, <2>9, CoveredChange DEF CoversNext
<1>10. CASE pc[q] = "paySend" /\ Sending(q, "settleBatch", "payWait")
  <2> DEFINE t == job'[q].tx
  <2>1. /\ t \in Tx /\ tx[t] = None /\ row' = row /\ UNCHANGED abandoned
        /\ \A u \in Tx : u # t => tx'[u] = tx[u]
        /\ job'[q].e = job[q].e /\ job'[q].amount = job[q].amount /\ pc'[q] = "payWait"
        /\ tx'[t].fn = "settleBatch" /\ tx'[t].e = job[q].e /\ tx'[t].state = "mempool"
        /\ tx'[t].amount = job[q].amount
    BY <1>10 DEF Sending, NewCall
  <2>2. tx'[t] # None
    <3>1. job[q] \in Job /\ job[q].e \in Escrow
      BY <1>10, PayerWaits, TypesUnfold DEF Base, Paying
    <3>2. NewCall(q, "settleBatch") \in Call
      BY <3>1 DEF NewCall, Call, Job
    <3>3. QED
      BY <1>10, <3>2, EscrowAssumption DEF Sending
  <2>3. (Reserves(q, e) <=> e = job[q].e) /\ (Reserves(q, e)' <=> e = job[q].e /\ t \in abandoned)
    BY <1>10, <2>1 DEF Reserves, Lost, Dead
  <2>4. t \notin ReleasePayments(e) /\ (t \in ReleasePayments(e)' <=> e = job[q].e)
    BY <2>1, <2>2 DEF ReleasePayments
  <2>5. \A u \in Tx : u # t => PaidBy(e)'[u] = PaidBy(e)[u]
    <3>1. \A u \in Tx : u # t => (u \in ReleasePayments(e)' <=> u \in ReleasePayments(e))
      BY <2>1 DEF ReleasePayments
    <3>2. QED
      BY <2>1, <3>1, SumsPoint
  <2>6. PaidBy(e)[t] = 0 /\ PaidBy(e)'[t] = IF e = job[q].e /\ t \notin abandoned THEN job[q].amount ELSE 0
    BY <2>1, <2>4, SumsPoint
  <2>7. PaidBy(e)'[t] - PaidBy(e)[t] = ReservedBy(e)[q] - ReservedBy(e)'[q]
    BY <1>2, <1>4, <2>1, <2>3, <2>6
  <2> HIDE DEF t
  <2>8. QED
    BY <1>3, <2>1, <2>5, <2>7, CoveredChange DEF CoversNext
<1>11. QED
  BY <1>7, <1>8, <1>9, <1>10, <1>12 DEF ReleaseSteps, Inserting

\* A transaction that dies: the request that waits for it has the amount again.
LEMMA DyingCovered ==
    ASSUME Base, Base', ReleaseInv, Covered, NEW e \in Escrow, NEW t \in Tx, Dying(t)
    PROVE  CoversNext(e)
<1>1. /\ UNCHANGED <<row, pc, job, abandoned>> /\ TxKept /\ tx[t] # None /\ tx[t].state = "mempool"
      /\ tx'[t].state \in Dead /\ \A u \in Tx : u # t => tx'[u] = tx[u]
  BY DEF Dying, Leaving, Dead
<1>2. /\ \A r \in Request : ReservedBy(e)[r] \in Nat /\ ReservedBy(e)'[r] \in Nat
      /\ \A u \in Tx : PaidBy(e)[u] \in Nat /\ PaidBy(e)'[u] \in Nat
  BY SumsTyped
<1>3. \A u \in Tx : u # t => PaidBy(e)'[u] = PaidBy(e)[u]
  <2>1. \A u \in Tx : u # t => (u \in ReleasePayments(e)' <=> u \in ReleasePayments(e))
    BY <1>1 DEF ReleasePayments
  <2>2. QED
    BY <1>1, <2>1, SumsPoint
<1>4. t \notin ReleasePayments(e)' /\ PaidBy(e)'[t] = 0
  <2>1. t \notin ReleasePayments(e)'
    BY <1>1 DEF ReleasePayments, Dead
  <2>2. QED
    BY <2>1, SumsPoint
<1>5. \A r \in Request : ~(pc[r] = "payWait" /\ job[r].tx = t) => ReservedBy(e)'[r] = ReservedBy(e)[r]
  <2>1. \A r \in Request : pc[r] = "payWait" => job[r].tx \in Tx
    BY PayerWaits
  <2>2. \A r \in Request : pc[r] = "payWait" /\ job[r].tx # t =>
          (WillBeLost(job[r].tx) <=> Lost(job[r].tx))
    BY <1>1, <2>1 DEF Lost, WillBeLost
  <2>3. QED
    BY <1>1, <2>2, ReservationsKept
<1>6. CASE \A r \in Request : ~(pc[r] = "payWait" /\ job[r].tx = t)
  <2>1. \A r \in Request : ReservedBy(e)'[r] <= ReservedBy(e)[r]
    BY <1>2, <1>5, <1>6
  <2>2. \A u \in Tx : PaidBy(e)'[u] <= PaidBy(e)[u]
    BY <1>2, <1>3, <1>4
  <2>3. QED
    BY <1>1, <2>1, <2>2, CoveredQuiet DEF CoversNext
<1>7. ASSUME NEW q \in Request, pc[q] = "payWait", job[q].tx = t PROVE CoversNext(e)
  <2>1. pc[q] \in Paying /\ Pays(t, job[q].rel)
    BY <1>7 DEF Paying, ReleaseInv, PayerKnows
  <2>2. /\ tx[t].fn = "settleBatch" /\ tx[t].e = job[q].e /\ tx[t].amount = job[q].amount
    BY <2>1 DEF ReleaseInv, OnePayer, OneTransaction, Pays
  <2>3. \A r \in Request : pc[r] = "payWait" /\ job[r].tx = t => r = q
    <3>1. \A r \in Request : pc[r] = "payWait" /\ job[r].tx = t => job[r].rel = job[q].rel
      BY <2>1 DEF ReleaseInv, PayerKnows, Pays
    <3>2. QED
      BY <2>1, <3>1 DEF ReleaseInv, OnePayer, Paying
  <2>4. (Reserves(q, e) <=> e = job[q].e /\ t \in abandoned) /\ (Reserves(q, e)' <=> e = job[q].e)
    BY <1>1, <1>7 DEF Reserves, Lost, Dead
  <2>5. t \in ReleasePayments(e) <=> e = job[q].e
    BY <1>1, <2>2 DEF ReleasePayments
  <2>6. /\ PaidBy(e)[t] = IF e = job[q].e /\ t \notin abandoned THEN job[q].amount ELSE 0
        /\ ReservedBy(e)[q] = IF e = job[q].e /\ t \in abandoned THEN job[q].amount ELSE 0
        /\ ReservedBy(e)'[q] = IF e = job[q].e THEN job[q].amount ELSE 0
    BY <1>1, <2>2, <2>4, <2>5, SumsPoint
  <2>7. PaidBy(e)'[t] - PaidBy(e)[t] = ReservedBy(e)[q] - ReservedBy(e)'[q]
    BY <1>2, <1>4, <2>6
  <2>8. \A r \in Request : r # q => ReservedBy(e)'[r] <= ReservedBy(e)[r]
    BY <1>2, <1>5, <2>3
  <2>9. QED
    BY <1>1, <1>3, <2>7, <2>8, CoveredChange DEF CoversNext
<1>8. QED
  BY <1>6, <1>7

LEMMA HubCovered ==
    ASSUME Base, Base', ReleaseInv, Covered, NEW e \in Escrow, HubSteps
    PROVE  CoversNext(e)
<1>1. CASE \E t \in Tx : Dying(t)
  BY <1>1, DyingCovered
<1>2. ASSUME NEW t \in Tx, Leaving(t, "mined") PROVE CoversNext(e)
  <2>1. /\ UNCHANGED <<row, pc, job, abandoned>> /\ TxKept /\ tx[t] # None /\ tx[t].state = "mempool"
        /\ tx'[t].state = "mined" /\ \A u \in Tx : u # t => tx'[u] = tx[u]
    BY <1>2 DEF Leaving
  <2>2. \A u \in Tx : /\ u \in ReleasePayments(e)' <=> u \in ReleasePayments(e)
                      /\ u \in ReleasePayments(e) => tx'[u].amount = tx[u].amount
    BY <2>1 DEF ReleasePayments, TxKept
  <2>3. \A u \in Tx : PaidBy(e)'[u] = PaidBy(e)[u] /\ PaidBy(e)[u] \in Nat
    BY <2>1, <2>2, SumsPoint, SumsTyped
  <2>4. \A r \in Request : pc[r] = "payWait" => job[r].tx \in Tx
    BY PayerWaits
  <2>5. \A r \in Request : ReservedBy(e)'[r] = ReservedBy(e)[r] /\ ReservedBy(e)[r] \in Nat
    BY <2>1, <2>4, ReservationsKept, SumsTyped DEF Lost, WillBeLost, Dead
  <2>6. QED
    BY <2>1, <2>3, <2>5, CoveredQuiet DEF CoversNext
<1>3. CASE UNCHANGED <<row, pc, job, tx, abandoned>>
  <2>1. ReservedBy(e)' = ReservedBy(e) /\ PaidBy(e)' = PaidBy(e)
    BY <1>3 DEF ReservedBy, Reserves, PaidBy, ReleasePayments, Lost, Dead
  <2>2. QED
    BY <1>3, <2>1 DEF CoversNext, Covered
<1>4. QED
  BY <1>1, <1>2, <1>3 DEF HubSteps, BatchPaying, Booking

LEMMA CoveredStep ==
    ASSUME Base, ReleaseInv, Covered, [Next]_vars, "staleSave" \notin Faults
    PROVE  Covered'
<1>1. /\ Base'
      /\ (\E q \in Request : Outside(q) \/ ReleaseSteps(q) \/ RefundSteps(q)) \/ HubSteps
  BY StepCases
<1>2. ASSUME NEW e \in Escrow PROVE CoversNext(e)
  <2>1. ASSUME NEW q \in Request, Outside(q) \/ RefundSteps(q) \/ Failing(q) PROVE CoversNext(e)
    BY <1>1, <2>1, QuietCovered
  <2>2. ASSUME NEW q \in Request, ReleaseSteps(q), ~Failing(q) PROVE CoversNext(e)
    BY <1>1, <2>2, ReleaseCovered
  <2>3. ASSUME HubSteps PROVE CoversNext(e)
    BY <1>1, <2>3, HubCovered
  <2>4. QED
    BY <1>1, <2>1, <2>2, <2>3
<1>3. QED
  BY <1>2 DEF CoversNext, Covered

LEMMA InitCovered == Init => Covered
<1> SUFFICES ASSUME Init, NEW e \in Escrow
             PROVE  row[e].released >=
                      SumFunctionOnSet(ReservedBy(e), Request) + SumFunctionOnSet(PaidBy(e), Tx)
  BY DEF Covered
<1>1. IsFiniteSet(Request) /\ IsFiniteSet(Tx)
  BY EscrowAssumption, FS_Interval DEF Tx
<1>2. /\ \A q \in Request : ReservedBy(e)[q] = 0
      /\ \A t \in Tx : PaidBy(e)[t] = 0
      /\ row[e].released = 0
  BY DEF Init, ReservedBy, Reserves, PaidBy, ReleasePayments
<1>3. /\ SumFunctionOnSet(ReservedBy(e), Request) = SumFunctionOnSet(ReservedBy(e), {})
      /\ SumFunctionOnSet(PaidBy(e), Tx) = SumFunctionOnSet(PaidBy(e), {})
  BY <1>1, <1>2, SumSupport
<1>4. QED
  BY <1>2, <1>3, SumEmpty

\* The sum over all transactions is the sum over the payments.
LEMMA PaymentsAddUp ==
    ASSUME Base, NEW e \in Escrow
    PROVE  /\ AmountOf(ReleasePayments(e) \ abandoned) = SumFunctionOnSet(PaidBy(e), Tx)
           /\ SumFunctionOnSet(PaidBy(e), Tx) \in Nat
           /\ SumFunctionOnSet(ReservedBy(e), Request) \in Nat
           /\ row[e].released \in Nat
<1> DEFINE P == ReleasePayments(e) \ abandoned
           f == [t \in P |-> tx[t].amount]
<1>1. IsFiniteSet(Request) /\ IsFiniteSet(Tx) /\ \A a \in Amounts \cup {0} : a \in Nat
  BY EscrowAssumption, FS_Interval DEF Tx
<1>2. P \in SUBSET Tx /\ IsFiniteSet(P)
  BY <1>1, FS_Subset DEF ReleasePayments
<1>3. \A t \in P : tx[t].amount \in Nat
  <2>1. \A t \in P : tx[t] \in Call
    BY TypesUnfold DEF Base, ReleasePayments
  <2>2. \A t \in P : tx[t].amount \in Amounts \cup {0}
    BY <2>1 DEF Call
  <2>3. QED
    BY <1>1, <2>2
<1>4. /\ \A t \in Tx : PaidBy(e)[t] \in Nat /\ (t \notin P => PaidBy(e)[t] = 0)
      /\ \A t \in P : f[t] = PaidBy(e)[t]
  BY <1>2, <1>3, SumsPoint
<1>5. \A q \in Request : ReservedBy(e)[q] \in Nat
  <2>1. \A q \in Request : job[q].amount \in Amounts \cup {0}
    BY TypesUnfold DEF Base, Job
  <2>2. QED
    BY <1>1, <2>1, SumsPoint
<1> HIDE DEF P, f
<1>6. SumFunctionOnSet(PaidBy(e), Tx) = SumFunctionOnSet(PaidBy(e), P)
  BY <1>1, <1>2, <1>4, SumSupport
<1>7. SumFunctionOnSet(f, P) = SumFunctionOnSet(PaidBy(e), P)
  BY <1>2, <1>4, SumSame
<1>8. SumFunctionOnSet(PaidBy(e), Tx) \in Nat /\ SumFunctionOnSet(ReservedBy(e), Request) \in Nat
  BY <1>1, <1>4, <1>5, SumPart
<1>9. row[e].released \in Nat
  BY TypesUnfold DEF Base, Session
<1>10. QED
  BY <1>6, <1>7, <1>8, <1>9 DEF P, f, AmountOf

\* As long as no session is saved stale, the column releasedAmount covers every
\* payment that the chain has made or may still make, but for those a wait gave
\* up on: the reservation comes before the transaction, and is given back only
\* after the transaction is dead or given up on.
THEOREM ReleasedCoversPayments ==
    ASSUME "staleSave" \notin Faults
    PROVE  Spec => []ReleasedCovers
<1>1. Base /\ ReleaseInv /\ Covered /\ [Next]_vars => Base' /\ ReleaseInv' /\ Covered'
  BY StepCases, ReleaseStep, CoveredStep
<1>2. Base /\ Covered => ReleasedCovers
  <2> SUFFICES ASSUME Base, Covered, NEW e \in Escrow
               PROVE  row[e].released >= AmountOf(ReleasePayments(e) \ abandoned)
    BY DEF ReleasedCovers
  <2> DEFINE paidSum == SumFunctionOnSet(PaidBy(e), Tx)
             reservedSum == SumFunctionOnSet(ReservedBy(e), Request)
  <2>1. row[e].released >= reservedSum + paidSum
    BY DEF Covered
  <2>2. /\ AmountOf(ReleasePayments(e) \ abandoned) = paidSum
        /\ paidSum \in Nat /\ reservedSum \in Nat /\ row[e].released \in Nat
    BY PaymentsAddUp
  <2> HIDE DEF paidSum, reservedSum
  <2>3. QED
    BY <2>1, <2>2
<1>3. QED
  BY <1>1, <1>2, InitBase, InitRelease, InitCovered, PTL DEF Spec

----------------------------------------------------------------------------
(* What the hub spent went to settlements and releases                     *)

LEMMA MinedPoint ==
    ASSUME NEW e
    PROVE  \A t \in Tx : /\ MinedBy(e)[t] = IF Mined(t, e) THEN tx[t].amount ELSE 0
                         /\ MinedBy(e)'[t] = IF Mined(t, e)' THEN tx'[t].amount ELSE 0
  BY DEF MinedBy

LEMMA BookTypes ==
    ASSUME Base, NEW e \in Escrow
    PROVE  /\ IsFiniteSet(Tx) /\ \A t \in Tx : MinedBy(e)[t] \in Nat
           /\ MinedSum(e) \in Nat /\ batchPaid[e] \in Nat /\ refunded[e] \in Nat
           /\ escrows[e].spent \in Nat /\ escrows[e].deposit \in Nat /\ Deposit \in Nat
           /\ escrows[e].createdAt \in Nat /\ escrows[e].active \in BOOLEAN
           /\ escrows[e].spent <= escrows[e].deposit
           /\ Base' => /\ MinedSum(e)' \in Nat /\ batchPaid'[e] \in Nat
                       /\ escrows'[e].spent \in Nat /\ escrows'[e].active \in BOOLEAN
<1>1. IsFiniteSet(Tx) /\ Deposit \in Nat /\ \A a \in Amounts \cup {0} : a \in Nat
  BY EscrowAssumption, FS_Interval DEF Tx
<1>2. \A t \in Tx : MinedBy(e)[t] \in Nat
  <2>1. \A t \in Tx : tx[t] # None => tx[t].amount \in Amounts \cup {0}
    BY TypesUnfold DEF Base, Call
  <2>2. QED
    BY <1>1, <2>1, MinedPoint DEF Mined
<1>3. MinedSum(e) \in Nat
  BY <1>1, <1>2, SumPart DEF MinedSum
<1>4. /\ batchPaid[e] \in Nat /\ refunded[e] \in Nat
      /\ escrows[e] \in Hub!EscrowSession /\ escrows[e].spent <= escrows[e].deposit
  BY TypesUnfold DEF Base, HubTypes, Hub!TypeOK
<1>5. ASSUME Base'
      PROVE  /\ MinedSum(e)' \in Nat /\ batchPaid'[e] \in Nat
             /\ escrows'[e].spent \in Nat /\ escrows'[e].active \in BOOLEAN
  <2>1. \A t \in Tx : tx'[t] # None => tx'[t].amount \in Amounts \cup {0}
    BY <1>5 DEF Base, ServiceTypes, TypeOK, Call
  <2>2. \A t \in Tx : MinedBy(e)'[t] \in Nat
    BY <1>1, <2>1, MinedPoint DEF Mined
  <2>3. MinedSum(e)' \in Nat
    BY <1>1, <2>2, SumPart DEF MinedSum
  <2>4. batchPaid'[e] \in Nat /\ escrows'[e] \in Hub!EscrowSession
    BY <1>5 DEF Base, ServiceTypes, TypeOK, HubTypes, Hub!TypeOK
  <2>5. QED
    BY <2>3, <2>4 DEF Hub!EscrowSession
<1>6. QED
  BY <1>1, <1>2, <1>3, <1>4, <1>5 DEF Hub!EscrowSession

\* The payments that the chain has made stay the same.
LEMMA MinedKept ==
    ASSUME Base, NEW e \in Escrow, \A t \in Tx : Mined(t, e) <=> Mined(t, e)',
           \A t \in Tx : Mined(t, e) => tx'[t].amount = tx[t].amount
    PROVE  MinedSum(e)' = MinedSum(e)
<1>1. \A t \in Tx : MinedBy(e)'[t] = MinedBy(e)[t]
  BY MinedPoint
<1>2. QED
  BY <1>1, BookTypes, SumSame DEF MinedSum

\* A release that is mined is one payment more.
LEMMA MinedAdds ==
    ASSUME Base, Base', NEW e \in Escrow, NEW t \in Tx, Leaving(t, "mined")
    PROVE  /\ tx[t].fn = "settleBatch" /\ tx[t].e = e => MinedSum(e)' = MinedSum(e) + tx[t].amount
           /\ ~(tx[t].fn = "settleBatch" /\ tx[t].e = e) => MinedSum(e)' = MinedSum(e)
<1>1. /\ tx[t] # None /\ tx[t].state = "mempool" /\ tx'[t].state = "mined"
      /\ tx'[t] # None /\ tx'[t].fn = tx[t].fn /\ tx'[t].e = tx[t].e /\ tx'[t].amount = tx[t].amount
      /\ \A u \in Tx : u # t => tx'[u] = tx[u]
  BY DEF Leaving, TxKept
<1>2. /\ \A u \in Tx : u # t => (Mined(u, e) <=> Mined(u, e)')
      /\ ~Mined(t, e) /\ (Mined(t, e)' <=> tx[t].fn = "settleBatch" /\ tx[t].e = e)
  BY <1>1 DEF Mined
<1>3. CASE ~(tx[t].fn = "settleBatch" /\ tx[t].e = e)
  <2>1. \A u \in Tx : (Mined(u, e) <=> Mined(u, e)') /\ (Mined(u, e) => tx'[u].amount = tx[u].amount)
    BY <1>1, <1>2, <1>3
  <2>2. QED
    BY <1>3, <2>1, MinedKept
<1>4. CASE tx[t].fn = "settleBatch" /\ tx[t].e = e
  <2>1. /\ \A u \in Tx : u # t => MinedBy(e)'[u] = MinedBy(e)[u]
        /\ MinedBy(e)[t] = 0 /\ MinedBy(e)'[t] = tx[t].amount
    BY <1>1, <1>2, <1>4, MinedPoint
  <2>2. IsFiniteSet(Tx) /\ \A u \in Tx : MinedBy(e)[u] \in Nat /\ MinedBy(e)'[u] \in Nat
    <3>1. tx[t].amount \in Nat
      BY MinedCall
    <3>2. QED
      BY <2>1, <3>1, BookTypes
  <2>3. MinedSum(e)' = MinedSum(e) + (MinedBy(e)'[t] - MinedBy(e)[t])
    <3>1. \A u \in Tx : MinedBy(e)[u] \in Int /\ MinedBy(e)'[u] \in Int
                        /\ (u # t => MinedBy(e)'[u] = MinedBy(e)[u])
      BY <2>1, <2>2
    <3>2. SumFunctionOnSet(MinedBy(e)', Tx) =
            SumFunctionOnSet(MinedBy(e), Tx) + (MinedBy(e)'[t] - MinedBy(e)[t])
      BY <2>2, <3>1, SumChange
    <3>3. QED
      BY <3>2 DEF MinedSum
  <2>4. MinedSum(e) \in Nat /\ tx[t].amount \in Nat
    BY BookTypes, MinedCall
  <2>5. QED
    BY <1>4, <2>1, <2>3, <2>4
<1>5. QED
  BY <1>3, <1>4

\* A session that the hub leaves alone stays booked.
LEMMA BookedKept ==
    ASSUME Base, Base', NEW e \in Escrow, Booked(e), escrows'[e] = escrows[e], refunded'[e] = refunded[e],
           batchPaid'[e] = batchPaid[e], MinedSum(e)' = MinedSum(e)
    PROVE  Booked(e)'
  BY DEF Booked

\* The steps of a request, and a transaction that dies.
LEMMA QuietBooked ==
    ASSUME Base, Base', HubBooked, NEW e \in Escrow,
           \/ \E q \in Request : Outside(q) \/ ReleaseSteps(q) \/ RefundSteps(q)
           \/ \E t \in Tx : Dying(t) /\ UNCHANGED hubVars
           \/ UNCHANGED <<tx, hubVars>>
    PROVE  Booked(e)'
<1>1. UNCHANGED <<batchPaid, escrows, refunded>>
  BY RequestsLeaveHub DEF Dying, Leaving, hubVars
<1>2. \A t \in Tx : \/ tx'[t] = tx[t]
                    \/ tx'[t].state # "mined" /\ (tx[t] = None \/ tx[t].state # "mined")
  <2>1. ASSUME NEW q \in Request, Outside(q)
        PROVE  \A t \in Tx : tx'[t] = tx[t] \/ (tx'[t].state # "mined" /\ tx[t] = None)
    BY <2>1 DEF Outside, TxGrows
  <2>2. ASSUME NEW q \in Request,
               Sending(q, "settleBatch", "payWait") \/ Sending(q, "emergencyClose", "execWait")
        PROVE  \A t \in Tx : tx'[t] = tx[t] \/ (tx'[t].state # "mined" /\ tx[t] = None)
    BY <2>2 DEF Sending, NewCall
  <2>3. ASSUME NEW q \in Request, ReleaseSteps(q) \/ RefundSteps(q)
        PROVE  \/ Sending(q, "settleBatch", "payWait") \/ Sending(q, "emergencyClose", "execWait")
               \/ UNCHANGED tx
    BY <2>3 DEF ReleaseSteps, RefundSteps, Reserving, Inserting, GivingUp, GivingBack,
       Failing, Told, Reading, Deciding, Creating, Executed, SavingRefund
  <2>4. ASSUME NEW t \in Tx, Dying(t)
        PROVE  \A u \in Tx : tx'[u] = tx[u] \/ (tx'[u].state # "mined" /\ tx[u].state # "mined")
    BY <2>4 DEF Dying, Leaving
  <2>5. QED
    BY <2>1, <2>2, <2>3, <2>4
<1>3. \A t \in Tx : (Mined(t, e) <=> Mined(t, e)') /\ (Mined(t, e) => tx'[t].amount = tx[t].amount)
  BY <1>2 DEF Mined
<1>4. MinedSum(e)' = MinedSum(e)
  BY <1>3, MinedKept
<1>5. QED
  BY <1>1, <1>4, BookedKept DEF HubBooked

\* The hub opens, pays from or closes session e.
LEMMA BookedChange ==
    ASSUME Base, Base', NEW e \in Escrow, Booked(e), NEW a \in Nat,
           batchPaid'[e] + MinedSum(e)' = batchPaid[e] + MinedSum(e) + a,
           \/ /\ escrows[e].createdAt = 0 /\ escrows'[e].createdAt = 1 /\ escrows'[e].active
              /\ escrows'[e].deposit = Deposit /\ escrows'[e].spent = 0
              /\ refunded'[e] = refunded[e]
           \/ /\ escrows[e].active /\ escrows'[e].active
              /\ escrows'[e].createdAt = escrows[e].createdAt
              /\ escrows'[e].deposit = escrows[e].deposit
              /\ escrows'[e].spent = escrows[e].spent + a
              /\ refunded'[e] = refunded[e]
           \/ /\ escrows[e].active /\ ~escrows'[e].active
              /\ escrows'[e].createdAt = escrows[e].createdAt
              /\ escrows'[e].deposit = escrows[e].deposit
              /\ escrows'[e].spent = escrows[e].spent
              /\ refunded'[e] = refunded[e] + (escrows[e].deposit - escrows[e].spent)
    PROVE  Booked(e)'
<1>1. /\ MinedSum(e) \in Nat /\ batchPaid[e] \in Nat /\ refunded[e] \in Nat
      /\ escrows[e].spent \in Nat /\ escrows[e].deposit \in Nat /\ Deposit \in Nat
      /\ escrows[e].createdAt \in Nat /\ escrows[e].active \in BOOLEAN
      /\ MinedSum(e)' \in Nat /\ batchPaid'[e] \in Nat /\ escrows'[e].active \in BOOLEAN
      /\ escrows'[e].spent \in Nat
  BY BookTypes
<1>2. /\ escrows[e].createdAt = 0 =>
            escrows[e].spent = 0 /\ escrows[e].deposit = 0 /\ ~escrows[e].active
      /\ escrows[e].createdAt # 0 => escrows[e].deposit = Deposit
      /\ refunded[e] = IF escrows[e].active THEN 0 ELSE escrows[e].deposit - escrows[e].spent
      /\ escrows[e].spent <= batchPaid[e] + MinedSum(e)
  BY DEF Booked
<1> DEFINE m == MinedSum(e)
           n == MinedSum(e)'
<1>3. /\ escrows'[e].createdAt # 0 /\ escrows'[e].deposit = Deposit
      /\ refunded'[e] = IF escrows'[e].active THEN 0 ELSE escrows'[e].deposit - escrows'[e].spent
      /\ escrows'[e].spent <= batchPaid'[e] + n
  <2>1. /\ m \in Nat /\ n \in Nat /\ batchPaid'[e] + n = batchPaid[e] + m + a
        /\ escrows[e].spent <= batchPaid[e] + m
    BY <1>1, <1>2
  <2> HIDE DEF m, n
  <2>2. escrows'[e].spent <= batchPaid'[e] + n
    BY <1>1, <1>2, <2>1
  <2>3. /\ escrows'[e].createdAt # 0 /\ escrows'[e].deposit = Deposit
        /\ refunded'[e] = IF escrows'[e].active THEN 0 ELSE escrows'[e].deposit - escrows'[e].spent
    BY <1>1, <1>2
  <2>4. QED
    BY <2>2, <2>3
<1>4. QED
  BY <1>3 DEF Booked

LEMMA MinedBooked ==
    ASSUME Base, Base', HubBooked, NEW e \in Escrow, NEW t \in Tx, Leaving(t, "mined"), HubRuns(t)
    PROVE  Booked(e)'
<1>1. /\ HubTypes /\ tx[t].e \in Escrow /\ tx[t].amount \in Nat
      /\ tx[t].fn = "settleBatch" => tx[t].rel \in Release
  BY MinedCall
<1>2. Booked(e) /\ batchPaid'[e] = batchPaid[e] /\ MinedSum(e) \in Nat /\ batchPaid[e] \in Nat
  BY BookTypes DEF HubBooked, Leaving
<1>3. CASE tx[t].fn = "openEscrow" /\ Hub!openEscrow(tx[t].e, Rail, Payee, Deposit, Budget, 0)
  <2>1. MinedSum(e)' = MinedSum(e)
    BY <1>3, MinedAdds
  <2>2. /\ escrows[tx[t].e].createdAt = 0
        /\ \A x \in Escrow : x # tx[t].e => escrows'[x] = escrows[x]
        /\ escrows'[tx[t].e].createdAt = 1 /\ escrows'[tx[t].e].active
        /\ escrows'[tx[t].e].deposit = Deposit /\ escrows'[tx[t].e].spent = 0
        /\ UNCHANGED refunded
    BY <1>1, <1>3, HubOpens
  <2>3. batchPaid'[e] + MinedSum(e)' = batchPaid[e] + MinedSum(e) + 0
    BY <1>2, <2>1
  <2>4. CASE e = tx[t].e
    BY <1>2, <2>2, <2>3, <2>4, BookedChange
  <2>5. CASE e # tx[t].e
    BY <1>2, <2>1, <2>2, <2>5, BookedKept
  <2>6. QED
    BY <2>4, <2>5
<1>4. CASE tx[t].fn = "settleBatch" /\ Hub!settleBatch(tx[t].e, tx[t].rel, tx[t].amount)
  <2>1. /\ escrows[tx[t].e].active
        /\ \A x \in Escrow : x # tx[t].e => escrows'[x] = escrows[x]
        /\ escrows'[tx[t].e].createdAt = escrows[tx[t].e].createdAt
        /\ escrows'[tx[t].e].active = escrows[tx[t].e].active
        /\ escrows'[tx[t].e].deposit = escrows[tx[t].e].deposit
        /\ escrows'[tx[t].e].spent = escrows[tx[t].e].spent + tx[t].amount
        /\ UNCHANGED refunded
    BY <1>1, <1>4, HubSettles
  <2>2. CASE e = tx[t].e
    <3>1. MinedSum(e)' = MinedSum(e) + tx[t].amount
      BY <1>4, <2>2, MinedAdds
    <3>2. batchPaid'[e] + MinedSum(e)' = batchPaid[e] + MinedSum(e) + tx[t].amount
      BY <1>1, <1>2, <3>1
    <3>3. QED
      BY <1>1, <1>2, <2>1, <2>2, <3>2, BookedChange
  <2>3. CASE e # tx[t].e
    <3>1. MinedSum(e)' = MinedSum(e)
      BY <2>3, MinedAdds
    <3>2. QED
      BY <1>2, <2>1, <2>3, <3>1, BookedKept
  <2>4. QED
    BY <2>2, <2>3
<1>5. CASE tx[t].fn \in {"closeEscrow", "emergencyClose"} /\ Hub!CloseAndRefund(tx[t].e)
  <2>1. MinedSum(e)' = MinedSum(e)
    BY <1>5, MinedAdds
  <2>2. /\ escrows[tx[t].e].active
        /\ \A x \in Escrow : x # tx[t].e => escrows'[x] = escrows[x] /\ refunded'[x] = refunded[x]
        /\ escrows'[tx[t].e].createdAt = escrows[tx[t].e].createdAt
        /\ ~escrows'[tx[t].e].active
        /\ escrows'[tx[t].e].deposit = escrows[tx[t].e].deposit
        /\ escrows'[tx[t].e].spent = escrows[tx[t].e].spent
        /\ refunded'[tx[t].e] = refunded[tx[t].e] + (escrows[tx[t].e].deposit - escrows[tx[t].e].spent)
    BY <1>1, <1>5, HubCloses
  <2>3. batchPaid'[e] + MinedSum(e)' = batchPaid[e] + MinedSum(e) + 0
    BY <1>2, <2>1
  <2>4. CASE e = tx[t].e
    BY <1>2, <2>2, <2>3, <2>4, BookedChange
  <2>5. CASE e # tx[t].e
    BY <1>2, <2>1, <2>2, <2>5, BookedKept
  <2>6. QED
    BY <2>4, <2>5
<1>6. QED
  BY <1>3, <1>4, <1>5 DEF HubRuns

LEMMA SettlementBooked ==
    ASSUME Base, Base', HubBooked, NEW e \in Escrow,
           NEW x \in Escrow, NEW a \in Amounts, BatchPaying(x, a)
    PROVE  Booked(e)'
<1>1. /\ HubTypes /\ a \in Nat /\ Hub!settleBatch(x, 0, a) /\ UNCHANGED tx
      /\ batchPaid'[x] = batchPaid[x] + a /\ \A y \in Escrow : y # x => batchPaid'[y] = batchPaid[y]
  BY TypesUnfold, EscrowAssumption DEF Base, BatchPaying
<1>2. /\ escrows[x].active /\ UNCHANGED refunded
      /\ \A y \in Escrow : y # x => escrows'[y] = escrows[y]
      /\ escrows'[x].createdAt = escrows[x].createdAt
      /\ escrows'[x].active = escrows[x].active
      /\ escrows'[x].deposit = escrows[x].deposit
      /\ escrows'[x].spent = escrows[x].spent + a
  BY <1>1, HubSettles
<1>3. MinedSum(e)' = MinedSum(e)
  BY <1>1 DEF MinedSum, MinedBy, Mined
<1>4. Booked(e) /\ MinedSum(e) \in Nat /\ batchPaid[e] \in Nat
  BY BookTypes DEF HubBooked
<1>5. CASE e = x
  <2>1. batchPaid'[e] + MinedSum(e)' = batchPaid[e] + MinedSum(e) + a
    BY <1>1, <1>3, <1>4, <1>5
  <2>2. QED
    BY <1>1, <1>2, <1>4, <1>5, <2>1, BookedChange
<1>6. CASE e # x
  BY <1>1, <1>2, <1>3, <1>4, <1>6, BookedKept
<1>7. QED
  BY <1>5, <1>6

LEMMA BookedStep ==
    ASSUME Base, HubBooked, [Next]_vars
    PROVE  HubBooked'
<1>1. /\ Base'
      /\ (\E q \in Request : Outside(q) \/ ReleaseSteps(q) \/ RefundSteps(q)) \/ HubSteps
  BY StepCases
<1>2. ASSUME NEW e \in Escrow PROVE Booked(e)'
  <2>1. \/ \/ \E q \in Request : Outside(q) \/ ReleaseSteps(q) \/ RefundSteps(q)
           \/ \E t \in Tx : Dying(t) /\ UNCHANGED hubVars
           \/ UNCHANGED <<tx, hubVars>>
        \/ \E t \in Tx : Leaving(t, "mined") /\ HubRuns(t)
        \/ \E x \in Escrow, a \in Amounts : BatchPaying(x, a)
    BY <1>1 DEF HubSteps, Booking
  <2>2. QED
    BY <1>1, <2>1, QuietBooked, MinedBooked, SettlementBooked
<1>3. QED
  BY <1>2 DEF HubBooked

LEMMA InitBooked == Init => HubBooked
<1> SUFFICES ASSUME Init, NEW e \in Escrow PROVE Booked(e)
  BY DEF HubBooked
<1>1. IsFiniteSet(Tx) /\ \A t \in Tx : MinedBy(e)[t] = 0
  BY EscrowAssumption, FS_Interval DEF Tx, Init, MinedBy, Mined
<1>2. MinedSum(e) = 0
  BY <1>1, SumSupport, SumEmpty DEF MinedSum
<1>3. escrows[e] = Hub!Unwritten /\ refunded[e] = 0 /\ batchPaid[e] = 0
  BY DEF Init, Hub!Init
<1>4. QED
  BY <1>2, <1>3 DEF Booked, Hub!Unwritten

----------------------------------------------------------------------------
(* A refund counts what was spent                                          *)

\* A session that is shut stays shut, with the releases it has.
LEMMA ShutKept ==
    ASSUME Base, "staleSave" \notin Faults, NEW e \in Escrow, Shut(e),
           (\E q \in Request : Outside(q) \/ ReleaseSteps(q) \/ RefundSteps(q)) \/ HubSteps
    PROVE  row'[e].status \notin {"none", "open"} /\ row'[e].released = row[e].released
<1>1. row[e].status \notin {"none", "open"}
  BY DEF Shut
<1>2. ASSUME NEW q \in Request, Outside(q)
      PROVE  row'[e].status \notin {"none", "open"} /\ row'[e].released = row[e].released
  BY <1>1, <1>2 DEF Outside, RowSteady
<1>3. ASSUME NEW q \in Request, Reserving(q) \/ GivingBack(q) PROVE row'[e] = row[e]
  BY <1>1, <1>3 DEF Reserving, GivingBack
<1>4. ASSUME NEW q \in Request, ReleaseSteps(q), ~Reserving(q), ~GivingBack(q) PROVE UNCHANGED row
  BY <1>4 DEF ReleaseSteps, Inserting, Sending, GivingUp, Failing, Told
<1>5. ASSUME NEW q \in Request, RefundSteps(q) PROVE UNCHANGED row
  BY <1>5 DEF RefundSteps, Sending, Told, Reading, Deciding, Creating, Executed, SavingRefund
<1>6. ASSUME HubSteps PROVE UNCHANGED row
  BY <1>6 DEF HubSteps, Dying, Leaving, BatchPaying, Booking
<1>7. QED
  BY <1>1, <1>2, <1>3, <1>4, <1>5, <1>6

\* Where a request that moves stands in a refund.
LEMMA RefundMoves ==
    ASSUME Base, NEW q \in Request, Outside(q) \/ ReleaseSteps(q) \/ RefundSteps(q)
    PROVE  /\ pc'[q] = "lookup" => Reading(q)
           /\ pc'[q] \in Refunding =>
                \/ Deciding(q) \/ Creating(q)
                \/ pc[q] \in Refunding /\ job'[q].e = job[q].e /\ job'[q].ref = job[q].ref
           /\ Creating(q) \/ SavingRefund(q) \/ UNCHANGED refund
<1>1. CASE Outside(q)
  BY <1>1 DEF Outside, Outer, Resting, Saving, Refunding
<1>2. CASE ReleaseSteps(q)
  BY <1>2 DEF ReleaseSteps, Reserving, Inserting, Sending, GivingUp, GivingBack, Failing, Told, Refunding
<1>3. CASE RefundSteps(q)
  BY <1>3 DEF RefundSteps, Reading, Deciding, Creating, Sending, Executed, Told, SavingRefund, Refunding
<1>4. QED
  BY <1>1, <1>2, <1>3

LEMMA CountedRequest ==
    ASSUME Base, SpentIsCounted, "staleSave" \notin Faults, NEW q \in Request,
           Outside(q) \/ ReleaseSteps(q) \/ RefundSteps(q)
    PROVE  SpentIsCounted'
<1>1. /\ \A e \in Escrow : settled[e] <= batchPaid[e]
      /\ \A e \in Escrow : refund[e] # None =>
            Shut(e) /\ Counts(refund[e], row[e].released, batchPaid[e])
      /\ \A r \in Request : pc[r] = "lookup" =>
            Shut(job[r].e) /\ job[r].obj.released = row[job[r].e].released
      /\ \A r \in Request : pc[r] \in Refunding =>
            Shut(job[r].e) /\ Counts(job[r].ref, row[job[r].e].released, batchPaid[job[r].e])
  BY DEF SpentIsCounted
<1>2. OnlyMoves(q) /\ UNCHANGED <<settled, batchPaid>>
  BY RequestsLeaveHub
<1>3. \A e \in Escrow : Shut(e) =>
         row'[e].status \notin {"none", "open"} /\ row'[e].released = row[e].released
  BY ShutKept
<1>4. \A r \in Request : pc[r] \in Refunding \cup {"lookup"} => job[r].e \in Escrow
  BY TypesUnfold DEF Base, JobFits, Refunding, Resting
<1>5. /\ pc'[q] = "lookup" => Reading(q)
      /\ pc'[q] \in Refunding =>
           \/ Deciding(q) \/ Creating(q)
           \/ pc[q] \in Refunding /\ job'[q].e = job[q].e /\ job'[q].ref = job[q].ref
      /\ Creating(q) \/ SavingRefund(q) \/ UNCHANGED refund
  BY RefundMoves
<1>6. \A e \in Escrow : refund'[e] # None =>
         Shut(e) /\ Counts(refund'[e], row[e].released, batchPaid[e])
  <2>1. CASE Creating(q)
    <3>1. pc[q] \in Refunding
      BY <2>1 DEF Creating, Refunding
    <3>2. QED
      BY <1>1, <2>1, <3>1 DEF Creating
  <2>2. CASE SavingRefund(q)
    <3>1. pc[q] \in Refunding
      BY <2>2 DEF SavingRefund, Refunding
    <3>2. Shut(job[q].e) /\ Counts(refund'[job[q].e], row[job[q].e].released, batchPaid[job[q].e])
      BY <1>1, <2>2, <3>1 DEF SavingRefund, Counts
    <3>3. QED
      BY <1>1, <2>2, <3>2 DEF SavingRefund
  <2>3. CASE UNCHANGED refund
    BY <1>1, <2>3
  <2>4. QED
    BY <1>5, <2>1, <2>2, <2>3
<1>7. pc'[q] = "lookup" =>
         /\ job'[q].e \in Escrow /\ Shut(job'[q].e)
         /\ job'[q].obj.released = row[job'[q].e].released
  BY <1>5 DEF Reading, Shut, REFUNDABLE
<1>8. pc'[q] \in Refunding =>
         /\ job'[q].e \in Escrow /\ Shut(job'[q].e)
         /\ Counts(job'[q].ref, row[job'[q].e].released, batchPaid[job'[q].e])
  <2>1. CASE pc[q] \in Refunding /\ job'[q].e = job[q].e /\ job'[q].ref = job[q].ref
    BY <1>1, <1>4, <2>1
  <2>2. CASE Creating(q)
    <3>1. pc[q] \in Refunding
      BY <2>2 DEF Creating, Refunding
    <3>2. refund'[job[q].e] # None
      <4>1. job[q].ref \in RefundRow /\ None \notin RefundRow
        BY <3>1, TypesUnfold, EscrowAssumption DEF Base, JobFits
      <4>2. QED
        BY <2>2, <4>1 DEF Creating
    <3>3. QED
      BY <1>4, <1>6, <2>2, <3>1, <3>2 DEF Creating
  <2>3. CASE Deciding(q)
    <3>1. /\ pc[q] = "lookup" /\ job[q].e \in Escrow /\ job'[q].e = job[q].e
          /\ Shut(job[q].e) /\ job[q].obj.released = row[job[q].e].released
      BY <1>1, <1>4, <2>3 DEF Deciding
    <3> DEFINE others == claimed[job[q].e] + job[q].obj.released
    <3>2. /\ settled[job[q].e] \in Nat /\ claimed[job[q].e] \in Nat /\ row[job[q].e].released \in Nat
          /\ batchPaid[job[q].e] \in Nat
      BY <3>1, TypesUnfold, BookTypes DEF Base, Session
    <3>3. others \in Nat /\ others >= row[job[q].e].released /\ settled[job[q].e] <= batchPaid[job[q].e]
      BY <1>1, <3>1, <3>2
    <3> HIDE DEF others
    <3>4. Counts(Computed(settled[job[q].e], others), row[job[q].e].released, batchPaid[job[q].e])
      <4> DEFINE ref == Computed(settled[job[q].e], others)
      <4>1. /\ ref.settled = settled[job[q].e] /\ ref.spent = settled[job[q].e] + others
            /\ ref.amount = IF ref.spent > Deposit THEN 0 ELSE Deposit - ref.spent
        BY <3>2, <3>3, ComputedFits
      <4> HIDE DEF ref
      <4>2. Counts(ref, row[job[q].e].released, batchPaid[job[q].e])
        BY <3>2, <3>3, <4>1 DEF Counts
      <4>3. QED
        BY <4>2 DEF ref
    <3>5. QED
      BY <1>1, <2>3, <3>1, <3>4 DEF Deciding, others
  <2>4. QED
    BY <1>5, <2>1, <2>2, <2>3
<1>9. \A e \in Escrow : refund'[e] # None =>
         /\ row'[e].status \notin {"none", "open"}
         /\ Counts(refund'[e], row'[e].released, batchPaid'[e])
  BY <1>2, <1>3, <1>6
<1>10. \A r \in Request : pc'[r] = "lookup" =>
         /\ row'[job'[r].e].status \notin {"none", "open"}
         /\ job'[r].obj.released = row'[job'[r].e].released
  BY <1>1, <1>2, <1>3, <1>4, <1>7 DEF OnlyMoves
<1>11. \A r \in Request : pc'[r] \in Refunding =>
         /\ row'[job'[r].e].status \notin {"none", "open"}
         /\ Counts(job'[r].ref, row'[job'[r].e].released, batchPaid'[job'[r].e])
  BY <1>1, <1>2, <1>3, <1>4, <1>8 DEF OnlyMoves
<1>12. QED
  BY <1>1, <1>2, <1>9, <1>10, <1>11 DEF SpentIsCounted, Shut, Counts

LEMMA CountedHub ==
    ASSUME Base, Base', SpentIsCounted, HubSteps
    PROVE  SpentIsCounted'
<1>1. UNCHANGED <<row, refund, pc, job>>
  BY DEF HubSteps, Dying, Leaving, BatchPaying, Booking
<1>2. \A e \in Escrow : settled[e] \in Nat /\ batchPaid[e] \in Nat /\ batchPaid'[e] \in Nat
  BY TypesUnfold, BookTypes DEF Base
<1>3. \A e \in Escrow : batchPaid[e] <= batchPaid'[e] /\ settled'[e] <= batchPaid'[e]
  <2>1. CASE UNCHANGED <<settled, batchPaid>>
    BY <1>2, <2>1 DEF SpentIsCounted
  <2>2. ASSUME NEW x \in Escrow, NEW a \in Amounts, BatchPaying(x, a)
        PROVE  \A e \in Escrow : batchPaid[e] <= batchPaid'[e] /\ settled'[e] <= batchPaid'[e]
    <3>1. a \in Nat /\ UNCHANGED settled
      BY <2>2, EscrowAssumption DEF BatchPaying
    <3>2. QED
      BY <1>2, <2>2, <3>1 DEF BatchPaying, SpentIsCounted
  <2>3. ASSUME NEW x \in Escrow, NEW a \in Amounts, Booking(x, a)
        PROVE  \A e \in Escrow : batchPaid[e] <= batchPaid'[e] /\ settled'[e] <= batchPaid'[e]
    BY <1>2, <2>3 DEF Booking, SpentIsCounted, hubVars
  <2>4. QED
    BY <2>1, <2>2, <2>3 DEF HubSteps, Dying, Leaving, hubVars
<1>4. \A q \in Request : pc[q] \in Refunding => job[q].e \in Escrow /\ job[q].ref \in RefundRow
  BY TypesUnfold DEF Base, JobFits, Refunding, Resting
<1>5. \A e \in Escrow : \A ref \in RefundRow :
        Counts(ref, row[e].released, batchPaid[e]) => Counts(ref, row[e].released, batchPaid'[e])
  BY <1>2, <1>3 DEF Counts, RefundRow
<1>6. \A e \in Escrow : refund[e] # None => refund[e] \in RefundRow
  BY TypesUnfold DEF Base
<1>7. /\ \A e \in Escrow : refund'[e] # None =>
            Counts(refund'[e], row'[e].released, batchPaid'[e])
      /\ \A q \in Request : pc'[q] \in Refunding =>
            Counts(job'[q].ref, row'[job'[q].e].released, batchPaid'[job'[q].e])
  BY <1>1, <1>4, <1>5, <1>6 DEF SpentIsCounted
<1>8. QED
  BY <1>1, <1>3, <1>7 DEF SpentIsCounted, Shut, Counts

LEMMA InitCounted == Init => SpentIsCounted
  BY DEF Init, SpentIsCounted, Refunding

\* What the releases of a session were paid is reserved, or was paid late.
LEMMA MinedIsCovered ==
    ASSUME Base, Covered, NEW e \in Escrow
    PROVE  /\ AmountOf(LatePayments(e)) \in Nat
           /\ MinedSum(e) <= row[e].released + AmountOf(LatePayments(e))
<1> DEFINE late == [t \in Tx |-> IF t \in LatePayments(e) THEN tx[t].amount ELSE 0]
           L == LatePayments(e)
           f == [t \in L |-> tx[t].amount]
           paidSum == SumFunctionOnSet(PaidBy(e), Tx)
           reservedSum == SumFunctionOnSet(ReservedBy(e), Request)
<1>1. IsFiniteSet(Tx) /\ MinedSum(e) \in Nat /\ \A t \in Tx : MinedBy(e)[t] \in Nat
  BY BookTypes
<1>2. L \in SUBSET Tx /\ L \subseteq ReleasePayments(e) /\ ReleasePayments(e) \subseteq Tx
  BY DEF LatePayments, ReleasePayments
<1>3. IsFiniteSet(L)
  BY <1>1, <1>2, FS_Subset
<1>4. \A t \in Tx : t \in ReleasePayments(e) => tx[t].amount \in Nat
  <2>1. \A t \in Tx : t \in ReleasePayments(e) => tx[t].amount \in Amounts \cup {0}
    BY TypesUnfold DEF Base, Call, ReleasePayments
  <2>2. \A a \in Amounts \cup {0} : a \in Nat
    BY EscrowAssumption
  <2>3. QED
    BY <2>1, <2>2
<1>5. \A t \in Tx : /\ late[t] \in Nat /\ (t \notin L => late[t] = 0)
                    /\ t \in L => f[t] = late[t]
  BY <1>2, <1>4
<1>6. \A t \in Tx : PaidBy(e)[t] \in Nat /\ MinedBy(e)[t] <= PaidBy(e)[t] + late[t]
  <2>1. \A t \in Tx : Mined(t, e) => t \in ReleasePayments(e) /\ (t \in abandoned => t \in L)
    BY DEF Mined, ReleasePayments, LatePayments
  <2>2. \A t \in Tx : PaidBy(e)[t] \in Nat /\ (t \in ReleasePayments(e) \ abandoned => PaidBy(e)[t] = tx[t].amount)
    BY <1>4, SumsPoint
  <2>3. \A t \in Tx : /\ Mined(t, e) => MinedBy(e)[t] = tx[t].amount
                      /\ ~Mined(t, e) => MinedBy(e)[t] = 0
    BY MinedPoint
  <2>4. \A t \in L : late[t] = tx[t].amount
    BY <1>2
  <2> HIDE DEF L, late
  <2>5. ASSUME NEW t \in Tx PROVE MinedBy(e)[t] <= PaidBy(e)[t] + late[t]
    <3>1. /\ PaidBy(e)[t] \in Nat /\ late[t] \in Nat
          /\ Mined(t, e) => tx[t].amount \in Nat
      BY <1>4, <1>5, <2>1, <2>2
    <3>2. CASE ~Mined(t, e)
      BY <2>3, <3>1, <3>2
    <3>3. CASE Mined(t, e) /\ t \in abandoned
      <4>1. MinedBy(e)[t] = tx[t].amount /\ late[t] = tx[t].amount
        BY <2>1, <2>3, <2>4, <3>3
      <4>2. QED
        BY <3>1, <3>3, <4>1
    <3>4. CASE Mined(t, e) /\ t \notin abandoned
      <4>1. MinedBy(e)[t] = tx[t].amount /\ PaidBy(e)[t] = tx[t].amount
        BY <2>1, <2>2, <2>3, <3>4
      <4>2. QED
        BY <3>1, <3>4, <4>1
    <3>5. QED
      BY <3>2, <3>3, <3>4
  <2>6. QED
    BY <2>2, <2>5
<1> HIDE DEF late, f, L
<1>7. MinedSum(e) <= paidSum + SumFunctionOnSet(late, Tx)
  BY <1>1, <1>5, <1>6, SumTogether DEF MinedSum
<1>8. SumFunctionOnSet(late, Tx) = SumFunctionOnSet(late, L)
  BY <1>1, <1>2, <1>5, SumSupport
<1>9. SumFunctionOnSet(f, L) = SumFunctionOnSet(late, L)
  BY <1>2, <1>3, <1>5, SumSame
<1>10. SumFunctionOnSet(late, Tx) \in Nat
  BY <1>1, <1>5, SumPart
<1>11. AmountOf(LatePayments(e)) = SumFunctionOnSet(late, Tx)
  BY <1>8, <1>9 DEF AmountOf, L, f
<1>12. row[e].released >= reservedSum + paidSum
  BY DEF Covered
<1>13. paidSum \in Nat /\ reservedSum \in Nat /\ row[e].released \in Nat
  BY PaymentsAddUp
<1> HIDE DEF paidSum, reservedSum
<1>14. QED
  BY <1>1, <1>7, <1>10, <1>11, <1>12, <1>13

\* What the hub paid of a session that a refund has closed is no more than the
\* refund counts, but for what the refund could not see.
LEMMA CountedIsEnough ==
    ASSUME Base, CloseInv, Covered, HubBooked, SpentIsCounted
    PROVE  RefundAccounted
<1> SUFFICES ASSUME NEW e \in Escrow, refund[e] # None, refund[e].status = "completed"
             PROVE  refund[e].amount <= refunded[e] + (batchPaid[e] - refund[e].settled)
                                                    + AmountOf(LatePayments(e))
  BY DEF RefundAccounted
<1> DEFINE lateSum == AmountOf(LatePayments(e))
<1>1. escrows[e].createdAt # 0 /\ ~escrows[e].active
  BY DEF CloseInv, CompletedIsRefunded
<1>2. /\ MinedSum(e) \in Nat /\ batchPaid[e] \in Nat /\ refunded[e] \in Nat
      /\ escrows[e].spent \in Nat /\ Deposit \in Nat
  BY BookTypes
<1>3. refunded[e] = Deposit - escrows[e].spent /\ escrows[e].spent <= batchPaid[e] + MinedSum(e)
  BY <1>1 DEF HubBooked, Booked
<1>4. row[e].released \in Nat /\ refund[e].spent \in Nat /\ refund[e].settled \in Nat
  BY TypesUnfold DEF Base, RefundRow, Session
<1>5. lateSum \in Nat /\ MinedSum(e) <= row[e].released + lateSum
  BY MinedIsCovered
<1>6. /\ refund[e].spent >= refund[e].settled + row[e].released
      /\ refund[e].settled <= batchPaid[e]
      /\ refund[e].amount = IF refund[e].spent > Deposit THEN 0 ELSE Deposit - refund[e].spent
  BY DEF SpentIsCounted, Counts
<1> HIDE DEF lateSum
<1>7. refund[e].amount <= refunded[e] + (batchPaid[e] - refund[e].settled) + lateSum
  BY <1>2, <1>3, <1>4, <1>5, <1>6
<1>8. QED
  BY <1>7 DEF lateSum

\* The amount that a completed refund announces exceeds what the hub gave back
\* at most by the settlements that were not booked when the refund was summed
\* up, whenever they were paid, and by releases that were given up on and then
\* paid; unless a session is saved stale.  Releases in flight are counted: the
\* session is shut when its releasedAmount is read, so no reservation follows
\* and none is given back.
THEOREM RefundAnnouncesWhatWasPaid ==
    ASSUME "staleSave" \notin Faults
    PROVE  Spec => []RefundAccounted
<1> DEFINE Inv == Base /\ CloseInv /\ ReleaseInv /\ Covered /\ HubBooked /\ SpentIsCounted
<1>1. Init => Inv
  <2>1. Init => CloseInv
    BY DEF Init, Hub!Init, Hub!Unwritten, CloseInv, CompletedIsRefunded
  <2>2. QED
    BY <2>1, InitBase, InitRelease, InitCovered, InitBooked, InitCounted
<1>2. Inv /\ [Next]_vars => Inv'
  <2> SUFFICES ASSUME Inv, [Next]_vars PROVE Inv'
    OBVIOUS
  <2>1. Base' /\ CloseInv' /\ ReleaseInv' /\ Covered' /\ HubBooked'
    BY StepCases, CloseStep, ReleaseStep, CoveredStep, BookedStep
  <2>2. SpentIsCounted'
    BY <2>1, StepCases, CountedRequest, CountedHub
  <2>3. QED
    BY <2>1, <2>2
<1>3. Inv => RefundAccounted
  BY CountedIsEnough
<1>4. QED
  BY <1>1, <1>2, <1>3, PTL DEF Spec

=============================================================================
