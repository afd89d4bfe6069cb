-------------------------- MODULE EscrowHubProofs --------------------------
(***************************************************************************)
(* What EscrowHub keeps for every set of sessions, accounts, amounts and   *)
(* every fee rate up to 100%.                                              *)
(***************************************************************************)
EXTENDS EscrowHub, SumTheorems

\* The fee of a call is a natural number, no larger than the amount, and its
\* share of the amount is at most the rate (division rounds down).
LEMMA FeeBounds ==
    ASSUME NEW total \in Nat
    PROVE  /\ Fee(total) \in Nat
           /\ Fee(total) <= total
           /\ Fee(total) * 10000 <= total * FeePercent
<1>1. FeePercent \in Nat /\ FeePercent <= 10000
  BY HubAssumption
<1>2. total * FeePercent \in Nat /\ total * FeePercent <= total * 10000
  BY <1>1
<1>3. ASSUME NEW p \in Nat, p <= total * 10000
      PROVE  /\ p \div 10000 \in Nat
             /\ p \div 10000 <= total
             /\ (p \div 10000) * 10000 <= p
  BY <1>3
<1>4. QED
  BY <1>2, <1>3 DEF Fee

\* Raising spent of one session touches nothing else.
LEMMA SpentUpdate ==
    ASSUME escrows \in [Escrow -> EscrowSession], NEW e \in Escrow, NEW n \in Nat,
           escrows' = [escrows EXCEPT ![e].spent = @ + n]
    PROVE  /\ escrows' \in [Escrow -> EscrowSession]
           /\ \A x \in Escrow : x # e => escrows'[x] = escrows[x]
           /\ escrows'[e].spent = escrows[e].spent + n
           /\ escrows'[e].deposit = escrows[e].deposit
           /\ escrows'[e].budgetLimit = escrows[e].budgetLimit
           /\ escrows'[e].createdAt = escrows[e].createdAt
           /\ escrows'[e].active = escrows[e].active
           /\ escrows'[e].disputed = escrows[e].disputed
<1> DEFINE ns == [escrows[e] EXCEPT !.spent = escrows[e].spent + n]
<1>1. escrows[e] \in EscrowSession
  OBVIOUS
<1>9. escrows[e].spent + n \in Nat
  BY <1>1 DEF EscrowSession
<1>2. /\ ns \in EscrowSession
      /\ ns.spent = escrows[e].spent + n
      /\ ns.deposit = escrows[e].deposit
      /\ ns.budgetLimit = escrows[e].budgetLimit
      /\ ns.createdAt = escrows[e].createdAt
      /\ ns.active = escrows[e].active
      /\ ns.disputed = escrows[e].disputed
  BY <1>1, <1>9 DEF EscrowSession
<1>3. escrows' = [escrows EXCEPT ![e] = ns]
  OBVIOUS
<1> HIDE DEF ns
<1>4. QED
  BY <1>2, <1>3

\* Clearing active of one session touches nothing else.
LEMMA ActiveUpdate ==
    ASSUME escrows \in [Escrow -> EscrowSession], NEW e \in Escrow, 
           escrows' = [escrows EXCEPT ![e].active = FALSE]
    PROVE  /\ escrows' \in [Escrow -> EscrowSession]
           /\ \A x \in Escrow : x # e => escrows'[x] = escrows[x]
           /\ escrows'[e].active = FALSE
           /\ escrows'[e].deposit = escrows[e].deposit
           /\ escrows'[e].budgetLimit = escrows[e].budgetLimit
           /\ escrows'[e].spent = escrows[e].spent
           /\ escrows'[e].createdAt = escrows[e].createdAt
           /\ escrows'[e].disputed = escrows[e].disputed
<1> DEFINE ns == [escrows[e] EXCEPT !.active = FALSE]
<1>1. escrows[e] \in EscrowSession
  OBVIOUS
<1>2. /\ ns \in EscrowSession
      /\ ns.active = FALSE
      /\ ns.deposit = escrows[e].deposit
      /\ ns.budgetLimit = escrows[e].budgetLimit
      /\ ns.spent = escrows[e].spent
      /\ ns.createdAt = escrows[e].createdAt
      /\ ns.disputed = escrows[e].disputed
  BY <1>1 DEF EscrowSession
<1>3. escrows' = [escrows EXCEPT ![e] = ns]
  OBVIOUS
<1> HIDE DEF ns
<1>4. QED
  BY <1>2, <1>3

\* Setting disputed of one session touches nothing else.
LEMMA DisputedUpdate ==
    ASSUME escrows \in [Escrow -> EscrowSession], NEW e \in Escrow, 
           escrows' = [escrows EXCEPT ![e].disputed = TRUE]
    PROVE  /\ escrows' \in [Escrow -> EscrowSession]
           /\ \A x \in Escrow : x # e => escrows'[x] = escrows[x]
           /\ escrows'[e].disputed = TRUE
           /\ escrows'[e].deposit = escrows[e].deposit
           /\ escrows'[e].budgetLimit = escrows[e].budgetLimit
           /\ escrows'[e].spent = escrows[e].spent
           /\ escrows'[e].createdAt = escrows[e].createdAt
           /\ escrows'[e].active = escrows[e].active
<1> DEFINE ns == [escrows[e] EXCEPT !.disputed = TRUE]
<1>1. escrows[e] \in EscrowSession
  OBVIOUS
<1>2. /\ ns \in EscrowSession
      /\ ns.disputed = TRUE
      /\ ns.deposit = escrows[e].deposit
      /\ ns.budgetLimit = escrows[e].budgetLimit
      /\ ns.spent = escrows[e].spent
      /\ ns.createdAt = escrows[e].createdAt
      /\ ns.active = escrows[e].active
  BY <1>1 DEF EscrowSession
<1>3. escrows' = [escrows EXCEPT ![e] = ns]
  OBVIOUS
<1> HIDE DEF ns
<1>4. QED
  BY <1>2, <1>3

\* A session id that was never opened has all-zero fields: openEscrow stamps
\* createdAt with a timestamp that is at least one.
UnwrittenIsZero ==
    /\ timestamp >= 1
    /\ \A e \in Escrow : escrows[e].createdAt = 0 => escrows[e] = Unwritten

\* The inductive invariant.  Typing needs conservation (a refund is a natural
\* number only because spent <= deposit), conservation needs UnwrittenIsZero
\* (opening starts from paid = refunded = 0).
HubInv == TypeOK /\ UnwrittenIsZero /\ EscrowConserved /\ FeeWithinRate

\* A payout of total that the checks of both paying calls admit keeps the
\* invariant; settleBatch and claimStream cite it.
LEMMA PayOutKeepsInv ==
    ASSUME HubInv, NEW e \in Escrow, NEW total \in Amounts,
           Payable(e, total), PayOut(e, total),
           UNCHANGED <<timestamp, refunded, donated>>,
           batchSettled' \in [Escrow -> [Root -> 0..2]]
    PROVE  HubInv'
<1> DEFINE fee == Fee(total)
<1> USE DEF HubInv
<1>1. total \in Nat /\ FeePercent \in Nat
  BY HubAssumption
<1>2. fee \in Nat /\ fee <= total /\ fee * 10000 <= total * FeePercent
  BY <1>1, FeeBounds
<1>3. /\ escrows \in [Escrow -> EscrowSession]
      /\ escrows' = [escrows EXCEPT ![e].spent = @ + total]
      /\ paid' = [paid EXCEPT ![e] = @ + (total - fee)]
      /\ balance' = balance - (total - fee)
      /\ escrows[e].spent \in Nat /\ paid[e] \in Nat
  BY DEF PayOut, TypeOK, EscrowSession
<1> HIDE DEF fee
<1>5. /\ escrows' \in [Escrow -> EscrowSession]
      /\ \A x \in Escrow : x # e => escrows'[x] = escrows[x]
      /\ escrows'[e].spent = escrows[e].spent + total
      /\ escrows'[e].deposit = escrows[e].deposit
      /\ escrows'[e].budgetLimit = escrows[e].budgetLimit
      /\ escrows'[e].createdAt = escrows[e].createdAt
      /\ escrows'[e].active = escrows[e].active
  BY <1>1, <1>3, SpentUpdate
<1>10. /\ paid' \in [Escrow -> Nat]
       /\ \A x \in Escrow : x # e => paid'[x] = paid[x]
       /\ paid'[e] = paid[e] + (total - fee)
  BY <1>1, <1>2, <1>3 DEF TypeOK
<1>4. TypeOK'
  BY <1>1, <1>2, <1>3, <1>5, <1>10 DEF TypeOK
<1>6. UnwrittenIsZero'
  <2>1. escrows[e].createdAt # 0
    BY DEF UnwrittenIsZero, Payable, Unwritten
  <2>2. QED
    BY <1>5, <2>1 DEF UnwrittenIsZero
<1>7. EscrowConserved'
  <2>1. /\ paid'[e] <= escrows'[e].spent
        /\ escrows'[e].spent <= escrows'[e].deposit
        /\ escrows'[e].spent <= escrows'[e].budgetLimit
        /\ escrows'[e].active /\ refunded'[e] = 0
    BY <1>1, <1>2, <1>3, <1>5, <1>10 DEF EscrowConserved, Payable
  <2>2. QED
    BY <1>5, <1>10, <2>1 DEF EscrowConserved
<1>8. FeeWithinRate'
  <2>1. (escrows[e].spent - paid[e]) * 10000 <= escrows[e].spent * FeePercent
    BY DEF FeeWithinRate
  <2>2. ASSUME NEW s \in Nat, NEW p \in Nat, NEW t \in Nat, NEW f \in Nat,
               NEW r \in Nat,
               (s - p) * 10000 <= s * r, f * 10000 <= t * r
        PROVE  ((s + t) - (p + (t - f))) * 10000 <= (s + t) * r
    <3>1. ((s + t) - (p + (t - f))) * 10000 = (s - p) * 10000 + f * 10000
      OBVIOUS
    <3>2. (s + t) * r = s * r + t * r
      OBVIOUS
    <3>3. QED
      BY <2>2, <3>1, <3>2
  <2>3. (escrows'[e].spent - paid'[e]) * 10000 <= escrows'[e].spent * FeePercent
    BY <1>1, <1>2, <1>3, <1>5, <1>10, <2>1, <2>2
  <2>4. QED
    BY <1>5, <1>10, <2>3 DEF FeeWithinRate
<1>9. QED
  BY <1>4, <1>6, <1>7, <1>8

\* Both closings refund what is left, once.
LEMMA CloseKeepsInv ==
    ASSUME HubInv, NEW e \in Escrow, CloseAndRefund(e)
    PROVE  HubInv'
<1> DEFINE refund == escrows[e].deposit - escrows[e].spent
<1>1. /\ escrows[e].active /\ escrows[e].deposit \in Nat /\ escrows[e].spent \in Nat
      /\ refund \in Nat
      /\ refunded[e] = 0
  BY DEF HubInv, TypeOK, EscrowSession, EscrowConserved, CloseAndRefund
<1>2. /\ escrows' = [escrows EXCEPT ![e].active = FALSE]
      /\ refunded' = [refunded EXCEPT ![e] = @ + refund]
      /\ balance' = balance - refund
      /\ UNCHANGED <<timestamp, paid, donated, batchSettled>>
  BY DEF CloseAndRefund
<1>8. /\ escrows' \in [Escrow -> EscrowSession]
      /\ \A x \in Escrow : x # e => escrows'[x] = escrows[x]
      /\ escrows'[e].spent = escrows[e].spent
      /\ escrows'[e].deposit = escrows[e].deposit
      /\ escrows'[e].budgetLimit = escrows[e].budgetLimit
      /\ escrows'[e].createdAt = escrows[e].createdAt
      /\ escrows'[e].active = FALSE
  BY <1>2, ActiveUpdate DEF HubInv, TypeOK
<1>3. TypeOK'
  <2>1. refunded' \in [Escrow -> Nat] /\ balance' \in Int
    BY <1>1, <1>2 DEF HubInv, TypeOK
  <2>2. QED
    BY <1>2, <1>8, <2>1 DEF HubInv, TypeOK
<1>4. UnwrittenIsZero'
  <2>1. escrows[e].createdAt # 0
    BY <1>1 DEF HubInv, UnwrittenIsZero, Unwritten
  <2>2. QED
    BY <1>2, <1>8, <2>1 DEF HubInv, UnwrittenIsZero
<1>5. EscrowConserved'
  BY <1>1, <1>2, <1>8 DEF HubInv, TypeOK, EscrowConserved
<1>6. FeeWithinRate'
  BY <1>2, <1>8 DEF HubInv, FeeWithinRate
<1>7. QED
  BY <1>3, <1>4, <1>5, <1>6 DEF HubInv

\* Opening a session (openEscrow) keeps the invariant.
LEMMA OpenKeepsInv ==
    ASSUME HubInv, NEW e \in Escrow, NEW s \in Agent, NEW b \in Address,
           NEW v \in Amounts, NEW l \in Amounts, NEW t \in Ttls,
           openEscrow(e, s, b, v, l, t)
    PROVE  HubInv'
<1> DEFINE new == [agentA |-> s, agentB |-> b, deposit |-> v, budgetLimit |-> l,
                   spent |-> 0, ttl |-> t, createdAt |-> timestamp,
                   active |-> TRUE, disputed |-> FALSE]
<1>1. /\ v \in Nat /\ l \in Nat /\ t \in Nat /\ FeePercent \in Nat
      /\ timestamp \in Nat /\ timestamp >= 1
      /\ s \in Address
  BY HubAssumption DEF HubInv, TypeOK, UnwrittenIsZero, Address
<1>2. /\ escrows' = [escrows EXCEPT ![e] = new]
      /\ balance' = balance + v
      /\ UNCHANGED <<timestamp, paid, refunded, donated, batchSettled>>
  BY DEF openEscrow
<1>3. paid[e] = 0 /\ refunded[e] = 0
  BY DEF HubInv, TypeOK, UnwrittenIsZero, EscrowConserved, Unwritten, openEscrow
<1>4. new \in EscrowSession
  BY <1>1 DEF EscrowSession
<1>5. TypeOK'
  BY <1>1, <1>2, <1>4 DEF HubInv, TypeOK
<1>6. UnwrittenIsZero'
  BY <1>1, <1>2 DEF HubInv, TypeOK, UnwrittenIsZero
<1>7. EscrowConserved'
  BY <1>1, <1>2, <1>3 DEF HubInv, TypeOK, EscrowConserved
<1>8. FeeWithinRate'
  BY <1>1, <1>2, <1>3 DEF HubInv, TypeOK, FeeWithinRate
<1>9. QED
  BY <1>5, <1>6, <1>7, <1>8 DEF HubInv

\* The invariant holds initially and every transaction keeps it.
LEMMA HubInvInductive == (Init => HubInv) /\ (HubInv /\ [Next]_vars => HubInv')
<1>1. Init => HubInv
  BY HubAssumption
     DEF Init, HubInv, TypeOK, EscrowSession, Unwritten, Address,
         UnwrittenIsZero, EscrowConserved, FeeWithinRate
<1>2. ASSUME HubInv, [Next]_vars
      PROVE  HubInv'
  <2>1. CASE NextBlock
    BY <1>2, <2>1 DEF NextBlock, HubInv, TypeOK, UnwrittenIsZero,
                      EscrowConserved, FeeWithinRate
  <2>2. ASSUME NEW v \in Amounts, receive(v)
        PROVE  HubInv'
    BY <1>2, <2>2, HubAssumption DEF receive, HubInv, TypeOK, UnwrittenIsZero,
                      EscrowConserved, FeeWithinRate
  <2>3. ASSUME NEW e \in Escrow, NEW s \in Agent, NEW b \in Address,
               NEW v \in Amounts, NEW l \in Amounts, NEW t \in Ttls,
               openEscrow(e, s, b, v, l, t)
        PROVE  HubInv'
    BY <1>2, <2>3, OpenKeepsInv
  <2>4. ASSUME NEW e \in Escrow, NEW s \in Agent, NEW d \in Amounts,
               claimStream(e, s, d)
        PROVE  HubInv'
    <3>1. batchSettled' \in [Escrow -> [Root -> 0..2]]
      BY <1>2, <2>4 DEF claimStream, HubInv, TypeOK
    <3>2. QED
      BY <1>2, <2>4, <3>1, PayOutKeepsInv DEF claimStream
  <2>5. ASSUME NEW e \in Escrow, NEW h \in Root, NEW t \in Amounts,
               settleBatch(e, h, t)
        PROVE  HubInv'
    <3>1. batchSettled' \in [Escrow -> [Root -> 0..2]]
      BY <1>2, <2>5 DEF settleBatch, HubInv, TypeOK
    <3>2. QED
      BY <1>2, <2>5, <3>1, PayOutKeepsInv DEF settleBatch
  <2>6. ASSUME NEW e \in Escrow, NEW s \in Agent,
               closeEscrow(e, s) \/ emergencyClose(e, s)
        PROVE  HubInv'
    BY <1>2, <2>6, CloseKeepsInv DEF closeEscrow, emergencyClose
  <2>7. ASSUME NEW e \in Escrow, freezeOnDispute(e)
        PROVE  HubInv'
    <3>1. /\ escrows' \in [Escrow -> EscrowSession]
          /\ \A x \in Escrow : x # e => escrows'[x] = escrows[x]
          /\ escrows'[e].spent = escrows[e].spent
          /\ escrows'[e].deposit = escrows[e].deposit
          /\ escrows'[e].budgetLimit = escrows[e].budgetLimit
          /\ escrows'[e].createdAt = escrows[e].createdAt
          /\ escrows'[e].active = escrows[e].active
      BY <1>2, <2>7, DisputedUpdate DEF freezeOnDispute, HubInv, TypeOK
    <3>2. escrows[e].createdAt # 0
      BY <1>2, <2>7 DEF freezeOnDispute, HubInv, UnwrittenIsZero, Unwritten
    <3>3. QED
      BY <1>2, <2>7, <3>1, <3>2 DEF freezeOnDispute, HubInv, TypeOK,
             UnwrittenIsZero, EscrowConserved, FeeWithinRate
  <2>8. CASE UNCHANGED vars
    BY <1>2, <2>8 DEF vars, HubInv, TypeOK, UnwrittenIsZero, EscrowConserved,
                      FeeWithinRate
  <2>9. QED
    BY <1>2, <2>1, <2>2, <2>3, <2>4, <2>5, <2>6, <2>7, <2>8 DEF Next
<1>3. QED
  BY <1>1, <1>2

\* No run of the contract leaves the types, for any number of sessions: every
\* subtraction of the contract stays at or above zero.
THEOREM HubTypeCorrect == Spec => []TypeOK
<1>1. HubInv => TypeOK
  BY DEF HubInv
<1>2. QED
  BY <1>1, HubInvInductive, PTL DEF Spec

\* The payer and the payee of a session together never receive more than its
\* deposit and the refund is taken once, whatever the order of the calls.
THEOREM HubConserves == Spec => []EscrowConserved
<1>1. HubInv => EscrowConserved
  BY DEF HubInv
<1>2. QED
  BY <1>1, HubInvInductive, PTL DEF Spec

\* Splitting a spending into any number of batches never raises the withheld
\* fee above the rate.
THEOREM HubFeeWithinRate == Spec => []FeeWithinRate
<1>1. HubInv => FeeWithinRate
  BY DEF HubInv
<1>2. QED
  BY <1>1, HubInvInductive, PTL DEF Spec

\* Closed or disputed sessions pay nobody any more.
THEOREM HubStops == Spec => StoppedStaysStopped
<1> DEFINE A == \A e \in Escrow :
        /\ (escrows[e].disputed \/ (escrows[e].createdAt # 0 /\ ~escrows[e].active))
                => paid'[e] = paid[e]
        /\ (escrows[e].createdAt # 0 /\ ~escrows[e].active)
                => escrows'[e] = escrows[e] /\ refunded'[e] = refunded[e]
<1>1. ASSUME HubInv, Next PROVE A
  <2> USE <1>1 DEF HubInv, TypeOK
  <2>1. CASE NextBlock
    BY <2>1 DEF NextBlock
  <2>2. ASSUME NEW v \in Amounts, receive(v) PROVE A
    BY <2>2 DEF receive
  <2>3. ASSUME NEW e \in Escrow, NEW s \in Agent, NEW b \in Address,
               NEW v \in Amounts, NEW l \in Amounts, NEW t \in Ttls,
               openEscrow(e, s, b, v, l, t)
        PROVE  A
    BY <2>3 DEF openEscrow
  <2>4. ASSUME NEW e \in Escrow, NEW s \in Agent, NEW d \in Amounts,
               claimStream(e, s, d)
        PROVE  A
    BY <2>4 DEF claimStream, Payable, PayOut
  <2>5. ASSUME NEW e \in Escrow, NEW h \in Root, NEW t \in Amounts,
               settleBatch(e, h, t)
        PROVE  A
    BY <2>5 DEF settleBatch, Payable, PayOut
  <2>6. ASSUME NEW e \in Escrow, NEW s \in Agent,
               closeEscrow(e, s) \/ emergencyClose(e, s)
        PROVE  A
    BY <2>6 DEF closeEscrow, emergencyClose, CloseAndRefund
  <2>7. ASSUME NEW e \in Escrow, freezeOnDispute(e)
        PROVE  A
    BY <2>7 DEF freezeOnDispute
  <2>8. QED
    BY <2>1, <2>2, <2>3, <2>4, <2>5, <2>6, <2>7 DEF Next
<1>2. HubInv /\ [Next]_vars => [A]_vars
  BY <1>1
<1>3. QED
  BY <1>2, HubInvInductive, PTL DEF Spec, StoppedStaysStopped

\* What the sessions are owed is a natural number each, in finitely many.
LEMMA OwedType ==
    ASSUME HubInv
    PROVE  /\ IsFiniteSet(OpenSessions) /\ OpenSessions \subseteq Escrow
           /\ \A e \in Escrow : Owed[e] \in Nat
           /\ SumFunctionOnSet(Owed, OpenSessions) \in Int
<1>1. IsFiniteSet(OpenSessions) /\ OpenSessions \subseteq Escrow
  BY HubAssumption, FS_Subset DEF OpenSessions
<1>2. \A e \in Escrow : Owed[e] \in Nat
  BY DEF HubInv, TypeOK, EscrowSession, EscrowConserved, Owed
<1>3. QED
  BY <1>1, <1>2, SumInt

\* A payout lowers what its session is owed by the whole amount, the balance by
\* no more than that.
LEMMA PayOutKeepsSolvent ==
    ASSUME HubInv, Solvent, NEW e \in Escrow, NEW total \in Amounts,
           Payable(e, total), PayOut(e, total)
    PROVE  Solvent'
<1>1. total \in Nat /\ Fee(total) \in Nat /\ Fee(total) <= total
  BY HubAssumption, FeeBounds
<1>2. /\ escrows \in [Escrow -> EscrowSession]
      /\ escrows' = [escrows EXCEPT ![e].spent = @ + total]
  BY DEF PayOut, HubInv, TypeOK
<1>3. /\ \A x \in Escrow : x # e => escrows'[x] = escrows[x]
      /\ escrows'[e].spent = escrows[e].spent + total
      /\ escrows'[e].deposit = escrows[e].deposit
      /\ escrows'[e].active = escrows[e].active
  BY <1>1, <1>2, SpentUpdate
<1>4. OpenSessions' = OpenSessions /\ e \in OpenSessions
  BY <1>3 DEF OpenSessions, Payable
<1>5. /\ \A x \in Escrow : x # e => Owed'[x] = Owed[x]
      /\ Owed'[e] = Owed[e] - total
  BY <1>1, <1>2, <1>3 DEF Owed, EscrowSession
<1>6. /\ \A x \in Escrow : Owed[x] \in Int /\ Owed'[x] \in Int
      /\ IsFiniteSet(OpenSessions) /\ OpenSessions \subseteq Escrow
      /\ SumFunctionOnSet(Owed, OpenSessions) \in Int
  BY OwedType, <1>5, <1>1
<1>7. SumFunctionOnSet(Owed', OpenSessions) =
        SumFunctionOnSet(Owed, OpenSessions) + (Owed'[e] - Owed[e])
  <2>1. \A x \in OpenSessions : Owed[x] \in Int /\ Owed'[x] \in Int /\ (x # e => Owed'[x] = Owed[x])
    BY <1>5, <1>6
  <2>2. QED
    BY <1>4, <1>6, <2>1, SumChange
<1>8. balance' = balance - (total - Fee(total)) /\ balance \in Int
  BY DEF PayOut, HubInv, TypeOK
<1>9. QED
  BY <1>1, <1>4, <1>5, <1>6, <1>7, <1>8 DEF Solvent

\* A closing takes the refund out of both sides.
LEMMA CloseKeepsSolvent ==
    ASSUME HubInv, Solvent, NEW e \in Escrow, CloseAndRefund(e)
    PROVE  Solvent'
<1>1. /\ escrows \in [Escrow -> EscrowSession] /\ escrows[e].active
      /\ escrows' = [escrows EXCEPT ![e].active = FALSE]
      /\ balance' = balance - Owed[e] /\ balance \in Int
  BY DEF CloseAndRefund, HubInv, TypeOK, Owed
<1>2. /\ \A x \in Escrow : x # e => escrows'[x] = escrows[x]
      /\ escrows'[e].spent = escrows[e].spent
      /\ escrows'[e].deposit = escrows[e].deposit
      /\ escrows'[e].active = FALSE
  BY <1>1, ActiveUpdate
<1>3. OpenSessions' = OpenSessions \ {e} /\ e \in OpenSessions
  BY <1>1, <1>2 DEF OpenSessions
<1>4. Owed' = Owed
  BY <1>2 DEF Owed
<1>5. /\ \A x \in OpenSessions : Owed[x] \in Int
      /\ IsFiniteSet(OpenSessions)
  BY OwedType
<1>6. SumFunctionOnSet(Owed, OpenSessions) = Owed[e] + SumFunctionOnSet(Owed, OpenSessions \ {e})
  BY <1>3, <1>5, SumRemove
<1>7. SumFunctionOnSet(Owed, OpenSessions \ {e}) \in Int
  <2>1. IsFiniteSet(OpenSessions \ {e})
    BY <1>5, FS_RemoveElement
  <2>2. QED
    BY <1>5, <2>1, SumInt
<1>8. QED
  BY <1>1, <1>3, <1>4, <1>5, <1>6, <1>7 DEF Solvent

\* A new session adds its deposit to both sides; it was not open before.
LEMMA OpenKeepsSolvent ==
    ASSUME HubInv, Solvent, NEW e \in Escrow, NEW s \in Agent, NEW b \in Address,
           NEW v \in Amounts, NEW l \in Amounts, NEW t \in Ttls,
           openEscrow(e, s, b, v, l, t)
    PROVE  Solvent'
<1>1. /\ escrows \in [Escrow -> EscrowSession] /\ balance \in Int /\ v \in Nat
      /\ escrows[e] = Unwritten
      /\ balance' = balance + v
  BY HubAssumption DEF openEscrow, HubInv, TypeOK, UnwrittenIsZero
<1>2. /\ \A x \in Escrow : x # e => escrows'[x] = escrows[x]
      /\ escrows'[e].spent = 0 /\ escrows'[e].deposit = v /\ escrows'[e].active
  BY <1>1 DEF openEscrow
<1>3. OpenSessions' = OpenSessions \cup {e} /\ e \notin OpenSessions
  BY <1>1, <1>2 DEF OpenSessions, Unwritten
<1>4. /\ \A x \in OpenSessions : Owed[x] \in Int /\ Owed'[x] = Owed[x]
      /\ Owed'[e] = v
      /\ IsFiniteSet(OpenSessions)
      /\ SumFunctionOnSet(Owed, OpenSessions) \in Int
  <2>1. \A x \in Escrow : x # e => Owed'[x] = Owed[x]
    BY <1>2 DEF Owed
  <2>2. Owed'[e] = v
    BY <1>1, <1>2 DEF Owed
  <2>3. QED
    BY <1>3, <2>1, <2>2, OwedType
<1>5. SumFunctionOnSet(Owed', OpenSessions) = SumFunctionOnSet(Owed, OpenSessions)
  BY <1>4, SumSame
<1>6. SumFunctionOnSet(Owed', OpenSessions \cup {e}) =
        SumFunctionOnSet(Owed', OpenSessions) + Owed'[e]
  <2>1. \A x \in OpenSessions \cup {e} : Owed'[x] \in Int
    BY <1>1, <1>4
  <2>2. QED
    BY <1>3, <1>4, <2>1, SumAdd
<1>7. QED
  BY <1>1, <1>3, <1>4, <1>5, <1>6 DEF Solvent

\* The pooled balance covers what all open sessions are still owed, for any
\* number of sessions (settleBatch, claimStream and both closings transfer out
\* of the one balance).
THEOREM HubSolvent == Spec => []Solvent
<1>1. Init => Solvent
  <2>1. SUFFICES ASSUME Init PROVE Solvent
    OBVIOUS
  <2>2. OpenSessions = {} /\ balance = 0
    BY <2>1 DEF Init, Unwritten, OpenSessions
  <2>3. QED
    BY <2>2, SumEmpty DEF Solvent
<1>2. ASSUME HubInv, HubInv', Solvent, [Next]_vars
      PROVE  Solvent'
  <2>1. ASSUME UNCHANGED escrows, balance' >= balance
        PROVE  Solvent'
    <3>1. OpenSessions' = OpenSessions /\ Owed' = Owed
      BY <2>1 DEF OpenSessions, Owed
    <3>2. balance \in Int /\ balance' \in Int /\ SumFunctionOnSet(Owed, OpenSessions) \in Int
      BY <1>2, OwedType DEF HubInv, TypeOK
    <3>3. QED
      BY <1>2, <2>1, <3>1, <3>2 DEF Solvent
  <2>2. CASE NextBlock \/ UNCHANGED vars
    BY <1>2, <2>1, <2>2 DEF NextBlock, vars, HubInv, TypeOK
  <2>3. ASSUME NEW v \in Amounts, receive(v)
        PROVE  Solvent'
    BY <1>2, <2>1, <2>3, HubAssumption DEF receive, HubInv, TypeOK
  <2>4. ASSUME NEW e \in Escrow, NEW s \in Agent, NEW b \in Address,
               NEW v \in Amounts, NEW l \in Amounts, NEW t \in Ttls,
               openEscrow(e, s, b, v, l, t)
        PROVE  Solvent'
    BY <1>2, <2>4, OpenKeepsSolvent
  <2>5. ASSUME NEW e \in Escrow, NEW s \in Agent, NEW d \in Amounts,
               claimStream(e, s, d)
        PROVE  Solvent'
    BY <1>2, <2>5, PayOutKeepsSolvent DEF claimStream
  <2>6. ASSUME NEW e \in Escrow, NEW h \in Root, NEW t \in Amounts,
               settleBatch(e, h, t)
        PROVE  Solvent'
    BY <1>2, <2>6, PayOutKeepsSolvent DEF settleBatch
  <2>7. ASSUME NEW e \in Escrow, NEW s \in Agent,
               closeEscrow(e, s) \/ emergencyClose(e, s)
        PROVE  Solvent'
    BY <1>2, <2>7, CloseKeepsSolvent DEF closeEscrow, emergencyClose
  <2>8. ASSUME NEW e \in Escrow, freezeOnDispute(e)
        PROVE  Solvent'
    <3>1. escrows \in [Escrow -> EscrowSession] /\ balance' = balance
      BY <1>2, <2>8 DEF freezeOnDispute, HubInv, TypeOK
    <3>2. \A x \in Escrow : /\ escrows'[x].spent = escrows[x].spent
                            /\ escrows'[x].deposit = escrows[x].deposit
                            /\ escrows'[x].active = escrows[x].active
      BY <2>8, <3>1, DisputedUpdate DEF freezeOnDispute
    <3>3. OpenSessions' = OpenSessions /\ Owed' = Owed
      BY <3>2 DEF OpenSessions, Owed
    <3>4. QED
      BY <1>2, <3>1, <3>3 DEF Solvent
  <2>9. QED
    BY <1>2, <2>2, <2>3, <2>4, <2>5, <2>6, <2>7, <2>8 DEF Next
<1>3. QED
  BY <1>1, <1>2, HubInvInductive, PTL DEF Spec
=============================================================================
