-------------------------- MODULE SettlementProofs --------------------------
(***************************************************************************)
(* A settlement is paid once, for any number of settlements, requests,     *)
(* transactions, attempts, crashes, failed writes and reorgs, as long as   *)
(* none of the named Faults happens and one instance runs the retry loop.  *)
(* What is said of one row or one entry by itself (settled means paid, one *)
(* fee) is proved for every fault and any number of loops.                 *)
(***************************************************************************)
EXTENDS Settlement, TLAPS

\* What the theorems assume of the deployment.
Serial == Faults = {} /\ \A v, w \in Loop : v = w

Holds(w, r) == pc[w] # "idle" /\ obj[w].id = r

\* The part of an attempt in which nothing but attempts and txHash of the
\* object differs from the row.
BeforeOutcome == {"confirm", "send", "persist"}

\* An object is on the desk of a worker exactly while it is busy, and only
\* retry loops queue objects.
DeskInv ==
    \A w \in Worker :
        /\ pc[w] # "idle" => obj[w] \in Entity /\ obj[w].status # "none"
        /\ pc[w] = "confirm" => obj[w].attempts > 0
        /\ due[w] # {} => w \in Loop

\* One worker per settlement: requests hold rows that are pending or final,
\* the retry loop holds rows that are retrying.
OwnerInv ==
    \A w \in Worker, r \in Row : Holds(w, r) =>
        /\ \A v \in Worker : Holds(v, r) => v = w
        /\ row[r].status \in IF w \in Loop THEN {"retrying"}
                             ELSE {"pending", "dead_letter", "rejected"}
        /\ pc[w] \in BeforeOutcome => obj[w].status = row[r].status

\* What a loop has loaded is still what the table holds, and nobody else's.
QueueInv ==
    \A w \in Worker : \A e \in due[w] :
        /\ e = row[e.id]
        /\ e.status = "retrying" /\ e.nextRetryAt = "due"
        /\ \A v \in Worker : ~Holds(v, e.id)

\* Every stored hash names a transaction sent for that settlement.
RefInv ==
    /\ \A r \in Row : row[r].id = r /\ (row[r].status = "none" => row[r].txHash = None)
    /\ \A r \in Row : row[r].txHash # None =>
            txRow[row[r].txHash] = r /\ txState[row[r].txHash] # "unsent"
    /\ \A w \in Worker : pc[w] # "idle" /\ obj[w].txHash # None =>
            txRow[obj[w].txHash] = obj[w].id /\ txState[obj[w].txHash] # "unsent"
    /\ \A w \in Worker : pc[w] \in {"confirm", "persist", "wait", "accrue", "waitSave"} =>
            obj[w].txHash # None

\* The holder's object, or else the row, names the one live transaction; the
\* object that is about to send knows there is none.
LiveInv ==
    /\ \A t \in Tx : Live(t) =>
        /\ txRow[t] \in Row
        /\ \A w \in Worker : Holds(w, txRow[t]) => obj[w].txHash = t /\ pc[w] # "send"
        /\ (\A w \in Worker : ~Holds(w, txRow[t])) => row[txRow[t]].txHash = t
    /\ \A w \in Worker : pc[w] \in {"confirm", "wait", "accrue", "waitSave"} =>
            obj[w].txHash = row[obj[w].id].txHash

\* Settled is only ever said of a final transaction, fee and event included.
OutcomeInv ==
    /\ \A w \in Worker :
        /\ pc[w] = "accrue" => obj[w].status = "settled"
        /\ pc[w] = "waitSave" => obj[w].status = "retrying"
        /\ pc[w] \in {"accrue", "save"} /\ obj[w].status = "settled" =>
                /\ obj[w].txHash # None /\ txState[obj[w].txHash] = "final"
                /\ obj[w].nextRetryAt = "null"
    /\ \A r \in Row : settled[r] > 0 => row[r].status = "settled"
    /\ \A r \in Row : row[r].status = "settled" => row[r].nextRetryAt = "null"
    /\ \A w \in Worker : \A r \in emitting[w] :
        /\ row[r].status = "settled" /\ settled[r] = 0
        /\ \A v \in Worker : r \in emitting[v] => v = w

SerialInv ==
    /\ TypeOK /\ DeskInv /\ OwnerInv /\ QueueInv /\ RefInv /\ LiveInv
    /\ OutcomeInv /\ SettledIsPaid /\ FeeOncePaid /\ AnnouncedOnce

\* SerialInv carries the payment properties.
LEMMA SerialInvImplies ==
    ASSUME SerialInv
    PROVE  TypeOK /\ PaidOnce /\ PaymentKnown /\ SettledIsPaid /\ FeeOncePaid
           /\ AnnouncedOnce
<1>1. ASSUME NEW t \in Tx, NEW u \in Tx, Live(t), Live(u), txRow[t] = txRow[u]
      PROVE  t = u
  <2>1. CASE \E w \in Worker : Holds(w, txRow[t])
    BY <1>1, <2>1 DEF SerialInv, LiveInv
  <2>2. CASE \A w \in Worker : ~Holds(w, txRow[t])
    BY <1>1, <2>2 DEF SerialInv, LiveInv
  <2>3. QED
    BY <2>1, <2>2
<1>2. PaidOnce
  BY <1>1 DEF PaidOnce, Live
<1>3. PaymentKnown
  BY DEF PaymentKnown, SerialInv, LiveInv, Holds
<1>4. QED
  BY <1>2, <1>3 DEF SerialInv

----------------------------------------------------------------------------
(* A busy worker changes its object or label and leaves row and chain.     *)

\* Steps of an attempt between two writes.  What the new label promises must
\* hold of the new object; the hash is not touched.
Moved(w, e, label) ==
    /\ pc[w] # "idle" /\ label \in {"send", "accrue", "save", "waitSave"}
    /\ e \in Entity /\ e.id = obj[w].id /\ e.txHash = obj[w].txHash
    /\ e.status # "none"
    /\ label = "send" => /\ pc[w] \in BeforeOutcome /\ e.status = obj[w].status
                         /\ \A t \in Tx : txRow[t] = e.id => ~Live(t)
    /\ label \in {"accrue", "waitSave"} =>
            e.txHash # None /\ e.txHash = row[e.id].txHash
    /\ label = "accrue" => e.status = "settled"
    /\ label = "waitSave" => e.status = "retrying"
    /\ label \in {"accrue", "save"} /\ e.status = "settled" =>
            e.txHash # None /\ txState[e.txHash] = "final" /\ e.nextRetryAt = "null"
    /\ pc' = [pc EXCEPT ![w] = label]
    /\ obj' = [obj EXCEPT ![w] = e]
    /\ UNCHANGED <<row, due, txState, txRow, emitting, settled>>
    /\ fees' \in [Row -> 0..2] /\ FeeOncePaid'
    /\ paused' \in BOOLEAN /\ hiccups' \in 0..MaxHiccups

\* An attempt between two writes of the row keeps the invariant.
LEMMA MoveKeepsInv ==
    ASSUME SerialInv, NEW w \in Worker, NEW e, NEW label, Moved(w, e, label)
    PROVE  SerialInv'
<1> USE DEF Moved
<1>1. /\ pc'[w] = label /\ obj'[w] = e
      /\ \A v \in Worker : v # w => pc'[v] = pc[v] /\ obj'[v] = obj[v]
  BY DEF SerialInv, TypeOK
<1>2. \A v \in Worker, r \in Row : Holds(v, r)' <=> Holds(v, r)
  BY <1>1 DEF Holds, SerialInv, TypeOK
<1>3. \A t \in Tx : Live(t)' <=> Live(t)
  BY DEF Live
<1>4. TypeOK'
  BY DEF SerialInv, TypeOK, PC
<1>5. DeskInv'
  BY <1>1 DEF SerialInv, DeskInv
<1>6. OwnerInv'
  <2>1. ASSUME NEW v \in Worker, NEW r \in Row, Holds(v, r)
        PROVE  pc'[v] \in BeforeOutcome => obj'[v].status = row'[r].status
    BY <2>1, <1>1 DEF SerialInv, OwnerInv, BeforeOutcome, Holds
  <2>2. QED
    BY <2>1, <1>2 DEF SerialInv, OwnerInv
<1>7. QueueInv'
  BY <1>2 DEF SerialInv, QueueInv, TypeOK, Entity
<1>8. RefInv'
  BY <1>1 DEF SerialInv, RefInv
<1>9. LiveInv'
  <2>1. ASSUME NEW t \in Tx, Live(t)
        PROVE  /\ txRow[t] \in Row
               /\ \A v \in Worker : Holds(v, txRow[t]) => obj'[v].txHash = t /\ pc'[v] # "send"
               /\ (\A v \in Worker : ~Holds(v, txRow[t])) => row[txRow[t]].txHash = t
    BY <2>1, <1>1 DEF SerialInv, LiveInv, Holds
  <2>2. \A v \in Worker : pc'[v] \in {"confirm", "wait", "accrue", "waitSave"} =>
            obj'[v].txHash = row'[obj'[v].id].txHash
    BY <1>1 DEF SerialInv, LiveInv
  <2>3. QED
    BY <2>1, <2>2, <1>2, <1>3 DEF LiveInv
<1>10. OutcomeInv'
  BY <1>1 DEF SerialInv, OutcomeInv
<1>11. SettledIsPaid' /\ AnnouncedOnce'
  BY DEF SerialInv, SettledIsPaid, AnnouncedOnce
<1>12. QED
  BY <1>4, <1>5, <1>6, <1>7, <1>8, <1>9, <1>10, <1>11 DEF SerialInv

\* FeeOncePaid depends on the ledger and the chain only.
LEMMA FeesUnchanged ==
    ASSUME SerialInv, UNCHANGED <<fees, txState, txRow>>
    PROVE  fees' \in [Row -> 0..2] /\ FeeOncePaid'
BY DEF SerialInv, TypeOK, FeeOncePaid

\* The catch block.
LEMMA FailKeepsInv ==
    ASSUME SerialInv, NEW w \in Worker, pc[w] # "idle", NEW retryable \in BOOLEAN,
           Fail(w, obj[w], retryable),
           UNCHANGED <<row, due, txState, txRow, emitting, settled, fees>>,
           paused' \in BOOLEAN, hiccups' \in 0..MaxHiccups
    PROVE  SerialInv'
<1>1. obj[w] \in Entity
  BY DEF SerialInv, DeskInv
<1>2. PICK s \in {"rejected", "dead_letter", "retrying"}, a \in {"null", "later"} :
            /\ obj' = [obj EXCEPT ![w] = [obj[w] EXCEPT !.status = s, !.nextRetryAt = a]]
            /\ pc' = [pc EXCEPT ![w] = "save"]
  BY DEF Fail, Goto
<1> DEFINE e == [obj[w] EXCEPT !.status = s, !.nextRetryAt = a]
<1>3. e \in Entity /\ e.id = obj[w].id /\ e.txHash = obj[w].txHash /\ e.status = s
  BY <1>1 DEF Entity, SettlementStatus
<1>4. obj' = [obj EXCEPT ![w] = e]
  BY <1>2
<1>5. e.status # "settled"
  BY <1>3
<1> HIDE DEF e
<1>6. Moved(w, e, "save")
  BY <1>2, <1>3, <1>4, <1>5, FeesUnchanged DEF Moved
<1>7. QED
  BY <1>6, MoveKeepsInv

\* The transaction of the object is final.
LEMMA SucceedKeepsInv ==
    ASSUME SerialInv, NEW w \in Worker, pc[w] \in {"confirm", "wait"},
           txState[obj[w].txHash] = "final", Succeed(w),
           UNCHANGED <<row, due, txState, txRow, emitting, settled, fees, paused, hiccups>>
    PROVE  SerialInv'
<1>1. obj[w] \in Entity
  BY DEF SerialInv, DeskInv
<1> DEFINE e == [obj[w] EXCEPT !.status = "settled", !.nextRetryAt = "null"]
<1>2. /\ e \in Entity /\ e.id = obj[w].id /\ e.txHash = obj[w].txHash
      /\ e.status = "settled" /\ e.nextRetryAt = "null"
  BY <1>1 DEF Entity, SettlementStatus
<1>3. obj' = [obj EXCEPT ![w] = e] /\ pc' = [pc EXCEPT ![w] = "accrue"]
  BY DEF Succeed, Goto
<1>4. obj[w].txHash # None /\ obj[w].txHash = row[obj[w].id].txHash
  BY DEF SerialInv, RefInv, LiveInv
<1>5. paused' \in BOOLEAN /\ hiccups' \in 0..MaxHiccups
  BY DEF SerialInv, TypeOK
<1> HIDE DEF e
<1>6. Moved(w, e, "accrue")
  BY <1>2, <1>3, <1>4, <1>5, FeesUnchanged DEF Moved
<1>7. QED
  BY <1>6, MoveKeepsInv

\* Looking the stored hash up (confirmEarlierTransaction) keeps the invariant.
LEMMA ConfirmKeepsInv ==
    ASSUME SerialInv, NEW w \in Worker, confirmEarlierTransaction(w)
    PROVE  SerialInv'
<1>1. /\ pc[w] = "confirm" /\ obj[w] \in Entity /\ obj[w].status # "none"
      /\ UNCHANGED <<row, due, txState, txRow, emitting, settled, fees, paused, hiccups>>
      /\ paused' \in BOOLEAN /\ hiccups' \in 0..MaxHiccups
  BY DEF confirmEarlierTransaction, dbVars, eventVars, chainVars, envVars, SerialInv, DeskInv, TypeOK
<1>2. CASE txState[obj[w].txHash] = "final" /\ Succeed(w)
  BY <1>1, <1>2, SucceedKeepsInv
<1>3. CASE obj' = [obj EXCEPT ![w] = [obj[w] EXCEPT !.attempts = @ - 1,
                              !.status = "retrying", !.nextRetryAt = "later"]]
           /\ Goto(w, "waitSave")
  <2> DEFINE e == [obj[w] EXCEPT !.attempts = obj[w].attempts - 1,
                              !.status = "retrying", !.nextRetryAt = "later"]
  <2>1. obj[w].attempts - 1 \in Nat
    BY <1>1 DEF SerialInv, DeskInv, Entity
  <2>2. e \in Entity /\ e.id = obj[w].id /\ e.txHash = obj[w].txHash /\ e.status = "retrying"
    BY <1>1, <2>1 DEF Entity, SettlementStatus
  <2>3. obj[w].txHash # None /\ obj[w].txHash = row[obj[w].id].txHash
    BY <1>1 DEF SerialInv, RefInv, LiveInv
  <2>4. obj' = [obj EXCEPT ![w] = e] /\ pc' = [pc EXCEPT ![w] = "waitSave"]
    BY <1>3 DEF Goto
  <2> HIDE DEF e
  <2>5. Moved(w, e, "waitSave")
    BY <1>1, <2>2, <2>3, <2>4, FeesUnchanged DEF Moved
  <2>6. QED
    BY <2>5, MoveKeepsInv
<1>4. CASE /\ txState[obj[w].txHash] \in {"reverted", "dropped"}
           /\ Goto(w, "send") /\ UNCHANGED obj
  <2>1. obj' = [obj EXCEPT ![w] = obj[w]] /\ pc' = [pc EXCEPT ![w] = "send"]
    BY <1>4 DEF Goto, SerialInv, TypeOK
  <2>2. \A t \in Tx : txRow[t] = obj[w].id => ~Live(t)
    BY <1>1, <1>4 DEF SerialInv, LiveInv, Holds, Live
  <2>3. Moved(w, obj[w], "send")
    BY <1>1, <2>1, <2>2, FeesUnchanged DEF Moved, BeforeOutcome
  <2>4. QED
    BY <2>3, MoveKeepsInv
<1>5. CASE Fail(w, obj[w], TRUE)
  BY <1>1, <1>5, FailKeepsInv
<1>6. QED
  BY <1>2, <1>3, <1>4, <1>5 DEF confirmEarlierTransaction

\* The end of the wait for confirmations (waitFor) keeps the invariant.
LEMMA WaitKeepsInv ==
    ASSUME SerialInv, NEW w \in Worker, waitFor(w)
    PROVE  SerialInv'
<1>1. /\ pc[w] = "wait"
      /\ UNCHANGED <<row, due, txState, txRow, emitting, settled, fees, paused, hiccups>>
      /\ paused' \in BOOLEAN /\ hiccups' \in 0..MaxHiccups
  BY DEF waitFor, dbVars, eventVars, chainVars, envVars, SerialInv, TypeOK
<1>2. CASE txState[obj[w].txHash] = "final" /\ Succeed(w)
  BY <1>1, <1>2, SucceedKeepsInv
<1>3. CASE \E retryable \in BOOLEAN : Fail(w, obj[w], retryable)
  BY <1>1, <1>3, FailKeepsInv
<1>4. QED
  BY <1>2, <1>3 DEF waitFor

\* Booking the fee (accrueFee) keeps the invariant.
LEMMA AccrueKeepsInv ==
    ASSUME SerialInv, NEW w \in Worker, accrueFee(w)
    PROVE  SerialInv'
<1>1. /\ pc[w] = "accrue" /\ obj[w] \in Entity
      /\ pc' = [pc EXCEPT ![w] = "save"] /\ obj' = [obj EXCEPT ![w] = obj[w]]
      /\ UNCHANGED <<row, due, txState, txRow, emitting, settled, paused, hiccups>>
      /\ paused' \in BOOLEAN /\ hiccups' \in 0..MaxHiccups
  BY DEF accrueFee, Goto, eventVars, chainVars, envVars, SerialInv, DeskInv, TypeOK
<1>2. /\ obj[w].status = "settled" /\ obj[w].txHash \in Tx /\ obj[w].txHash # None
      /\ txState[obj[w].txHash] = "final" /\ txRow[obj[w].txHash] = obj[w].id
      /\ obj[w].id \in Row /\ obj[w].nextRetryAt = "null"
  BY <1>1 DEF SerialInv, OutcomeInv, RefInv, Entity
<1>3. fees' \in [Row -> 0..2]
  BY DEF accrueFee, SerialInv, TypeOK
<1>4. FeeOncePaid'
  BY <1>1, <1>2 DEF accrueFee, SerialInv, TypeOK, FeeOncePaid
<1>5. Moved(w, obj[w], "save")
  BY <1>1, <1>2, <1>3, <1>4 DEF Moved
<1>6. QED
  BY <1>5, MoveKeepsInv

----------------------------------------------------------------------------
(* A worker writes its object over the row.                                *)

\* What a write by the holder of a row means for everybody else.
LEMMA HolderIsAlone ==
    ASSUME SerialInv, NEW w \in Worker, pc[w] # "idle"
    PROVE  /\ obj[w] \in Entity /\ obj[w].id \in Row
           /\ Holds(w, obj[w].id) /\ obj[w].status # "none"
           /\ \A v \in Worker : v # w => ~Holds(v, obj[w].id)
           /\ \A v \in Worker : \A e \in due[v] : e.id # obj[w].id
           /\ row[obj[w].id].status # "settled"
           /\ settled[obj[w].id] = 0
           /\ \A v \in Worker : obj[w].id \notin emitting[v]
<1>1. /\ obj[w] \in Entity /\ obj[w].id \in Row
      /\ Holds(w, obj[w].id) /\ obj[w].status # "none"
  BY DEF SerialInv, DeskInv, Holds, Entity
<1>2. \A v \in Worker : v # w => ~Holds(v, obj[w].id)
  BY <1>1 DEF SerialInv, OwnerInv
<1>3. \A v \in Worker : \A e \in due[v] : e.id # obj[w].id
  BY <1>1 DEF SerialInv, QueueInv
<1>4. row[obj[w].id].status # "settled"
  BY <1>1 DEF SerialInv, OwnerInv
<1>5. ~(settled[obj[w].id] > 0)
  <2>1. \A x \in Row : settled[x] > 0 => row[x].status = "settled"
    BY DEF SerialInv, OutcomeInv
  <2>2. QED
    BY <2>1, <1>1, <1>4
<1>6. settled[obj[w].id] \in 0..2
  BY <1>1 DEF SerialInv, TypeOK
<1>7. \A v \in Worker : obj[w].id \notin emitting[v]
  BY <1>1, <1>4 DEF SerialInv, OutcomeInv
<1>8. QED
  BY <1>1, <1>2, <1>3, <1>4, <1>5, <1>6, <1>7

\* The hash is written to the row, and the attempt goes on to the wait, or to its
\* end when the answer to that write is an error.
Persisted(w, e, label) ==
    /\ pc[w] = "persist" /\ label \in {"wait", "save"}
    /\ e \in Entity /\ e.id = obj[w].id /\ e.txHash = obj[w].txHash
    /\ e.status \notin {"none", "settled"}
    /\ row' = [row EXCEPT ![obj[w].id] = obj[w]]
    /\ pc' = [pc EXCEPT ![w] = label]
    /\ obj' = [obj EXCEPT ![w] = e]
    /\ UNCHANGED <<due, txState, txRow, fees, emitting, settled>>
    /\ paused' \in BOOLEAN /\ hiccups' \in 0..MaxHiccups

\* Writing the hash to the row keeps the invariant, whatever the answer is.
LEMMA PersistedKeepsInv ==
    ASSUME SerialInv, NEW w \in Worker, NEW e, NEW label, Persisted(w, e, label)
    PROVE  SerialInv'
<1> DEFINE r == obj[w].id
<1>1. /\ pc[w] = "persist" /\ row' = [row EXCEPT ![r] = obj[w]]
      /\ label \in {"wait", "save"} /\ pc' = [pc EXCEPT ![w] = label]
      /\ obj' = [obj EXCEPT ![w] = e]
      /\ e \in Entity /\ e.id = r /\ e.txHash = obj[w].txHash
      /\ e.status \notin {"none", "settled"}
      /\ UNCHANGED <<due, txState, txRow, fees, emitting, settled>>
      /\ paused' \in BOOLEAN /\ hiccups' \in 0..MaxHiccups
  BY DEF Persisted
<1>2. /\ obj[w] \in Entity /\ r \in Row /\ Holds(w, r) /\ obj[w].status # "none"
      /\ \A v \in Worker : v # w => ~Holds(v, r)
      /\ \A v \in Worker : \A d \in due[v] : d.id # r
      /\ settled[r] = 0 /\ row[r].status # "settled"
      /\ \A v \in Worker : r \notin emitting[v]
  BY <1>1, HolderIsAlone
<1> HIDE DEF r
<1>3. /\ row'[r] = obj[w] /\ \A x \in Row : x # r => row'[x] = row[x]
      /\ pc'[w] = label /\ obj'[w] = e
      /\ \A v \in Worker : v # w => pc'[v] = pc[v] /\ obj'[v] = obj[v]
  BY <1>1, <1>2 DEF SerialInv, TypeOK
<1>4. obj[w].id = r /\ obj[w].status = row[r].status
  BY <1>1, <1>2 DEF SerialInv, OwnerInv, BeforeOutcome, Holds, r
<1>5. \A v \in Worker, x \in Row : Holds(v, x)' <=> Holds(v, x)
  BY <1>1, <1>3, <1>4 DEF Holds
<1>6. \A t \in Tx : Live(t)' <=> Live(t)
  BY <1>1 DEF Live
<1>7. TypeOK'
  BY <1>1, <1>2 DEF SerialInv, TypeOK, PC
<1>8. DeskInv'
  BY <1>1, <1>3 DEF SerialInv, DeskInv
<1>9. OwnerInv'
  <2>1. ASSUME NEW v \in Worker, NEW x \in Row, Holds(v, x)
        PROVE  /\ row'[x].status = row[x].status
               /\ pc'[v] \in BeforeOutcome => pc[v] \in BeforeOutcome /\ obj'[v] = obj[v]
    BY <1>1, <1>3, <1>4 DEF BeforeOutcome
  <2>2. QED
    BY <2>1, <1>1, <1>5 DEF SerialInv, OwnerInv
<1>10. QueueInv'
  BY <1>1, <1>2, <1>3, <1>5 DEF SerialInv, QueueInv, TypeOK, Entity
<1>11. RefInv'
  BY <1>1, <1>2, <1>3, <1>4 DEF SerialInv, RefInv
<1>12. LiveInv'
  <2>1. ASSUME NEW t \in Tx, Live(t)
        PROVE  /\ txRow[t] \in Row
               /\ \A v \in Worker : Holds(v, txRow[t]) => obj'[v].txHash = t /\ pc'[v] # "send"
               /\ (\A v \in Worker : ~Holds(v, txRow[t])) => row'[txRow[t]].txHash = t
    <3>1. /\ txRow[t] \in Row
          /\ \A v \in Worker : Holds(v, txRow[t]) => obj[v].txHash = t /\ pc[v] # "send"
          /\ (\A v \in Worker : ~Holds(v, txRow[t])) => row[txRow[t]].txHash = t
      BY <2>1 DEF SerialInv, LiveInv
    <3>2. QED
      BY <3>1, <1>1, <1>2, <1>3
  <2>2. ASSUME NEW v \in Worker, pc'[v] \in {"confirm", "wait", "accrue", "waitSave"}
        PROVE  obj'[v].txHash = row'[obj'[v].id].txHash
    <3>1. CASE v = w
      BY <3>1, <1>1, <1>3, <1>4
    <3>2. CASE v # w
      <4>1. pc[v] # "idle" /\ pc[v] = pc'[v] /\ obj'[v] = obj[v]
        BY <3>2, <2>2, <1>3
      <4>2. obj[v].id \in Row /\ obj[v].id # r
        BY <4>1, <3>2, <1>2, HolderIsAlone DEF Holds
      <4>3. QED
        BY <4>1, <4>2, <2>2, <1>3 DEF SerialInv, LiveInv
    <3>3. QED
      BY <3>1, <3>2
  <2>3. QED
    BY <2>1, <2>2, <1>1, <1>5, <1>6 DEF LiveInv
<1>13. row'[r].status # "settled"
  BY <1>2, <1>3, <1>4
<1>14. OutcomeInv'
  BY <1>1, <1>2, <1>3, <1>13 DEF SerialInv, TypeOK, OutcomeInv
<1>15. SettledIsPaid'
  BY <1>1, <1>3, <1>13 DEF SerialInv, SettledIsPaid
<1>16. FeeOncePaid' /\ AnnouncedOnce'
  BY <1>1 DEF SerialInv, FeeOncePaid, AnnouncedOnce
<1>17. QED
  BY <1>7, <1>8, <1>9, <1>10, <1>11, <1>12, <1>14, <1>15, <1>16 DEF SerialInv

\* The hash reaches the row before the wait.
LEMMA PersistKeepsInv ==
    ASSUME SerialInv, NEW w \in Worker, persistHash(w)
    PROVE  SerialInv'
<1>1. /\ pc[w] = "persist" /\ paused' \in BOOLEAN
      /\ UNCHANGED <<due, fees, emitting, settled, txState, txRow>>
  BY DEF persistHash, eventVars, chainVars, SerialInv, TypeOK
<1>2. obj[w] \in Entity /\ obj[w].id \in Row /\ obj[w].status \notin {"none", "settled"}
  <2>1. obj[w] \in Entity /\ obj[w].id \in Row /\ Holds(w, obj[w].id)
        /\ obj[w].status # "none" /\ row[obj[w].id].status # "settled"
    BY <1>1, HolderIsAlone
  <2>2. obj[w].status = row[obj[w].id].status
    BY <2>1, <1>1 DEF SerialInv, OwnerInv, BeforeOutcome
  <2>3. QED
    BY <2>1, <2>2
<1>3. CASE Save(obj[w]) /\ Goto(w, "wait") /\ UNCHANGED <<obj, hiccups>>
  <2>1. obj' = [obj EXCEPT ![w] = obj[w]] /\ hiccups' \in 0..MaxHiccups
    BY <1>3 DEF SerialInv, TypeOK
  <2>2. Persisted(w, obj[w], "wait")
    BY <1>1, <1>2, <1>3, <2>1 DEF Persisted, Save, Goto
  <2>3. QED
    BY <2>2, PersistedKeepsInv
<1>4. CASE Hiccup /\ Fail(w, obj[w], TRUE)
  <2>1. hiccups' \in 0..MaxHiccups
    BY <1>4, SettlementAssumption DEF Hiccup, SerialInv, TypeOK
  <2>2. CASE UNCHANGED row
    BY <1>1, <1>4, <2>1, <2>2, FailKeepsInv
  <2>3. CASE Save(obj[w])
    <3>1. PICK s \in {"rejected", "dead_letter", "retrying"}, a \in {"null", "later"} :
              /\ obj' = [obj EXCEPT ![w] = [obj[w] EXCEPT !.status = s, !.nextRetryAt = a]]
              /\ pc' = [pc EXCEPT ![w] = "save"]
      BY <1>4 DEF Fail, Goto
    <3> DEFINE e == [obj[w] EXCEPT !.status = s, !.nextRetryAt = a]
    <3>2. e \in Entity /\ e.id = obj[w].id /\ e.txHash = obj[w].txHash /\ e.status = s
      BY <1>2 DEF Entity, SettlementStatus
    <3>3. obj' = [obj EXCEPT ![w] = e]
      BY <3>1
    <3> HIDE DEF e
    <3>4. Persisted(w, e, "save")
      BY <1>1, <2>1, <2>3, <3>1, <3>2, <3>3 DEF Persisted, Save
    <3>5. QED
      BY <3>4, PersistedKeepsInv
  <2>4. QED
    BY <2>2, <2>3, <1>4 DEF persistHash
<1>5. QED
  BY <1>3, <1>4 DEF persistHash

\* The last write of an attempt: the worker lets go of the row.
SavedAndDone(w) ==
    /\ pc[w] \in {"save", "waitSave"}
    /\ row' = [row EXCEPT ![obj[w].id] = obj[w]]
    /\ pc' = [pc EXCEPT ![w] = "idle"]
    /\ obj' = [obj EXCEPT ![w] = None]
    /\ emitting' = emitting \/ /\ obj[w].status = "settled"
                               /\ emitting' = [emitting EXCEPT ![w] = @ \cup {obj[w].id}]
    /\ due' = due \/ due' = [due EXCEPT ![w] = {}]
    /\ UNCHANGED <<txState, txRow, fees, settled, paused>>
    /\ hiccups' \in 0..MaxHiccups

\* Writing the outcome over the row and giving the object up keeps the invariant.
LEMMA SaveKeepsInv ==
    ASSUME SerialInv, NEW w \in Worker, SavedAndDone(w)
    PROVE  SerialInv'
<1> DEFINE r == obj[w].id
<1>1. /\ pc[w] \in {"save", "waitSave"}
      /\ row' = [row EXCEPT ![r] = obj[w]]
      /\ pc' = [pc EXCEPT ![w] = "idle"]
      /\ obj' = [obj EXCEPT ![w] = None]
      /\ UNCHANGED <<txState, txRow, fees, settled, paused>>
      /\ hiccups' \in 0..MaxHiccups
      /\ due' \in [Worker -> SUBSET Entity]
      /\ \A v \in Worker : due'[v] \subseteq due[v]
  BY DEF SavedAndDone, SerialInv, TypeOK
<1>2. /\ obj[w] \in Entity /\ r \in Row /\ Holds(w, r) /\ obj[w].status # "none"
      /\ \A v \in Worker : v # w => ~Holds(v, r)
      /\ \A v \in Worker : \A e \in due[v] : e.id # r
      /\ settled[r] = 0
      /\ row[r].status # "settled"
      /\ \A v \in Worker : r \notin emitting[v]
  BY <1>1, HolderIsAlone
<1>3. /\ emitting' \in [Worker -> SUBSET Row]
      /\ \A v \in Worker : v # w => emitting'[v] = emitting[v]
      /\ emitting'[w] \subseteq emitting[w] \cup {r}
      /\ r \in emitting'[w] => obj[w].status = "settled"
  BY <1>2 DEF SavedAndDone, SerialInv, TypeOK
<1>4. obj[w].id = r
  OBVIOUS
<1> HIDE DEF r
<1>5. /\ row'[r] = obj[w] /\ \A x \in Row : x # r => row'[x] = row[x]
      /\ pc'[w] = "idle" /\ obj'[w] = None
      /\ \A v \in Worker : v # w => pc'[v] = pc[v] /\ obj'[v] = obj[v]
  BY <1>1, <1>2 DEF SerialInv, TypeOK
<1>6. /\ \A x \in Row : ~Holds(w, x)'
      /\ \A v \in Worker, x \in Row : v # w => (Holds(v, x)' <=> Holds(v, x))
      /\ \A v \in Worker, x \in Row : Holds(v, x)' => x # r
  BY <1>2, <1>5 DEF Holds
<1>7. \A t \in Tx : Live(t)' <=> Live(t)
  BY <1>1 DEF Live
<1>8. TypeOK'
  BY <1>1, <1>2, <1>3 DEF SerialInv, TypeOK, PC
<1>9. DeskInv'
  BY <1>1, <1>5 DEF SerialInv, DeskInv
<1>10. OwnerInv'
  <2>1. ASSUME NEW v \in Worker, NEW x \in Row, Holds(v, x)'
        PROVE  /\ v # w /\ x # r /\ Holds(v, x)
               /\ row'[x] = row[x] /\ pc'[v] = pc[v] /\ obj'[v] = obj[v]
    BY <2>1, <1>5, <1>6
  <2>2. QED
    BY <2>1, <1>6 DEF SerialInv, OwnerInv
<1>11. QueueInv'
  <2>1. ASSUME NEW v \in Worker, NEW e \in due'[v]
        PROVE  /\ e = row'[e.id] /\ e.status = "retrying" /\ e.nextRetryAt = "due"
               /\ \A u \in Worker : ~Holds(u, e.id)'
    BY <1>1, <1>2, <1>5, <1>6 DEF SerialInv, QueueInv, TypeOK, Entity
  <2>2. QED
    BY <2>1 DEF QueueInv
<1>12. RefInv'
  BY <1>1, <1>2, <1>4, <1>5 DEF SerialInv, RefInv
<1>13. LiveInv'
  <2>1. ASSUME NEW t \in Tx, Live(t)
        PROVE  /\ txRow[t] \in Row
               /\ \A v \in Worker : Holds(v, txRow[t])' => obj'[v].txHash = t /\ pc'[v] # "send"
               /\ (\A v \in Worker : ~Holds(v, txRow[t])') => row'[txRow[t]].txHash = t
    <3>1. /\ txRow[t] \in Row
          /\ \A v \in Worker : Holds(v, txRow[t]) => obj[v].txHash = t /\ pc[v] # "send"
          /\ (\A v \in Worker : ~Holds(v, txRow[t])) => row[txRow[t]].txHash = t
      BY <2>1 DEF SerialInv, LiveInv
    <3>2. CASE txRow[t] = r
      BY <3>1, <3>2, <1>1, <1>2, <1>5, <1>6
    <3>3. CASE txRow[t] # r
      <4>1. ~Holds(w, txRow[t]) /\ row'[txRow[t]] = row[txRow[t]]
        BY <3>1, <3>3, <1>4, <1>5 DEF Holds
      <4>2. QED
        BY <3>1, <4>1, <1>1, <1>5, <1>6
    <3>4. QED
      BY <3>2, <3>3
  <2>2. ASSUME NEW v \in Worker, pc'[v] \in {"confirm", "wait", "accrue", "waitSave"}
        PROVE  obj'[v].txHash = row'[obj'[v].id].txHash
    <3>1. v # w /\ pc[v] # "idle" /\ pc[v] = pc'[v] /\ obj'[v] = obj[v]
      BY <2>2, <1>5
    <3>2. obj[v].id \in Row /\ obj[v].id # r
      BY <3>1, <1>2, HolderIsAlone DEF Holds
    <3>3. QED
      BY <3>1, <3>2, <2>2, <1>5 DEF SerialInv, LiveInv
  <2>3. QED
    BY <2>1, <2>2, <1>1, <1>7 DEF LiveInv
<1>14. OutcomeInv'
  <2>1. \A v \in Worker :
            /\ pc'[v] = "accrue" => obj'[v].status = "settled"
            /\ pc'[v] = "waitSave" => obj'[v].status = "retrying"
            /\ pc'[v] \in {"accrue", "save"} /\ obj'[v].status = "settled" =>
                  /\ obj'[v].txHash # None /\ txState'[obj'[v].txHash] = "final"
                  /\ obj'[v].nextRetryAt = "null"
    BY <1>1, <1>5 DEF SerialInv, OutcomeInv
  <2>2. \A x \in Row : /\ settled'[x] > 0 => row'[x].status = "settled"
                       /\ row'[x].status = "settled" => row'[x].nextRetryAt = "null"
    BY <1>1, <1>2, <1>5 DEF SerialInv, OutcomeInv
  <2>3. ASSUME NEW v \in Worker, NEW x \in emitting'[v]
        PROVE  /\ row'[x].status = "settled" /\ settled'[x] = 0
               /\ \A u \in Worker : x \in emitting'[u] => u = v
    <3>1. x \in Row
      BY <1>3
    <3>2. CASE x = r
      BY <3>2, <1>1, <1>2, <1>3, <1>5
    <3>3. CASE x # r
      <4>1. \A u \in Worker : x \in emitting'[u] => x \in emitting[u]
        BY <3>3, <1>3
      <4>2. QED
        BY <3>1, <3>3, <4>1, <1>1, <1>5 DEF SerialInv, OutcomeInv
    <3>4. QED
      BY <3>2, <3>3
  <2>4. QED
    BY <2>1, <2>2, <2>3 DEF OutcomeInv
<1>15. SettledIsPaid'
  <2>1. row'[r].status = "settled" =>
            /\ row'[r].txHash \in Tx /\ txRow[row'[r].txHash] = r
            /\ txState[row'[r].txHash] = "final"
    BY <1>1, <1>2, <1>4, <1>5 DEF SerialInv, OutcomeInv, RefInv, Entity
  <2>2. QED
    BY <2>1, <1>1, <1>5 DEF SerialInv, SettledIsPaid
<1>16. FeeOncePaid' /\ AnnouncedOnce'
  BY <1>1, <1>3 DEF SerialInv, FeeOncePaid, AnnouncedOnce
<1>17. QED
  BY <1>8, <1>9, <1>10, <1>11, <1>12, <1>13, <1>14, <1>15, <1>16 DEF SerialInv

----------------------------------------------------------------------------
(* Workers lose their objects.                                             *)

\* A crash of an instance, or a failing last write: the workers of D forget
\* their objects, and none of them was the only one to know a hash.
Forgotten(D) ==
    /\ \A v \in D : pc[v] \in {"persist", "save"} =>
            obj[v].txHash = row[obj[v].id].txHash
    /\ pc' = [v \in Worker |-> IF v \in D THEN "idle" ELSE pc[v]]
    /\ obj' = [v \in Worker |-> IF v \in D THEN None ELSE obj[v]]
    /\ due' = [v \in Worker |-> IF v \in D THEN {} ELSE due[v]]
    /\ emitting' \in [Worker -> SUBSET Row]
    /\ \A v \in Worker : emitting'[v] \subseteq emitting[v]
    /\ UNCHANGED <<row, txState, txRow, fees, settled, paused>>
    /\ hiccups' \in 0..MaxHiccups

\* Losing the objects of any set of workers keeps the invariant, if no hash is lost.
LEMMA ForgetKeepsInv ==
    ASSUME SerialInv, NEW D \in SUBSET Worker, Forgotten(D)
    PROVE  SerialInv'
<1>1. /\ \A v \in Worker : v \in D => pc'[v] = "idle" /\ obj'[v] = None /\ due'[v] = {}
      /\ \A v \in Worker : v \notin D => pc'[v] = pc[v] /\ obj'[v] = obj[v] /\ due'[v] = due[v]
      /\ \A v \in Worker : emitting'[v] \subseteq emitting[v]
      /\ UNCHANGED <<row, txState, txRow, fees, settled, paused>>
  BY DEF Forgotten
<1>2. \A v \in Worker, x \in Row : Holds(v, x)' <=> v \notin D /\ Holds(v, x)
  BY <1>1 DEF Holds
<1>3. \A t \in Tx : Live(t)' <=> Live(t)
  BY <1>1 DEF Live
<1>4. TypeOK'
  BY DEF Forgotten, SerialInv, TypeOK, PC
<1>5. DeskInv'
  BY <1>1 DEF SerialInv, DeskInv
<1>6. OwnerInv'
  BY <1>1, <1>2 DEF SerialInv, OwnerInv
<1>7. QueueInv'
  BY <1>1, <1>2 DEF SerialInv, QueueInv, TypeOK, Entity
<1>8. RefInv'
  BY <1>1 DEF SerialInv, RefInv
<1>9. LiveInv'
  <2>1. ASSUME NEW t \in Tx, Live(t)
        PROVE  /\ txRow[t] \in Row
               /\ \A v \in Worker : Holds(v, txRow[t])' => obj'[v].txHash = t /\ pc'[v] # "send"
               /\ (\A v \in Worker : ~Holds(v, txRow[t])') => row[txRow[t]].txHash = t
    <3>1. /\ txRow[t] \in Row
          /\ \A v \in Worker : Holds(v, txRow[t]) => obj[v].txHash = t /\ pc[v] # "send"
          /\ (\A v \in Worker : ~Holds(v, txRow[t])) => row[txRow[t]].txHash = t
      BY <2>1 DEF SerialInv, LiveInv
    <3>2. ASSUME NEW v \in D, Holds(v, txRow[t])
          PROVE  row[txRow[t]].txHash = t
      <4>1. pc[v] \in PC \ {"idle", "send"} /\ obj[v].id = txRow[t] /\ obj[v].txHash = t
        BY <3>1, <3>2 DEF Holds, SerialInv, TypeOK
      <4>2. obj[v].txHash = row[obj[v].id].txHash
        BY <4>1 DEF Forgotten, SerialInv, LiveInv, PC
      <4>3. QED
        BY <4>1, <4>2
    <3>3. QED
      BY <3>1, <3>2, <1>1, <1>2
  <2>2. \A v \in Worker : pc'[v] \in {"confirm", "wait", "accrue", "waitSave"} =>
            obj'[v].txHash = row[obj'[v].id].txHash
    BY <1>1 DEF SerialInv, LiveInv
  <2>3. QED
    BY <2>1, <2>2, <1>1, <1>3 DEF LiveInv
<1>10. OutcomeInv'
  BY <1>1 DEF SerialInv, OutcomeInv
<1>11. SettledIsPaid' /\ FeeOncePaid' /\ AnnouncedOnce'
  BY <1>1 DEF SerialInv, SettledIsPaid, FeeOncePaid, AnnouncedOnce
<1>12. QED
  BY <1>4, <1>5, <1>6, <1>7, <1>8, <1>9, <1>10, <1>11 DEF SerialInv

----------------------------------------------------------------------------
(* A transaction goes out.                                                 *)

\* A worker that may send broadcasts the unsent transaction t.
Broadcast(w, t) ==
    /\ pc[w] = "send" /\ t \in Tx /\ txState[t] = "unsent"
    /\ txState' = [txState EXCEPT ![t] = "mempool"]
    /\ txRow' = [txRow EXCEPT ![t] = obj[w].id]
    /\ obj' = [obj EXCEPT ![w] = [obj[w] EXCEPT !.txHash = t]]
    /\ pc' = [pc EXCEPT ![w] = "persist"]
    /\ UNCHANGED <<row, due, fees, emitting, settled, paused, hiccups>>

\* A broadcast is only made when no transaction of the settlement is live.
LEMMA BroadcastKeepsInv ==
    ASSUME SerialInv, NEW w \in Worker, NEW t, Broadcast(w, t)
    PROVE  SerialInv'
<1> DEFINE r == obj[w].id
           e == [obj[w] EXCEPT !.txHash = t]
<1>1. /\ pc[w] = "send" /\ t \in Tx /\ txState[t] = "unsent"
      /\ obj' = [obj EXCEPT ![w] = e] /\ pc' = [pc EXCEPT ![w] = "persist"]
      /\ UNCHANGED <<row, due, fees, emitting, settled, paused, hiccups>>
  BY DEF Broadcast
<1>2. /\ obj[w] \in Entity /\ r \in Row /\ Holds(w, r) /\ obj[w].status # "none"
      /\ \A v \in Worker : v # w => ~Holds(v, r)
  BY <1>1, HolderIsAlone
<1>3. /\ e \in Entity /\ e.id = r /\ e.txHash = t /\ e.status = obj[w].status
      /\ t # None
  BY <1>1, <1>2, SettlementAssumption DEF Entity, Tx
<1>4. obj[w].id = r
  OBVIOUS
<1> HIDE DEF r, e
<1>5. /\ obj'[w] = e /\ pc'[w] = "persist"
      /\ \A v \in Worker : v # w => pc'[v] = pc[v] /\ obj'[v] = obj[v]
      /\ txState'[t] = "mempool" /\ txRow'[t] = r
      /\ \A u \in Tx : u # t => txState'[u] = txState[u] /\ txRow'[u] = txRow[u]
  BY <1>1, <1>4 DEF Broadcast, SerialInv, TypeOK
<1>6. \A v \in Worker, x \in Row : Holds(v, x)' <=> Holds(v, x)
  BY <1>1, <1>3, <1>4, <1>5 DEF Holds
<1>7. TypeOK'
  BY <1>1, <1>2, <1>3, <1>4 DEF Broadcast, SerialInv, TypeOK, PC, TxState
<1>8. DeskInv'
  BY <1>1, <1>2, <1>3, <1>5 DEF SerialInv, DeskInv
<1>9. OwnerInv'
  <2>1. ASSUME NEW v \in Worker, NEW x \in Row, Holds(v, x)
        PROVE  pc'[v] \in BeforeOutcome => obj'[v].status = row'[x].status
    BY <2>1, <1>1, <1>3, <1>5 DEF SerialInv, OwnerInv, BeforeOutcome, Holds
  <2>2. QED
    BY <2>1, <1>1, <1>6 DEF SerialInv, OwnerInv
<1>10. QueueInv'
  BY <1>1, <1>6 DEF SerialInv, QueueInv, TypeOK, Entity
<1>11. RefInv'
  <2>1. ASSUME NEW x \in Row, row[x].txHash # None
        PROVE  txRow'[row[x].txHash] = x /\ txState'[row[x].txHash] # "unsent"
    <3>1. /\ row[x].txHash \in Tx
          /\ txRow[row[x].txHash] = x /\ txState[row[x].txHash] # "unsent"
      BY <2>1 DEF SerialInv, RefInv, TypeOK, Entity
    <3>2. QED
      BY <3>1, <1>1, <1>5
  <2>2. ASSUME NEW v \in Worker, pc'[v] # "idle", obj'[v].txHash # None
        PROVE  /\ txRow'[obj'[v].txHash] = obj'[v].id
               /\ txState'[obj'[v].txHash] # "unsent"
    <3>1. CASE v = w
      BY <3>1, <1>3, <1>5
    <3>2. CASE v # w
      <4>1. /\ obj'[v] = obj[v] /\ obj[v].txHash \in Tx
            /\ txRow[obj[v].txHash] = obj[v].id /\ txState[obj[v].txHash] # "unsent"
        BY <2>2, <3>2, <1>5 DEF SerialInv, RefInv, DeskInv, Entity
      <4>2. QED
        BY <4>1, <1>1, <1>5
    <3>3. QED
      BY <3>1, <3>2
  <2>3. \A v \in Worker : pc'[v] \in {"confirm", "persist", "wait", "accrue", "waitSave"} =>
            obj'[v].txHash # None
    BY <1>3, <1>5 DEF SerialInv, RefInv
  <2>4. QED
    BY <2>1, <2>2, <2>3, <1>1 DEF SerialInv, RefInv
<1>12. LiveInv'
  <2>1. ASSUME NEW u \in Tx, Live(u)'
        PROVE  /\ txRow'[u] \in Row
               /\ \A v \in Worker : Holds(v, txRow[u])' => obj'[v].txHash = u /\ pc'[v] # "send"
               /\ (\A v \in Worker : ~Holds(v, txRow[u])') => row'[txRow'[u]].txHash = u
    <3>1. CASE u = t
      <4>1. txRow'[u] = r
        BY <3>1, <1>5
      <4>2. \A v \in Worker : Holds(v, txRow[u])' <=> v = w
        BY <4>1, <1>2, <1>5, <1>6 DEF Holds
      <4>3. QED
        BY <3>1, <4>1, <4>2, <1>2, <1>3, <1>5
    <3>2. CASE u # t
      <4>1. Live(u) /\ txRow'[u] = txRow[u]
        BY <2>1, <3>2, <1>5 DEF Live
      <4>2. /\ txRow[u] \in Row
            /\ \A v \in Worker : Holds(v, txRow[u]) => obj[v].txHash = u /\ pc[v] # "send"
            /\ (\A v \in Worker : ~Holds(v, txRow[u])) => row[txRow[u]].txHash = u
        BY <4>1 DEF SerialInv, LiveInv
      <4>3. ~Holds(w, txRow[u])
        BY <4>2, <1>1
      <4>4. \A v \in Worker : Holds(v, txRow[u])' <=> Holds(v, txRow[u])
        BY <4>1, <4>2, <1>6 DEF Holds
      <4>5. QED
        BY <4>1, <4>2, <4>3, <4>4, <1>1, <1>5
    <3>3. QED
      BY <3>1, <3>2
  <2>2. \A v \in Worker : pc'[v] \in {"confirm", "wait", "accrue", "waitSave"} =>
            obj'[v].txHash = row'[obj'[v].id].txHash
    BY <1>1, <1>5 DEF SerialInv, LiveInv
  <2>3. QED
    BY <2>1, <2>2 DEF LiveInv
<1>13. OutcomeInv'
  <2>1. ASSUME NEW v \in Worker, pc'[v] \in {"accrue", "save"}, obj'[v].status = "settled"
        PROVE  /\ obj'[v].txHash # None /\ txState'[obj'[v].txHash] = "final"
               /\ obj'[v].nextRetryAt = "null"
    <3>1. v # w /\ pc[v] = pc'[v] /\ obj'[v] = obj[v]
      BY <2>1, <1>5
    <3>2. /\ obj[v].txHash \in Tx /\ obj[v].txHash # None /\ obj[v].nextRetryAt = "null"
          /\ txState[obj[v].txHash] = "final"
      BY <2>1, <3>1 DEF SerialInv, OutcomeInv, DeskInv, Entity
    <3>3. QED
      BY <3>1, <3>2, <1>1, <1>5
  <2>2. \A v \in Worker : /\ pc'[v] = "accrue" => obj'[v].status = "settled"
                          /\ pc'[v] = "waitSave" => obj'[v].status = "retrying"
    BY <1>5 DEF SerialInv, OutcomeInv
  <2>3. QED
    BY <2>1, <2>2, <1>1 DEF SerialInv, OutcomeInv
<1>14. \A u \in Tx : txState[u] = "final" => txState'[u] = "final" /\ txRow'[u] = txRow[u]
  BY <1>1, <1>5
<1>15. SettledIsPaid' /\ FeeOncePaid' /\ AnnouncedOnce'
  BY <1>1, <1>14 DEF SerialInv, SettledIsPaid, FeeOncePaid, AnnouncedOnce
<1>16. QED
  BY <1>7, <1>8, <1>9, <1>10, <1>11, <1>12, <1>13, <1>15 DEF SerialInv

\* send(), whether it fails or broadcasts, keeps the invariant.
LEMMA SendKeepsInv ==
    ASSUME SerialInv, Serial, NEW w \in Worker, send(w)
    PROVE  SerialInv'
<1>1. /\ pc[w] = "send"
      /\ UNCHANGED <<row, due, fees, emitting, settled, paused, hiccups>>
      /\ paused' \in BOOLEAN /\ hiccups' \in 0..MaxHiccups
  BY DEF send, dbVars, eventVars, envVars, SerialInv, TypeOK
<1>2. CASE (\E retryable \in BOOLEAN : Fail(w, obj[w], retryable)) /\ UNCHANGED chainVars
  BY <1>1, <1>2, FailKeepsInv DEF chainVars
<1>3. ASSUME NEW t \in Tx, \A u \in Tx : txState[u] = "unsent" <=> u >= t,
             txState' = [txState EXCEPT ![t] = "mempool"],
             txRow' = [txRow EXCEPT ![t] = obj[w].id],
             obj' = [obj EXCEPT ![w] = [@ EXCEPT !.txHash = t]],
             Goto(w, "persist")
      PROVE  SerialInv'
  <2>1. txState[t] = "unsent"
    BY <1>3 DEF Tx
  <2>2. Broadcast(w, t)
    BY <1>1, <1>3, <2>1 DEF Broadcast, Goto
  <2>3. QED
    BY <2>2, BroadcastKeepsInv
<1>4. QED
  BY <1>2, <1>3 DEF send, Serial

----------------------------------------------------------------------------
(* The last writes of an attempt, and crashes.                             *)

\* The last save of attempt(), successful or not, keeps the invariant.
LEMMA SaveOutcomeKeepsInv ==
    ASSUME SerialInv, Serial, NEW w \in Worker, saveOutcome(w)
    PROVE  SerialInv'
<1>1. /\ pc[w] = "save" /\ obj[w].id \in Row
      /\ pc' = [pc EXCEPT ![w] = "idle"] /\ obj' = [obj EXCEPT ![w] = None]
      /\ UNCHANGED <<fees, settled, txState, txRow, paused>>
  BY HolderIsAlone DEF saveOutcome, Finish, Goto, chainVars
<1>2. CASE /\ Save(obj[w])
           /\ emitting' = IF obj[w].status # "settled" THEN emitting
                          ELSE [emitting EXCEPT ![w] = @ \cup {obj[w].id}]
           /\ UNCHANGED <<due, hiccups>>
  <2>1. hiccups' \in 0..MaxHiccups
    BY <1>2 DEF SerialInv, TypeOK
  <2>2. SavedAndDone(w)
    BY <1>1, <1>2, <2>1 DEF SavedAndDone, Save
  <2>3. QED
    BY <2>2, SaveKeepsInv
<1>3. CASE /\ Hiccup /\ Save(obj[w])
           /\ due' = [due EXCEPT ![w] = {}]
           /\ UNCHANGED emitting
  <2>1. hiccups' \in 0..MaxHiccups
    BY <1>3, SettlementAssumption DEF Hiccup, SerialInv, TypeOK
  <2>2. SavedAndDone(w)
    BY <1>1, <1>3, <2>1 DEF SavedAndDone, Save
  <2>3. QED
    BY <2>2, SaveKeepsInv
<1>4. CASE /\ Hiccup /\ UNCHANGED row /\ HashKept(w)
           /\ due' = [due EXCEPT ![w] = {}]
           /\ UNCHANGED emitting
  <2>1. hiccups' \in 0..MaxHiccups
    BY <1>4, SettlementAssumption DEF Hiccup, SerialInv, TypeOK
  <2>2. obj[w].txHash = row[obj[w].id].txHash
    BY <1>1, <1>4 DEF HashKept, Serial
  <2>3. /\ pc' = [v \in Worker |-> IF v \in {w} THEN "idle" ELSE pc[v]]
        /\ obj' = [v \in Worker |-> IF v \in {w} THEN None ELSE obj[v]]
        /\ due' = [v \in Worker |-> IF v \in {w} THEN {} ELSE due[v]]
        /\ emitting' \in [Worker -> SUBSET Row]
    BY <1>1, <1>4 DEF SerialInv, TypeOK
  <2>4. Forgotten({w})
    BY <1>1, <1>4, <2>1, <2>2, <2>3 DEF Forgotten
  <2>5. QED
    BY <2>4, ForgetKeepsInv
<1>5. QED
  BY <1>2, <1>3, <1>4 DEF saveOutcome

\* The fan-out of an event, successful or not, keeps the invariant.
LEMMA EmitKeepsInv ==
    ASSUME SerialInv, NEW w \in Worker, NEW r \in Row, emitOutcome(w, r)
    PROVE  SerialInv'
<1>1. /\ r \in emitting[w] /\ emitting' = [emitting EXCEPT ![w] = @ \ {r}]
      /\ settled' = settled \/ settled' = [settled EXCEPT ![r] = IF @ = 0 THEN 1 ELSE 2]
      /\ UNCHANGED <<row, pc, obj, due, fees, txState, txRow, paused>>
  BY DEF emitOutcome, workVars, chainVars
<1>2. hiccups' \in 0..MaxHiccups
  BY SettlementAssumption DEF emitOutcome, Hiccup, SerialInv, TypeOK
<1>3. /\ row[r].status = "settled" /\ settled[r] = 0
      /\ \A v \in Worker : r \in emitting[v] => v = w
  BY <1>1 DEF SerialInv, OutcomeInv
<1>4. /\ settled' \in [Row -> 0..2] /\ settled'[r] <= 1
      /\ \A x \in Row : x # r => settled'[x] = settled[x]
      /\ emitting' \in [Worker -> SUBSET Row]
      /\ \A v \in Worker : emitting'[v] \subseteq emitting[v] /\ r \notin emitting'[v]
  BY <1>1, <1>3 DEF SerialInv, TypeOK
<1>5. TypeOK'
  BY <1>1, <1>2, <1>4 DEF SerialInv, TypeOK
<1>6. DeskInv' /\ OwnerInv' /\ QueueInv' /\ RefInv' /\ LiveInv'
  BY <1>1 DEF SerialInv, DeskInv, OwnerInv, QueueInv, RefInv, LiveInv, Holds, Live
<1>7. OutcomeInv'
  BY <1>1, <1>3, <1>4 DEF SerialInv, OutcomeInv
<1>8. SettledIsPaid' /\ FeeOncePaid'
  BY <1>1 DEF SerialInv, SettledIsPaid, FeeOncePaid
<1>9. AnnouncedOnce'
  BY <1>4 DEF SerialInv, AnnouncedOnce
<1>10. QED
  BY <1>5, <1>6, <1>7, <1>8, <1>9 DEF SerialInv

\* The save of a settlement whose transaction is pending keeps the invariant.
LEMMA SaveWaitingKeepsInv ==
    ASSUME SerialInv, Serial, NEW w \in Worker, saveWaiting(w)
    PROVE  SerialInv'
<1>1. /\ pc[w] = "waitSave"
      /\ UNCHANGED <<due, fees, emitting, settled, txState, txRow, paused>>
  BY DEF saveWaiting, eventVars, chainVars
<1>2. CASE Save(obj[w]) /\ Finish(w) /\ UNCHANGED hiccups
  <2>1. SavedAndDone(w)
    BY <1>1, <1>2 DEF SavedAndDone, Save, Finish, Goto, SerialInv, TypeOK
  <2>2. QED
    BY <2>1, SaveKeepsInv
<1>3. CASE Hiccup /\ Fail(w, obj[w], TRUE) /\ UNCHANGED row
  <2>1. hiccups' \in 0..MaxHiccups /\ paused' \in BOOLEAN
    BY <1>1, <1>3, SettlementAssumption DEF Hiccup, SerialInv, TypeOK
  <2>2. QED
    BY <1>1, <1>3, <2>1, FailKeepsInv
<1>4. QED
  BY <1>2, <1>3 DEF saveWaiting, Serial

\* The crash of a process keeps the invariant.
LEMMA CrashKeepsInv ==
    ASSUME SerialInv, Serial, NEW i \in Instance, Crash(i)
    PROVE  SerialInv'
<1> DEFINE dead == {w \in Worker : Home[w] = i}
<1>1. hiccups' \in 0..MaxHiccups
  BY SettlementAssumption DEF Crash, Hiccup, SerialInv, TypeOK
<1>2. \A v \in dead : pc[v] \in {"persist", "save"} =>
            obj[v].txHash = row[obj[v].id].txHash
  BY DEF Crash, HashKept, Serial
<1>3. Forgotten(dead)
  <2>1. /\ emitting' \in [Worker -> SUBSET Row]
        /\ \A v \in Worker : emitting'[v] \subseteq emitting[v]
    BY DEF Crash, SerialInv, TypeOK
  <2>2. QED
    BY <1>1, <1>2, <2>1 DEF Crash, Forgotten, chainVars
<1>4. dead \in SUBSET Worker
  OBVIOUS
<1> HIDE DEF dead
<1>5. QED
  BY <1>3, <1>4, ForgetKeepsInv

----------------------------------------------------------------------------
(* A worker takes up a settlement.                                         *)

\* An idle worker gets the object e of a row nobody holds or has queued.
Started(w, e) ==
    /\ pc[w] = "idle" /\ e \in Entity /\ e.attempts > 0
    /\ e.status \in IF w \in Loop THEN {"retrying"}
                    ELSE {"pending", "dead_letter", "rejected"}
    /\ \A v \in Worker : ~Holds(v, e.id)
    /\ due' \in [Worker -> SUBSET Entity]
    /\ \A v \in Worker : due'[v] \subseteq due[v] /\ \A d \in due'[v] : d.id # e.id
    /\ row' \in [Row -> Entity]
    /\ \A x \in Row : x # e.id => row'[x] = row[x]
    /\ row'[e.id].id = e.id /\ row'[e.id].status = e.status
    /\ row'[e.id].txHash = e.txHash /\ row[e.id].txHash = e.txHash
    /\ row[e.id].status # "settled"
    /\ pc' = [pc EXCEPT ![w] = IF e.txHash = None THEN "send" ELSE "confirm"]
    /\ obj' = [obj EXCEPT ![w] = e]
    /\ UNCHANGED <<txState, txRow, fees, emitting, settled, paused, hiccups>>

\* A worker that takes up a settlement nobody holds keeps the invariant.
LEMMA StartKeepsInv ==
    ASSUME SerialInv, NEW w \in Worker, NEW e, Started(w, e)
    PROVE  SerialInv'
<1> DEFINE r == e.id
<1>1. /\ r \in Row /\ e.status # "none" /\ e.status # "settled"
      /\ row'[r].status = e.status /\ row'[r].txHash = e.txHash /\ row'[r].id = r
      /\ row[r].txHash = e.txHash
      /\ \A x \in Row : x # r => row'[x] = row[x]
      /\ \A v \in Worker : ~Holds(v, r)
      /\ \A v \in Worker : due'[v] \subseteq due[v] /\ \A d \in due'[v] : d.id # r
      /\ UNCHANGED <<txState, txRow, fees, emitting, settled, paused, hiccups>>
      /\ settled[r] = 0
      /\ \A v \in Worker : r \notin emitting[v]
  <2>1. row[r].status # "settled" /\ r \in Row
    BY DEF Started, Entity
  <2>2. ~(settled[r] > 0)
    <3>1. \A x \in Row : settled[x] > 0 => row[x].status = "settled"
      BY DEF SerialInv, OutcomeInv
    <3>2. QED
      BY <2>1, <3>1
  <2>3. settled[r] \in 0..2
    BY <2>1 DEF SerialInv, TypeOK
  <2>4. \A v \in Worker : r \notin emitting[v]
    BY <2>1 DEF SerialInv, OutcomeInv
  <2>5. QED
    BY <2>1, <2>2, <2>3, <2>4 DEF Started
<1>2. /\ pc'[w] \in {"send", "confirm"} /\ obj'[w] = e /\ pc[w] = "idle"
      /\ e.txHash = None <=> pc'[w] = "send"
      /\ \A v \in Worker : v # w => pc'[v] = pc[v] /\ obj'[v] = obj[v]
  BY DEF Started, SerialInv, TypeOK
<1>3. e \in Entity /\ e.attempts > 0 /\ e.id = r
  BY DEF Started
<1> HIDE DEF r
<1>4. /\ \A v \in Worker, x \in Row : x # r => (Holds(v, x)' <=> Holds(v, x))
      /\ \A v \in Worker : Holds(v, r)' <=> v = w
  BY <1>1, <1>2, <1>3 DEF Holds
<1>5. \A t \in Tx : Live(t)' <=> Live(t)
  BY <1>1 DEF Live
<1>6. TypeOK'
  BY <1>1, <1>2, <1>3 DEF Started, SerialInv, TypeOK, PC
<1>7. DeskInv'
  BY <1>1, <1>2, <1>3 DEF SerialInv, DeskInv
<1>8. OwnerInv'
  <2>1. ASSUME NEW v \in Worker, NEW x \in Row, Holds(v, x)'
        PROVE  /\ \A u \in Worker : Holds(u, x)' => u = v
               /\ row'[x].status \in IF v \in Loop THEN {"retrying"}
                                     ELSE {"pending", "dead_letter", "rejected"}
               /\ pc'[v] \in BeforeOutcome => obj'[v].status = row'[x].status
    <3>1. CASE x = r
      BY <2>1, <3>1, <1>1, <1>2, <1>4 DEF Started
    <3>2. CASE x # r
      <4>1. v # w /\ Holds(v, x) /\ row'[x] = row[x]
        BY <2>1, <3>2, <1>1, <1>2, <1>4 DEF Holds
      <4>2. QED
        BY <4>1, <3>2, <1>2, <1>4 DEF SerialInv, OwnerInv
    <3>3. QED
      BY <3>1, <3>2
  <2>2. QED
    BY <2>1 DEF OwnerInv
<1>9. QueueInv'
  <2>1. ASSUME NEW v \in Worker, NEW d \in due'[v]
        PROVE  /\ d = row'[d.id] /\ d.status = "retrying" /\ d.nextRetryAt = "due"
               /\ \A u \in Worker : ~Holds(u, d.id)'
    <3>1. d \in due[v] /\ d.id # r /\ d.id \in Row
      BY <1>1 DEF SerialInv, TypeOK, Entity
    <3>2. QED
      BY <3>1, <1>1, <1>4 DEF SerialInv, QueueInv
  <2>2. QED
    BY <2>1 DEF QueueInv
<1>10. RefInv'
  BY <1>1, <1>2, <1>3 DEF SerialInv, RefInv
<1>11. LiveInv'
  <2>1. ASSUME NEW t \in Tx, Live(t)
        PROVE  /\ txRow[t] \in Row
               /\ \A v \in Worker : Holds(v, txRow[t])' => obj'[v].txHash = t /\ pc'[v] # "send"
               /\ (\A v \in Worker : ~Holds(v, txRow[t])') => row'[txRow[t]].txHash = t
    <3>1. /\ txRow[t] \in Row
          /\ \A v \in Worker : Holds(v, txRow[t]) => obj[v].txHash = t /\ pc[v] # "send"
          /\ (\A v \in Worker : ~Holds(v, txRow[t])) => row[txRow[t]].txHash = t
      BY <2>1 DEF SerialInv, LiveInv
    <3>2. CASE txRow[t] = r
      <4>1. e.txHash = t /\ t # None
        BY <3>1, <3>2, <1>1, SettlementAssumption DEF Tx
      <4>2. QED
        BY <3>1, <3>2, <4>1, <1>1, <1>2, <1>4
    <3>3. CASE txRow[t] # r
      <4>1. /\ \A v \in Worker : Holds(v, txRow[t])' <=> Holds(v, txRow[t])
            /\ row'[txRow[t]] = row[txRow[t]]
            /\ ~Holds(w, txRow[t])
        BY <3>1, <3>3, <1>1, <1>2, <1>4 DEF Holds
      <4>2. QED
        BY <3>1, <4>1, <1>2
    <3>4. QED
      BY <3>2, <3>3
  <2>2. ASSUME NEW v \in Worker, pc'[v] \in {"confirm", "wait", "accrue", "waitSave"}
        PROVE  obj'[v].txHash = row'[obj'[v].id].txHash
    <3>1. CASE v = w
      BY <3>1, <1>1, <1>2, <1>3
    <3>2. CASE v # w
      <4>1. pc[v] # "idle" /\ pc[v] = pc'[v] /\ obj'[v] = obj[v]
        BY <2>2, <3>2, <1>2
      <4>2. obj[v].id \in Row /\ obj[v].id # r
        BY <4>1, <1>1, HolderIsAlone DEF Holds
      <4>3. QED
        BY <4>1, <4>2, <2>2, <1>1 DEF SerialInv, LiveInv
    <3>3. QED
      BY <3>1, <3>2
  <2>3. QED
    BY <2>1, <2>2, <1>1, <1>5 DEF LiveInv
<1>12. OutcomeInv'
  <2>1. \A v \in Worker : \A x \in emitting[v] : x \in Row /\ x # r
    BY <1>1 DEF SerialInv, TypeOK
  <2>2. \A v \in Worker : \A x \in emitting'[v] :
            /\ row'[x].status = "settled" /\ settled'[x] = 0
            /\ \A u \in Worker : x \in emitting'[u] => u = v
    BY <2>1, <1>1 DEF SerialInv, OutcomeInv
  <2>3. \A x \in Row : /\ settled'[x] > 0 => row'[x].status = "settled"
                       /\ row'[x].status = "settled" => row'[x].nextRetryAt = "null"
    BY <1>1 DEF SerialInv, OutcomeInv
  <2>4. QED
    BY <2>2, <2>3, <1>1, <1>2 DEF SerialInv, OutcomeInv
<1>13. SettledIsPaid' /\ FeeOncePaid' /\ AnnouncedOnce'
  BY <1>1 DEF SerialInv, SettledIsPaid, FeeOncePaid, AnnouncedOnce
<1>14. QED
  BY <1>6, <1>7, <1>8, <1>9, <1>10, <1>11, <1>12, <1>13 DEF SerialInv

\* settleBatch() on a new row keeps the invariant.
LEMMA SettleBatchKeepsInv ==
    ASSUME SerialInv, NEW w \in Worker, NEW r \in Row, settleBatch(w, r)
    PROVE  SerialInv'
<1> DEFINE s == [Blank(r) EXCEPT !.status = "pending"]
           e == [s EXCEPT !.attempts = s.attempts + 1]
<1>1. /\ s \in Entity /\ s.id = r /\ s.status = "pending" /\ s.txHash = None
      /\ e \in Entity /\ e.id = r /\ e.status = "pending" /\ e.txHash = None /\ e.attempts > 0
  <2>1. s \in Entity /\ s.id = r /\ s.status = "pending" /\ s.txHash = None
    BY DEF Blank, Entity, SettlementStatus
  <2> HIDE DEF s
  <2>2. QED
    BY <2>1 DEF Entity
<1>2. /\ w \notin Loop /\ pc[w] = "idle" /\ row[r].status = "none"
      /\ row' = [row EXCEPT ![r] = s]
      /\ obj' = [obj EXCEPT ![w] = e]
      /\ pc' = [pc EXCEPT ![w] = IF s.txHash = None THEN "send" ELSE "confirm"]
      /\ UNCHANGED <<due, txState, txRow, fees, emitting, settled, paused, hiccups>>
  BY DEF settleBatch, BeginAttempt, Goto, eventVars, chainVars, envVars
<1> HIDE DEF s, e
<1>3. row[r].txHash = None /\ \A v \in Worker : ~Holds(v, r)
  BY <1>2 DEF SerialInv, RefInv, OwnerInv
<1>4. \A v \in Worker : \A d \in due[v] : d.id # r
  BY <1>2 DEF SerialInv, QueueInv
<1>5. Started(w, e)
  BY <1>1, <1>2, <1>3, <1>4 DEF Started, SerialInv, TypeOK
<1>6. QED
  BY <1>5, StartKeepsInv

\* replay() keeps the invariant when nobody else holds the settlement.
LEMMA ReplayKeepsInv ==
    ASSUME SerialInv, Serial, NEW w \in Worker, NEW r \in Row, MayReplay(r),
           replay(w, r)
    PROVE  SerialInv'
<1> DEFINE s == [row[r] EXCEPT !.attempts = 0]
           e == [s EXCEPT !.attempts = s.attempts + 1]
<1>1. row[r] \in Entity /\ row[r].id = r
  BY DEF SerialInv, TypeOK, RefInv
<1>2. /\ s.txHash = row[r].txHash
      /\ e \in Entity /\ e.id = r /\ e.status = row[r].status /\ e.txHash = row[r].txHash
      /\ e.attempts > 0
  <2>1. s \in Entity /\ s.id = r /\ s.status = row[r].status /\ s.txHash = row[r].txHash
    BY <1>1 DEF Entity
  <2> HIDE DEF s
  <2>2. QED
    BY <2>1 DEF Entity
<1>3. /\ w \notin Loop /\ pc[w] = "idle" /\ row[r].status \in {"dead_letter", "rejected"}
      /\ ~Busy(r)
      /\ obj' = [obj EXCEPT ![w] = e]
      /\ pc' = [pc EXCEPT ![w] = IF s.txHash = None THEN "send" ELSE "confirm"]
      /\ UNCHANGED <<row, due, txState, txRow, fees, emitting, settled, paused, hiccups>>
  BY DEF MayReplay, replay, Serial, BeginAttempt, Goto, dbVars, eventVars, chainVars, envVars
<1> HIDE DEF s, e
<1>4. /\ \A v \in Worker : ~Holds(v, r)
      /\ \A v \in Worker : \A d \in due[v] : d.id # r
  BY <1>3 DEF Busy, Holds
<1>5. Started(w, e)
  BY <1>1, <1>2, <1>3, <1>4 DEF Started, SerialInv, TypeOK
<1>6. QED
  BY <1>5, StartKeepsInv

\* The loop over the due rows takes up objects that still agree with their rows.
LEMMA AttemptNextKeepsInv ==
    ASSUME SerialInv, Serial, NEW w \in Worker, attemptNext(w)
    PROVE  SerialInv'
<1>1. PICK q \in due[w] : /\ due' = [due EXCEPT ![w] = @ \ {q}]
                          /\ BeginAttempt(w, q)
  BY DEF attemptNext
<1> DEFINE e == [q EXCEPT !.attempts = q.attempts + 1]
<1>2. /\ q \in Entity /\ q.id \in Row /\ q = row[q.id] /\ q.status = "retrying"
      /\ \A v \in Worker : ~Holds(v, q.id)
  BY <1>1 DEF SerialInv, TypeOK, QueueInv, Entity
<1>3. /\ e \in Entity /\ e.id = q.id /\ e.status = q.status /\ e.txHash = q.txHash
      /\ e.attempts > 0
  BY <1>2 DEF Entity
<1>4. /\ w \in Loop /\ pc[w] = "idle"
      /\ obj' = [obj EXCEPT ![w] = e]
      /\ pc' = [pc EXCEPT ![w] = IF q.txHash = None THEN "send" ELSE "confirm"]
      /\ UNCHANGED <<row, txState, txRow, fees, emitting, settled, paused, hiccups>>
  BY <1>1 DEF attemptNext, BeginAttempt, Goto, dbVars, eventVars, chainVars, envVars
<1> HIDE DEF e
<1>5. /\ due' \in [Worker -> SUBSET Entity]
      /\ \A v \in Worker : due'[v] \subseteq due[v]
      /\ due'[w] = due[w] \ {q}
  BY <1>1 DEF SerialInv, TypeOK
<1>6. ASSUME NEW v \in Worker, NEW d \in due'[v] PROVE d.id # q.id
  <2>1. d \in due[v] /\ d = row[d.id]
    BY <1>5 DEF SerialInv, QueueInv
  <2>2. v = w
    BY <2>1, <1>4 DEF SerialInv, DeskInv, Serial
  <2>3. d # q
    BY <2>2, <1>5
  <2>4. QED
    BY <2>1, <2>3, <1>2
<1>7. Started(w, e)
  <2>1. row \in [Row -> Entity]
    BY DEF SerialInv, TypeOK
  <2>2. QED
    BY <2>1, <1>2, <1>3, <1>4, <1>5, <1>6 DEF Started
<1>8. QED
  BY <1>7, StartKeepsInv

\* The loop's query: a retrying row belongs to nobody but the loop itself.
LEMMA ProcessDueKeepsInv ==
    ASSUME SerialInv, Serial, NEW w \in Worker, processDue(w)
    PROVE  SerialInv'
<1>1. PICK S \in SUBSET DueRetries : due' = [due EXCEPT ![w] = {row[r] : r \in S}]
  BY DEF processDue
<1>2. /\ w \in Loop /\ pc[w] = "idle" /\ due[w] = {}
      /\ UNCHANGED <<row, pc, obj, txState, txRow, fees, emitting, settled, paused, hiccups>>
  BY DEF processDue, dbVars, eventVars, chainVars, envVars
<1>3. /\ due'[w] = {row[r] : r \in S}
      /\ \A v \in Worker : v # w => due'[v] = due[v]
  BY <1>1 DEF SerialInv, TypeOK
<1>4. \A d \in due'[w] : /\ d.id \in Row /\ d = row[d.id] /\ d \in Entity
                         /\ d.status = "retrying" /\ d.nextRetryAt = "due"
  <2>1. ASSUME NEW r \in S
        PROVE  /\ r \in Row /\ row[r].id = r /\ row[r] \in Entity
               /\ row[r].status = "retrying" /\ row[r].nextRetryAt = "due"
    BY DEF DueRetries, SerialInv, TypeOK, RefInv
  <2>2. QED
    BY <2>1, <1>3
<1>5. ASSUME NEW v \in Worker, NEW r \in Row, row[r].status = "retrying"
      PROVE  ~Holds(v, r)
  BY <1>2, <1>5 DEF SerialInv, OwnerInv, Serial, Holds
<1>6. TypeOK'
  BY <1>1, <1>2, <1>3, <1>4 DEF SerialInv, TypeOK
<1>7. DeskInv'
  BY <1>2, <1>3 DEF SerialInv, DeskInv
<1>8. QueueInv'
  <2>1. ASSUME NEW v \in Worker, NEW d \in due'[v]
        PROVE  /\ d = row[d.id] /\ d.status = "retrying" /\ d.nextRetryAt = "due"
               /\ \A u \in Worker : ~Holds(u, d.id)
    <3>1. CASE v = w
      BY <3>1, <1>4, <1>5
    <3>2. CASE v # w
      BY <3>2, <1>3 DEF SerialInv, QueueInv
    <3>3. QED
      BY <3>1, <3>2
  <2>2. QED
    BY <2>1, <1>2 DEF QueueInv, Holds
<1>9. OwnerInv' /\ RefInv' /\ LiveInv'
  BY <1>2 DEF SerialInv, OwnerInv, RefInv, LiveInv, Holds, Live
<1>10. OutcomeInv' /\ SettledIsPaid' /\ FeeOncePaid' /\ AnnouncedOnce'
  BY <1>2 DEF SerialInv, OutcomeInv, SettledIsPaid, FeeOncePaid, AnnouncedOnce
<1>11. QED
  BY <1>6, <1>7, <1>8, <1>9, <1>10 DEF SerialInv

----------------------------------------------------------------------------
(* The environment.                                                        *)

\* The clock passing nextRetryAt keeps the invariant.
LEMMA BecomeDueKeepsInv ==
    ASSUME SerialInv, NEW r \in Row, BecomeDue(r)
    PROVE  SerialInv'
<1> DEFINE e == [row[r] EXCEPT !.nextRetryAt = "due"]
<1>1. /\ row[r].nextRetryAt = "later" /\ row' = [row EXCEPT ![r] = e]
      /\ UNCHANGED <<pc, obj, due, txState, txRow, fees, emitting, settled, paused, hiccups>>
  BY DEF BecomeDue, workVars, eventVars, chainVars, envVars
<1>2. row[r] \in Entity /\ row[r].id = r
  BY DEF SerialInv, TypeOK, RefInv
<1>3. /\ e \in Entity /\ e.id = r /\ e.status = row[r].status /\ e.txHash = row[r].txHash
  BY <1>2 DEF Entity
<1>4. row[r].status # "settled" /\ \A w \in Worker : \A d \in due[w] : d.id # r
  BY <1>1 DEF SerialInv, OutcomeInv, QueueInv
<1> HIDE DEF e
<1>5. row'[r] = e /\ \A x \in Row : x # r => row'[x] = row[x]
  BY <1>1 DEF SerialInv, TypeOK
<1>6. \A x \in Row : /\ row'[x].id = row[x].id /\ row'[x].status = row[x].status
                     /\ row'[x].txHash = row[x].txHash
  BY <1>2, <1>3, <1>5
<1>7. TypeOK' /\ DeskInv'
  BY <1>1, <1>3 DEF SerialInv, TypeOK, DeskInv
<1>8. OwnerInv'
  BY <1>1, <1>6 DEF SerialInv, OwnerInv, Holds
<1>9. QueueInv'
  BY <1>1, <1>4, <1>5 DEF SerialInv, QueueInv, TypeOK, Entity, Holds
<1>10. RefInv'
  BY <1>1, <1>6 DEF SerialInv, RefInv
<1>11. LiveInv'
  <2>1. \A t \in Tx : Live(t)' => Live(t)
    BY <1>1 DEF Live
  <2>2. \A w \in Worker : pc[w] # "idle" => obj[w].id \in Row
    BY HolderIsAlone
  <2>3. QED
    BY <2>1, <2>2, <1>1, <1>6 DEF SerialInv, LiveInv, Holds
<1>12. OutcomeInv'
  BY <1>1, <1>3, <1>4, <1>5 DEF SerialInv, OutcomeInv
<1>13. SettledIsPaid' /\ FeeOncePaid' /\ AnnouncedOnce'
  BY <1>1, <1>6 DEF SerialInv, SettledIsPaid, FeeOncePaid, AnnouncedOnce
<1>14. QED
  BY <1>7, <1>8, <1>9, <1>10, <1>11, <1>12, <1>13 DEF SerialInv

\* The chain moves a transaction that is neither unsent nor final, and makes
\* none live that was not.
LEMMA ChainKeepsInv ==
    ASSUME SerialInv, NEW t \in Tx, NEW from \in {"mempool", "mined"},
           NEW to \in TxState \ {"unsent"}, ChainMoves(t, from, to),
           hiccups' \in 0..MaxHiccups
    PROVE  SerialInv'
<1>1. /\ txState[t] = from /\ txState' = [txState EXCEPT ![t] = to]
      /\ UNCHANGED <<txRow, row, fees, emitting, settled, pc, obj, due, paused>>
  BY DEF ChainMoves, dbVars, eventVars, workVars
<1>2. \A u \in Tx : /\ Live(u)' => Live(u)
                    /\ txState[u] = "final" => txState'[u] = "final"
                    /\ txState[u] # "unsent" => txState'[u] # "unsent"
  BY <1>1 DEF SerialInv, TypeOK, Live
<1>3. TypeOK' /\ DeskInv'
  BY <1>1 DEF SerialInv, TypeOK, DeskInv
<1>4. OwnerInv' /\ QueueInv'
  BY <1>1 DEF SerialInv, OwnerInv, QueueInv, Holds
<1>5. /\ \A x \in Row : row[x].txHash \in Tx \cup {None}
      /\ \A w \in Worker : pc[w] # "idle" => obj[w].txHash \in Tx \cup {None}
  BY DEF SerialInv, TypeOK, DeskInv, Entity
<1>6. RefInv'
  BY <1>1, <1>2, <1>5 DEF SerialInv, RefInv
<1>7. LiveInv'
  BY <1>1, <1>2 DEF SerialInv, LiveInv, Holds
<1>8. OutcomeInv'
  BY <1>1, <1>2, <1>5 DEF SerialInv, OutcomeInv
<1>9. SettledIsPaid' /\ FeeOncePaid' /\ AnnouncedOnce'
  BY <1>1, <1>2 DEF SerialInv, SettledIsPaid, FeeOncePaid, AnnouncedOnce
<1>10. QED
  BY <1>3, <1>4, <1>6, <1>7, <1>8, <1>9 DEF SerialInv

\* Blocks and reorgs of the chain keep the invariant.
LEMMA ChainStepKeepsInv ==
    ASSUME SerialInv, Serial, NEW t \in Tx, ChainProgress(t) \/ Reorg(t)
    PROVE  SerialInv'
<1>1. hiccups' \in 0..MaxHiccups
  BY SettlementAssumption DEF ChainProgress, Reorg, Hiccup, SerialInv, TypeOK
<1>2. \E from \in {"mempool", "mined"}, to \in TxState \ {"unsent"} : ChainMoves(t, from, to)
  BY DEF ChainProgress, Reorg, Serial, TxState
<1>3. QED
  BY <1>1, <1>2, ChainKeepsInv

\* Pausing and resuming keeps the invariant.
LEMMA PauseKeepsInv ==
    ASSUME SerialInv, SetPause \/ UNCHANGED vars
    PROVE  SerialInv'
<1>1. UNCHANGED <<row, pc, obj, due, txState, txRow, fees, emitting, settled, hiccups>>
  BY DEF SetPause, vars, dbVars, eventVars, workVars, chainVars
<1>2. TypeOK'
  BY <1>1 DEF SetPause, vars, SerialInv, TypeOK
<1>3. DeskInv' /\ OwnerInv' /\ QueueInv' /\ RefInv' /\ LiveInv'
  BY <1>1 DEF SerialInv, DeskInv, OwnerInv, QueueInv, RefInv, LiveInv, Holds, Live
<1>4. OutcomeInv' /\ SettledIsPaid' /\ FeeOncePaid' /\ AnnouncedOnce'
  BY <1>1 DEF SerialInv, OutcomeInv, SettledIsPaid, FeeOncePaid, AnnouncedOnce
<1>5. QED
  BY <1>2, <1>3, <1>4 DEF SerialInv

----------------------------------------------------------------------------
(* The theorems.                                                           *)

\* The invariant holds when the service starts on an empty table.
LEMMA InitSerialInv == Init => SerialInv
<1> SUFFICES ASSUME Init PROVE SerialInv
  OBVIOUS
<1>1. \A r \in Row : /\ Blank(r) \in Entity /\ Blank(r).id = r
                     /\ Blank(r).status = "none" /\ Blank(r).txHash = None
  BY DEF Blank, Entity, SettlementStatus
<1>2. TypeOK
  <2>1. /\ row \in [Row -> Entity] /\ pc \in [Worker -> PC]
        /\ obj \in [Worker -> Entity \cup {None}] /\ due \in [Worker -> SUBSET Entity]
    BY <1>1 DEF Init, PC
  <2>2. /\ txState \in [Tx -> TxState] /\ txRow \in [Tx -> Row \cup {None}]
    BY DEF Init, TxState
  <2>3. fees \in [Row -> 0..2] /\ settled \in [Row -> 0..2]
    BY DEF Init
  <2>4. paused \in BOOLEAN /\ emitting \in [Worker -> SUBSET Row]
    BY DEF Init
  <2>5. hiccups \in 0..MaxHiccups
    BY SettlementAssumption DEF Init
  <2>6. QED
    BY <2>1, <2>2, <2>3, <2>4, <2>5 DEF TypeOK
<1>3. DeskInv /\ OwnerInv /\ QueueInv
  BY DEF Init, DeskInv, OwnerInv, QueueInv, Holds
<1>4. RefInv /\ LiveInv
  BY <1>1 DEF Init, RefInv, LiveInv, Holds, Live
<1>5. OutcomeInv /\ SettledIsPaid /\ FeeOncePaid /\ AnnouncedOnce
  BY <1>1 DEF Init, OutcomeInv, SettledIsPaid, FeeOncePaid, AnnouncedOnce
<1>6. QED
  BY <1>2, <1>3, <1>4, <1>5 DEF SerialInv

\* Every step of a serial rail keeps the invariant.
LEMMA NextKeepsSerialInv ==
    ASSUME Serial, SerialInv, [Next]_vars
    PROVE  SerialInv'
<1>1. ASSUME NEW w \in Worker, NEW r \in Row,
             settleBatch(w, r) \/ (MayReplay(r) /\ replay(w, r)) \/ emitOutcome(w, r)
      PROVE  SerialInv'
  BY <1>1, SettleBatchKeepsInv, ReplayKeepsInv, EmitKeepsInv
<1>2. ASSUME NEW w \in Worker, processDue(w) \/ attemptNext(w)
      PROVE  SerialInv'
  BY <1>2, ProcessDueKeepsInv, AttemptNextKeepsInv
<1>3. ASSUME NEW w \in Worker, AttemptStep(w)
      PROVE  SerialInv'
  BY <1>3, ConfirmKeepsInv, SendKeepsInv, PersistKeepsInv, WaitKeepsInv,
     AccrueKeepsInv, SaveOutcomeKeepsInv, SaveWaitingKeepsInv DEF AttemptStep
<1>4. ASSUME NEW i \in Instance, Crash(i) PROVE SerialInv'
  BY <1>4, CrashKeepsInv
<1>5. ASSUME NEW r \in Row, BecomeDue(r) PROVE SerialInv'
  BY <1>5, BecomeDueKeepsInv
<1>6. ASSUME NEW t \in Tx, ChainProgress(t) \/ Reorg(t) PROVE SerialInv'
  BY <1>6, ChainStepKeepsInv
<1>7. CASE SetPause \/ UNCHANGED vars
  BY <1>7, PauseKeepsInv
<1>8. QED
  BY <1>1, <1>2, <1>3, <1>4, <1>5, <1>6, <1>7 DEF Next

\* The inductive invariant holds in every serial deployment: what attempts,
\* retries, replays, crashes and the chain do keeps one worker per settlement.
THEOREM SettlementSerialInv ==
    ASSUME Serial
    PROVE  Spec => []SerialInv
<1>1. Init => SerialInv
  BY InitSerialInv
<1>2. SerialInv /\ [Next]_vars => SerialInv'
  BY NextKeepsSerialInv
<1>3. QED
  BY <1>1, <1>2, PTL DEF Spec

\* "A settlement is paid once" (docs/ADVANCED.md): the chain pays at most one
\* transaction per settlement that settlement.service.ts sent.
THEOREM SettlementPaidOnce ==
    ASSUME Serial
    PROVE  Spec => []PaidOnce
<1>1. SerialInv => PaidOnce
  BY SerialInvImplies
<1>2. QED
  BY <1>1, SettlementSerialInv, PTL

\* send() stores the hash before it waits: a transaction that may still pay is
\* always named by its row or by the object of the worker that pays the row.
THEOREM SettlementPaymentKnown ==
    ASSUME Serial
    PROVE  Spec => []PaymentKnown
<1>1. SerialInv => PaymentKnown
  BY SerialInvImplies
<1>2. QED
  BY <1>1, SettlementSerialInv, PTL

\* attempt() announces settlement.settled at most once for a settlement,
\* however often the attempt is repeated after a crash.
THEOREM SettlementAnnouncedOnce ==
    ASSUME Serial
    PROVE  Spec => []AnnouncedOnce
<1>1. SerialInv => AnnouncedOnce
  BY SerialInvImplies
<1>2. QED
  BY <1>1, SettlementSerialInv, PTL

----------------------------------------------------------------------------
(* Any deployment: several loops, and every fault.                         *)

\* A stored hash names a transaction that was sent for that settlement.
Sent(e, owner, state) ==
    e.txHash # None => owner[e.txHash] = e.id /\ state[e.txHash] # "unsent"

\* Settled is said of a final transaction only.
Proven(e, state) ==
    e.status = "settled" => e.txHash # None /\ state[e.txHash] = "final"

\* What a label of an attempt promises of its object.
Sound(label, e, owner, state) ==
    /\ e \in Entity /\ Sent(e, owner, state) /\ Proven(e, state)
    /\ label = "confirm" => e.attempts > 0
    /\ label \in {"confirm", "persist", "wait", "accrue", "waitSave"} => e.txHash # None
    /\ label = "accrue" => e.status = "settled"
    /\ label \notin {"accrue", "save"} => e.status # "settled"

\* Objects and rows may disagree here; each of them is sound by itself.
AnyInv ==
    /\ TypeOK
    /\ \A w \in Worker : pc[w] # "idle" => Sound(pc[w], obj[w], txRow, txState)
    /\ \A w \in Worker : \A e \in due[w] :
            Sent(e, txRow, txState) /\ e.status # "settled"
    /\ \A r \in Row : /\ row[r].id = r
                      /\ Sent(row[r], txRow, txState) /\ Proven(row[r], txState)
    /\ FeeOncePaid

\* The chain keeps what was sent and what is final.
ChainKept ==
    \A t \in Tx : txState[t] # "unsent" =>
        /\ txRow'[t] = txRow[t] /\ txState'[t] # "unsent"
        /\ txState[t] = "final" => txState'[t] = "final"

\* What is sound stays sound.
LEMMA SoundStays ==
    ASSUME TypeOK, ChainKept, NEW e \in Entity
    PROVE  /\ Sent(e, txRow, txState) => Sent(e, txRow', txState')
           /\ Sent(e, txRow, txState) /\ Proven(e, txState) => Proven(e, txState')
           /\ \A label \in PC :
                Sound(label, e, txRow, txState) => Sound(label, e, txRow', txState')
<1>1. e.txHash # None => e.txHash \in Tx
  BY DEF Entity
<1>2. Sent(e, txRow, txState) => Sent(e, txRow', txState')
  BY <1>1 DEF Sent, ChainKept
<1>3. Sent(e, txRow, txState) /\ Proven(e, txState) => Proven(e, txState')
  BY <1>1 DEF Sent, Proven, ChainKept
<1>4. QED
  BY <1>2, <1>3 DEF Sound

\* What a step leaves on the desks of the workers, in their queues, in the
\* table and in the ledger is what was there, or sound.
DesksSound ==
    /\ pc' \in [Worker -> PC] /\ obj' \in [Worker -> Entity \cup {None}]
    /\ \A w \in Worker : pc'[w] # "idle" =>
            \/ pc'[w] = pc[w] /\ obj'[w] = obj[w]
            \/ Sound(pc'[w], obj'[w], txRow', txState')

QueuesSound ==
    /\ due' \in [Worker -> SUBSET Entity]
    /\ \A w \in Worker : \A e \in due'[w] :
            e \in due[w] \/ \E r \in Row : e = row[r] /\ row[r].status # "settled"

RowsSound ==
    /\ row' \in [Row -> Entity]
    /\ \A r \in Row :
            \/ row'[r] = row[r]
            \/ /\ row'[r].id = r /\ Sent(row'[r], txRow', txState')
               /\ Proven(row'[r], txState')

FeesSound ==
    /\ fees' \in [Row -> 0..2]
    /\ \A r \in Row :
            \/ fees'[r] = fees[r]
            \/ fees'[r] = 1 /\ \E t \in Tx : txRow[t] = r /\ txState[t] = "final"

ChainSound ==
    txState' \in [Tx -> TxState] /\ txRow' \in [Tx -> Row \cup {None}] /\ ChainKept

RestTyped ==
    /\ emitting' \in [Worker -> SUBSET Row] /\ settled' \in [Row -> 0..2]
    /\ paused' \in BOOLEAN /\ hiccups' \in 0..MaxHiccups

\* A step keeps the invariant if what it writes is sound.
LEMMA SoundWritesKeepInv ==
    ASSUME AnyInv, DesksSound, QueuesSound, RowsSound, FeesSound, ChainSound, RestTyped
    PROVE  AnyInv'
<1>0. TypeOK' /\ ChainKept
  BY DEF TypeOK, DesksSound, QueuesSound, RowsSound, FeesSound, ChainSound, RestTyped
<1>1. ASSUME NEW w \in Worker, pc'[w] # "idle"
      PROVE  Sound(pc'[w], obj'[w], txRow', txState')
  <2>1. CASE pc'[w] = pc[w] /\ obj'[w] = obj[w]
    <3>1. pc[w] \in PC /\ Sound(pc[w], obj[w], txRow, txState)
      BY <1>1, <2>1 DEF AnyInv, TypeOK
    <3>2. obj[w] \in Entity
      BY <3>1 DEF Sound
    <3>3. QED
      BY <1>0, <2>1, <3>1, <3>2, SoundStays DEF AnyInv
  <2>2. QED
    BY <1>1, <2>1 DEF DesksSound
<1>2. ASSUME NEW w \in Worker, NEW e \in due'[w]
      PROVE  Sent(e, txRow', txState') /\ e.status # "settled"
  <2>1. e \in Entity /\ Sent(e, txRow, txState) /\ e.status # "settled"
    BY <1>2 DEF AnyInv, TypeOK, QueuesSound
  <2>2. QED
    BY <1>0, <2>1, SoundStays DEF AnyInv
<1>3. ASSUME NEW r \in Row
      PROVE  /\ row'[r].id = r
             /\ Sent(row'[r], txRow', txState') /\ Proven(row'[r], txState')
  <2>1. row[r] \in Entity /\ row[r].id = r
        /\ Sent(row[r], txRow, txState) /\ Proven(row[r], txState)
    BY DEF AnyInv, TypeOK
  <2>2. Sent(row[r], txRow', txState') /\ Proven(row[r], txState')
    BY <1>0, <2>1, SoundStays DEF AnyInv
  <2>3. QED
    BY <2>1, <2>2 DEF RowsSound
<1>4. ASSUME NEW r \in Row
      PROVE  /\ fees'[r] <= 1
             /\ fees'[r] = 1 => \E t \in Tx : txRow'[t] = r /\ txState'[t] = "final"
  <2>1. /\ fees'[r] <= 1
        /\ fees'[r] = 1 => \E t \in Tx : txRow[t] = r /\ txState[t] = "final"
    BY DEF AnyInv, FeeOncePaid, FeesSound
  <2>2. QED
    BY <1>0, <2>1 DEF ChainKept
<1>5. FeeOncePaid'
  BY <1>4 DEF FeeOncePaid
<1>6. QED
  BY <1>0, <1>1, <1>2, <1>3, <1>5 DEF AnyInv

\* What a step leaves alone is sound.
LEMMA UnchangedSound ==
    ASSUME AnyInv
    PROVE  /\ UNCHANGED <<pc, obj>> => DesksSound
           /\ UNCHANGED due => QueuesSound
           /\ UNCHANGED row => RowsSound
           /\ UNCHANGED fees => FeesSound
           /\ UNCHANGED chainVars => ChainSound
           /\ UNCHANGED <<emitting, settled, paused, hiccups>> => RestTyped
<1>1. UNCHANGED <<pc, obj>> => DesksSound
  BY DEF AnyInv, TypeOK, DesksSound
<1>2. UNCHANGED due => QueuesSound
  BY DEF AnyInv, TypeOK, QueuesSound
<1>3. (UNCHANGED row => RowsSound) /\ (UNCHANGED fees => FeesSound)
  BY DEF AnyInv, TypeOK, RowsSound, FeesSound
<1>4. UNCHANGED chainVars => ChainSound
  BY DEF AnyInv, TypeOK, ChainSound, ChainKept, chainVars
<1>5. UNCHANGED <<emitting, settled, paused, hiccups>> => RestTyped
  BY DEF AnyInv, TypeOK, RestTyped
<1>6. QED
  BY <1>1, <1>2, <1>3, <1>4, <1>5

\* A bounded fault keeps the types.
LEMMA HiccupTyped ==
    ASSUME AnyInv, Hiccup, UNCHANGED <<emitting, settled, paused>>
    PROVE  RestTyped
  BY SettlementAssumption DEF Hiccup, AnyInv, TypeOK, RestTyped

\* A worker that goes on with a sound object, or becomes idle.
LEMMA MoveSound ==
    ASSUME AnyInv, NEW w \in Worker, NEW label \in PC, NEW e \in Entity \cup {None},
           Goto(w, label), obj' = [obj EXCEPT ![w] = e],
           label # "idle" => Sound(label, e, txRow', txState')
    PROVE  DesksSound
  BY DEF Goto, AnyInv, TypeOK, DesksSound

\* The catch block of attempt() leaves a sound object.
LEMMA FailSound ==
    ASSUME AnyInv, NEW w \in Worker, NEW e \in Entity, Sent(e, txRow', txState'),
           NEW retryable, Fail(w, e, retryable)
    PROVE  DesksSound
<1> DEFINE status == IF ~retryable THEN "rejected"
                     ELSE IF e.attempts >= MaxAttempts THEN "dead_letter"
                     ELSE "retrying"
           f == [e EXCEPT !.status = status,
                          !.nextRetryAt = IF status = "retrying" THEN "later"
                                          ELSE "null"]
<1>1. Goto(w, "save") /\ obj' = [obj EXCEPT ![w] = f]
  BY DEF Fail
<1>2. status \in {"rejected", "dead_letter", "retrying"}
  OBVIOUS
<1> HIDE DEF status
<1>3. /\ f \in Entity /\ f.txHash = e.txHash /\ f.id = e.id /\ f.status = status
  BY <1>2 DEF Entity, SettlementStatus
<1> HIDE DEF f
<1>4. Sound("save", f, txRow', txState')
  BY <1>2, <1>3 DEF Sound, Sent, Proven
<1>5. QED
  BY <1>1, <1>3, <1>4, MoveSound DEF PC

\* attempt() begins with a sound object: the row it loaded or a new one.
LEMMA BeginSound ==
    ASSUME AnyInv, NEW w \in Worker, NEW e \in Entity, Sent(e, txRow', txState'),
           e.status # "settled", BeginAttempt(w, e)
    PROVE  DesksSound
<1> DEFINE f == [e EXCEPT !.attempts = @ + 1]
           label == IF e.txHash = None THEN "send" ELSE "confirm"
<1>1. Goto(w, label) /\ obj' = [obj EXCEPT ![w] = f]
  BY DEF BeginAttempt
<1>2. /\ f \in Entity /\ f.txHash = e.txHash /\ f.id = e.id
      /\ f.status = e.status /\ f.attempts > 0
  BY DEF Entity
<1>3. /\ label \in {"send", "confirm"} /\ (label = "confirm" => e.txHash # None)
  OBVIOUS
<1> HIDE DEF f, label
<1>4. Sound(label, f, txRow', txState')
  BY <1>2, <1>3 DEF Sound, Sent, Proven
<1>5. QED
  BY <1>1, <1>2, <1>3, <1>4, MoveSound DEF PC

\* An attempt over a transaction that is final.
LEMMA SucceedSound ==
    ASSUME AnyInv, NEW w \in Worker, pc[w] \in {"confirm", "wait"}, Succeed(w),
           txState[obj[w].txHash] = "final", UNCHANGED chainVars
    PROVE  DesksSound
<1> DEFINE f == [obj[w] EXCEPT !.status = "settled", !.nextRetryAt = "null"]
<1>1. Goto(w, "accrue") /\ obj' = [obj EXCEPT ![w] = f]
  BY DEF Succeed, AnyInv, TypeOK
<1>2. Sound(pc[w], obj[w], txRow, txState)
  BY DEF AnyInv
<1>3. /\ f \in Entity /\ f.txHash = obj[w].txHash /\ f.id = obj[w].id
      /\ f.status = "settled"
  BY <1>2 DEF Sound, Entity, SettlementStatus
<1> HIDE DEF f
<1>4. Sound("accrue", f, txRow', txState')
  BY <1>2, <1>3 DEF Sound, Sent, Proven, chainVars
<1>5. QED
  BY <1>1, <1>3, <1>4, MoveSound DEF PC

\* A save of a sound object.
LEMMA SaveSound ==
    ASSUME AnyInv, NEW w \in Worker, pc[w] # "idle", Save(obj[w]), UNCHANGED chainVars
    PROVE  RowsSound
<1>1. Sound(pc[w], obj[w], txRow, txState)
  BY DEF AnyInv
<1>2. obj[w] \in Entity /\ obj[w].id \in Row
  BY <1>1 DEF Sound, Entity
<1>3. QED
  BY <1>1, <1>2 DEF Save, Sound, AnyInv, TypeOK, RowsSound, chainVars

\* The first awaits of an attempt: request, replay and retry loop.
LEMMA StartKeepsAnyInv ==
    ASSUME AnyInv, NEW w \in Worker,
           \/ \E r \in Row : settleBatch(w, r) \/ replay(w, r)
           \/ processDue(w) \/ attemptNext(w)
    PROVE  AnyInv'
<1>1. ASSUME NEW r \in Row, settleBatch(w, r) PROVE AnyInv'
  <2> DEFINE saved == [Blank(r) EXCEPT !.status = "pending"]
  <2>1. /\ saved \in Entity /\ saved.txHash = None /\ saved.status = "pending"
        /\ saved.id = r
    BY DEF Blank, Entity, SettlementStatus
  <2>2. row' = [row EXCEPT ![r] = saved] /\ BeginAttempt(w, saved)
    BY <1>1 DEF settleBatch
  <2> HIDE DEF saved
  <2>3. RowsSound
    BY <2>1, <2>2 DEF AnyInv, TypeOK, RowsSound, Sent, Proven
  <2>4. DesksSound
    BY <2>1, <2>2, BeginSound DEF Sent
  <2>5. UNCHANGED <<due, chainVars, fees, emitting, settled, paused, hiccups>>
    BY <1>1 DEF settleBatch, eventVars, envVars
  <2>6. QED
    BY <2>3, <2>4, <2>5, UnchangedSound, SoundWritesKeepInv
<1>2. ASSUME NEW r \in Row, replay(w, r) PROVE AnyInv'
  <2> DEFINE e == [row[r] EXCEPT !.attempts = 0]
  <2>1. row[r] \in Entity /\ Sent(row[r], txRow, txState)
    BY DEF AnyInv, TypeOK
  <2>2. /\ e \in Entity /\ e.txHash = row[r].txHash /\ e.id = row[r].id
        /\ e.status = row[r].status
    BY <2>1 DEF Entity
  <2>3. BeginAttempt(w, e) /\ row[r].status # "settled"
    BY <1>2 DEF replay
  <2> HIDE DEF e
  <2>4. UNCHANGED <<row, due, chainVars, fees, emitting, settled, paused, hiccups>>
    BY <1>2 DEF replay, dbVars, eventVars, envVars
  <2>5. DesksSound
    BY <2>1, <2>2, <2>3, <2>4, BeginSound DEF Sent, chainVars
  <2>6. QED
    BY <2>4, <2>5, UnchangedSound, SoundWritesKeepInv
<1>3. CASE processDue(w)
  <2>1. PICK S \in SUBSET DueRetries : due' = [due EXCEPT ![w] = {row[r] : r \in S}]
    BY <1>3 DEF processDue
  <2>2. QueuesSound
    BY <2>1 DEF DueRetries, AnyInv, TypeOK, QueuesSound
  <2>3. UNCHANGED <<pc, obj, row, chainVars, fees, emitting, settled, paused, hiccups>>
    BY <1>3 DEF processDue, dbVars, eventVars, envVars
  <2>4. QED
    BY <2>2, <2>3, UnchangedSound, SoundWritesKeepInv
<1>4. CASE attemptNext(w)
  <2>1. PICK e \in due[w] : due' = [due EXCEPT ![w] = @ \ {e}] /\ BeginAttempt(w, e)
    BY <1>4 DEF attemptNext
  <2>2. UNCHANGED <<row, chainVars, fees, emitting, settled, paused, hiccups>>
    BY <1>4 DEF attemptNext, dbVars, eventVars, envVars
  <2>3. QueuesSound
    BY <2>1 DEF AnyInv, TypeOK, QueuesSound
  <2>4. e \in Entity /\ Sent(e, txRow, txState) /\ e.status # "settled"
    BY DEF AnyInv, TypeOK
  <2>5. DesksSound
    BY <2>1, <2>2, <2>4, BeginSound DEF chainVars
  <2>6. QED
    BY <2>2, <2>3, <2>5, UnchangedSound, SoundWritesKeepInv
<1>5. QED
  BY <1>1, <1>2, <1>3, <1>4

\* confirmEarlierTransaction() leaves a sound object on each of its branches.
LEMMA ConfirmKeepsAnyInv ==
    ASSUME AnyInv, NEW w \in Worker, confirmEarlierTransaction(w)
    PROVE  AnyInv'
<1>1. /\ pc[w] = "confirm"
      /\ UNCHANGED <<row, due, chainVars, fees, emitting, settled, paused, hiccups>>
  BY DEF confirmEarlierTransaction, dbVars, eventVars, envVars
<1>2. Sound("confirm", obj[w], txRow', txState')
  BY <1>1 DEF AnyInv, chainVars
<1>3. obj[w] \in Entity /\ Sent(obj[w], txRow', txState')
  BY <1>2 DEF Sound
<1>4. CASE txState[obj[w].txHash] = "final" /\ Succeed(w)
  BY <1>1, <1>4, SucceedSound, UnchangedSound, SoundWritesKeepInv
<1>5. ASSUME obj' = [obj EXCEPT ![w] = [obj[w] EXCEPT !.attempts = @ - 1,
                                                      !.status = "retrying",
                                                      !.nextRetryAt = "later"]],
             Goto(w, "waitSave")
      PROVE  AnyInv'
  <2> DEFINE f == [obj[w] EXCEPT !.attempts = @ - 1, !.status = "retrying",
                                 !.nextRetryAt = "later"]
  <2>1. obj[w].attempts \in Nat \ {0} /\ obj[w].attempts - 1 \in Nat
    BY <1>2 DEF Sound, Entity
  <2>2. /\ f \in Entity /\ f.txHash = obj[w].txHash /\ f.id = obj[w].id
        /\ f.status = "retrying"
    BY <1>3, <2>1 DEF Entity, SettlementStatus
  <2>3. obj' = [obj EXCEPT ![w] = f]
    BY <1>5
  <2> HIDE DEF f
  <2>4. Sound("waitSave", f, txRow', txState')
    BY <1>2, <2>2 DEF Sound, Sent, Proven
  <2>5. DesksSound
    BY <1>5, <2>2, <2>3, <2>4, MoveSound DEF PC
  <2>6. QED
    BY <1>1, <2>5, UnchangedSound, SoundWritesKeepInv
<1>6. ASSUME Goto(w, "send"), UNCHANGED obj PROVE AnyInv'
  <2>1. obj' = [obj EXCEPT ![w] = obj[w]]
    BY <1>6 DEF AnyInv, TypeOK
  <2>2. Sound("send", obj[w], txRow', txState')
    BY <1>2 DEF Sound
  <2>3. DesksSound
    BY <1>3, <1>6, <2>1, <2>2, MoveSound DEF PC
  <2>4. QED
    BY <1>1, <2>3, UnchangedSound, SoundWritesKeepInv
<1>7. CASE Fail(w, obj[w], TRUE)
  BY <1>1, <1>3, <1>7, FailSound, UnchangedSound, SoundWritesKeepInv
<1>8. QED
  BY <1>4, <1>5, <1>6, <1>7 DEF confirmEarlierTransaction

\* waitFor(): final, reverted, or an error.
LEMMA WaitKeepsAnyInv ==
    ASSUME AnyInv, NEW w \in Worker, waitFor(w)
    PROVE  AnyInv'
<1>1. /\ pc[w] = "wait"
      /\ UNCHANGED <<row, due, chainVars, fees, emitting, settled, paused, hiccups>>
  BY DEF waitFor, dbVars, eventVars, envVars
<1>2. obj[w] \in Entity /\ Sent(obj[w], txRow', txState')
  BY <1>1 DEF AnyInv, Sound, chainVars
<1>3. DesksSound
  BY <1>1, <1>2, SucceedSound, FailSound DEF waitFor
<1>4. QED
  BY <1>1, <1>3, UnchangedSound, SoundWritesKeepInv

\* send(): the new transaction is the next unsent one.
LEMMA SendKeepsAnyInv ==
    ASSUME AnyInv, NEW w \in Worker, send(w)
    PROVE  AnyInv'
<1>1. pc[w] = "send" /\ UNCHANGED <<row, due, fees, emitting, settled, paused, hiccups>>
  BY DEF send, dbVars, eventVars, envVars
<1>2. Sound("send", obj[w], txRow, txState)
  BY <1>1 DEF AnyInv
<1>3. obj[w] \in Entity /\ Sent(obj[w], txRow, txState) /\ obj[w].status # "settled"
  BY <1>2 DEF Sound
<1>4. ASSUME NEW retryable, Fail(w, obj[w], retryable), UNCHANGED chainVars
      PROVE  AnyInv'
  <2>1. Sent(obj[w], txRow', txState')
    BY <1>3, <1>4 DEF chainVars
  <2>2. DesksSound
    BY <1>3, <1>4, <2>1, FailSound
  <2>3. QED
    BY <1>1, <1>4, <2>2, UnchangedSound, SoundWritesKeepInv
<1>5. ASSUME NEW t \in Tx, txState[t] = "unsent",
             txState' = [txState EXCEPT ![t] = "mempool"],
             txRow' = [txRow EXCEPT ![t] = obj[w].id],
             \/ obj' = [obj EXCEPT ![w] = [@ EXCEPT !.txHash = t]] /\ Goto(w, "persist")
             \/ Fail(w, obj[w], TRUE)
      PROVE  AnyInv'
  <2>1. ChainSound
    BY <1>3, <1>5 DEF AnyInv, TypeOK, ChainSound, ChainKept, TxState, Entity
  <2>2. CASE Fail(w, obj[w], TRUE)
    <3>1. Sent(obj[w], txRow', txState')
      BY <1>3, <2>1, SoundStays DEF AnyInv, ChainSound
    <3>2. DesksSound
      BY <1>3, <2>2, <3>1, FailSound
    <3>3. QED
      BY <1>1, <2>1, <3>2, UnchangedSound, SoundWritesKeepInv
  <2>3. CASE obj' = [obj EXCEPT ![w] = [@ EXCEPT !.txHash = t]] /\ Goto(w, "persist")
    <3> DEFINE f == [obj[w] EXCEPT !.txHash = t]
    <3>1. /\ f \in Entity /\ f.txHash = t /\ f.id = obj[w].id
          /\ f.status = obj[w].status
      BY <1>3 DEF Entity
    <3>2. obj' = [obj EXCEPT ![w] = f]
      BY <2>3 DEF AnyInv, TypeOK
    <3> HIDE DEF f
    <3>3. txRow'[t] = f.id /\ txState'[t] = "mempool" /\ t # None
      BY <1>5, <3>1, SettlementAssumption DEF AnyInv, TypeOK, Tx
    <3>4. Sound("persist", f, txRow', txState')
      BY <1>3, <3>1, <3>3 DEF Sound, Sent, Proven
    <3>5. DesksSound
      BY <2>3, <3>1, <3>2, <3>4, MoveSound DEF PC
    <3>6. QED
      BY <1>1, <2>1, <3>5, UnchangedSound, SoundWritesKeepInv
  <2>4. QED
    BY <1>5, <2>2, <2>3
<1>6. CASE \E retryable \in BOOLEAN : Fail(w, obj[w], retryable) /\ UNCHANGED chainVars
  BY <1>4, <1>6
<1>7. CASE \E t \in Tx :
            /\ \A u \in Tx : txState[u] = "unsent" <=> u >= t
            /\ txState' = [txState EXCEPT ![t] = "mempool"]
            /\ txRow' = [txRow EXCEPT ![t] = obj[w].id]
            /\ \/ obj' = [obj EXCEPT ![w] = [@ EXCEPT !.txHash = t]] /\ Goto(w, "persist")
               \/ Fail(w, obj[w], TRUE)
  <2>1. PICK t \in Tx :
            /\ \A u \in Tx : txState[u] = "unsent" <=> u >= t
            /\ txState' = [txState EXCEPT ![t] = "mempool"]
            /\ txRow' = [txRow EXCEPT ![t] = obj[w].id]
            /\ \/ obj' = [obj EXCEPT ![w] = [@ EXCEPT !.txHash = t]] /\ Goto(w, "persist")
               \/ Fail(w, obj[w], TRUE)
    BY <1>7
  <2>2. t >= t
    BY SettlementAssumption DEF Tx
  <2>3. txState[t] = "unsent"
    BY <2>1, <2>2
  <2>4. QED
    BY <1>5, <2>1, <2>3
<1>8. QED
  BY <1>6, <1>7 DEF send

\* The writes of attempt(), and the ledger's.
LEMMA WriteKeepsAnyInv ==
    ASSUME AnyInv, NEW w \in Worker,
           persistHash(w) \/ accrueFee(w) \/ saveOutcome(w) \/ saveWaiting(w)
    PROVE  AnyInv'
<1>1. /\ pc[w] # "idle" /\ UNCHANGED <<chainVars, paused>>
  BY DEF persistHash, accrueFee, saveOutcome, saveWaiting, envVars
<1>2. Sound(pc[w], obj[w], txRow', txState')
  BY <1>1 DEF AnyInv, chainVars
<1>3. obj[w] \in Entity /\ Sent(obj[w], txRow', txState')
  BY <1>2 DEF Sound
<1>4. obj' = obj => obj' = [obj EXCEPT ![w] = obj[w]]
  BY DEF AnyInv, TypeOK
<1>5. CASE persistHash(w)
  <2>1. UNCHANGED <<due, fees, emitting, settled, chainVars, paused>>
    BY <1>5 DEF persistHash, eventVars
  <2>2. CASE Save(obj[w]) /\ Goto(w, "wait") /\ UNCHANGED <<obj, hiccups>>
    <3>1. Sound("wait", obj[w], txRow', txState')
      BY <1>2, <1>5 DEF Sound, persistHash
    <3>2. DesksSound
      BY <1>3, <1>4, <2>2, <3>1, MoveSound DEF PC
    <3>3. QED
      BY <1>1, <2>1, <2>2, <3>2, SaveSound, UnchangedSound, SoundWritesKeepInv
  <2>3. CASE Hiccup /\ Fail(w, obj[w], TRUE) /\ (UNCHANGED row \/ Save(obj[w]))
    BY <1>1, <1>3, <2>1, <2>3, FailSound, SaveSound, HiccupTyped, UnchangedSound,
       SoundWritesKeepInv
  <2>4. QED
    BY <1>5, <2>2, <2>3 DEF persistHash
<1>6. CASE accrueFee(w)
  <2>1. /\ pc[w] = "accrue" /\ Goto(w, "save")
        /\ UNCHANGED <<row, obj, due, emitting, settled, chainVars, paused, hiccups>>
    BY <1>6 DEF accrueFee, eventVars, envVars
  <2>2. Sound("save", obj[w], txRow', txState')
    BY <1>2, <2>1 DEF Sound
  <2>3. DesksSound
    BY <1>3, <1>4, <2>1, <2>2, MoveSound DEF PC
  <2>4. /\ obj[w].id \in Row /\ obj[w].txHash \in Tx
        /\ txRow[obj[w].txHash] = obj[w].id /\ txState[obj[w].txHash] = "final"
    BY <1>2, <2>1 DEF Sound, Sent, Proven, Entity, chainVars
  <2>5. FeesSound
    BY <1>6, <2>4 DEF accrueFee, AnyInv, TypeOK, FeesSound
  <2>6. QED
    BY <2>1, <2>3, <2>5, UnchangedSound, SoundWritesKeepInv
<1>7. CASE saveOutcome(w)
  <2>1. Goto(w, "idle") /\ obj' = [obj EXCEPT ![w] = None]
        /\ UNCHANGED <<fees, settled, chainVars, paused>>
    BY <1>7 DEF saveOutcome, Finish
  <2>2. DesksSound
    BY <2>1, MoveSound DEF PC
  <2>3. UNCHANGED row \/ Save(obj[w])
    BY <1>7 DEF saveOutcome
  <2>4. RowsSound
    BY <1>1, <2>3, SaveSound, UnchangedSound
  <2>5. QueuesSound
    BY <1>7 DEF saveOutcome, AnyInv, TypeOK, QueuesSound
  <2>6. RestTyped
    <3>1. obj[w].id \in Row
      BY <1>3 DEF Entity
    <3>2. emitting' \in [Worker -> SUBSET Row]
      BY <1>7, <3>1 DEF saveOutcome, AnyInv, TypeOK
    <3>3. hiccups' \in 0..MaxHiccups
      BY <1>7, SettlementAssumption DEF saveOutcome, Hiccup, AnyInv, TypeOK
    <3>4. QED
      BY <2>1, <3>2, <3>3 DEF AnyInv, TypeOK, RestTyped
  <2>7. QED
    BY <2>1, <2>2, <2>4, <2>5, <2>6, UnchangedSound, SoundWritesKeepInv
<1>8. CASE saveWaiting(w)
  <2>1. UNCHANGED <<due, fees, emitting, settled, chainVars, paused>>
    BY <1>8 DEF saveWaiting, eventVars
  <2>2. CASE Save(obj[w]) /\ Finish(w) /\ UNCHANGED hiccups
    <3>1. DesksSound
      BY <2>2, MoveSound DEF Finish, PC
    <3>2. QED
      BY <1>1, <2>1, <2>2, <3>1, SaveSound, UnchangedSound, SoundWritesKeepInv
  <2>3. CASE Hiccup /\ Fail(w, obj[w], TRUE) /\ (UNCHANGED row \/ Save(obj[w]))
    BY <1>1, <1>3, <2>1, <2>3, FailSound, SaveSound, HiccupTyped, UnchangedSound,
       SoundWritesKeepInv
  <2>4. QED
    BY <1>8, <2>2, <2>3 DEF saveWaiting
<1>9. QED
  BY <1>5, <1>6, <1>7, <1>8

\* What happens around the attempts: crashes, the clock, the chain, the pause.
LEMMA EnvironmentKeepsAnyInv ==
    ASSUME AnyInv,
           \/ \E w \in Worker : \E r \in Row : emitOutcome(w, r)
           \/ \E i \in Instance : Crash(i)
           \/ \E r \in Row : BecomeDue(r)
           \/ \E t \in Tx : ChainProgress(t) \/ Reorg(t)
           \/ SetPause \/ UNCHANGED vars
    PROVE  AnyInv'
<1>1. ASSUME NEW i \in Instance, Crash(i) PROVE AnyInv'
  <2>1. /\ Hiccup /\ UNCHANGED <<row, fees, settled, chainVars, paused>>
    BY <1>1 DEF Crash
  <2>2. DesksSound /\ QueuesSound
    BY <1>1 DEF Crash, AnyInv, TypeOK, DesksSound, QueuesSound, PC
  <2>3. RestTyped
    <3>1. emitting' \in [Worker -> SUBSET Row]
      BY <1>1 DEF Crash, AnyInv, TypeOK
    <3>2. hiccups' \in 0..MaxHiccups
      BY <2>1, SettlementAssumption DEF Hiccup, AnyInv, TypeOK
    <3>3. QED
      BY <2>1, <3>1, <3>2 DEF AnyInv, TypeOK, RestTyped
  <2>4. QED
    BY <2>1, <2>2, <2>3, UnchangedSound, SoundWritesKeepInv
<1>2. ASSUME NEW r \in Row, BecomeDue(r) PROVE AnyInv'
  <2> DEFINE e == [row[r] EXCEPT !.nextRetryAt = "due"]
  <2>1. UNCHANGED <<pc, obj, due, fees, emitting, settled, chainVars, paused, hiccups>>
    BY <1>2 DEF BecomeDue, workVars, eventVars, envVars
  <2>2. row[r] \in Entity
    BY DEF AnyInv, TypeOK
  <2>3. /\ e \in Entity /\ e.id = row[r].id /\ e.txHash = row[r].txHash
        /\ e.status = row[r].status
    BY <2>2 DEF Entity
  <2>4. row' = [row EXCEPT ![r] = e]
    BY <1>2 DEF BecomeDue, AnyInv, TypeOK
  <2> HIDE DEF e
  <2>5. RowsSound
    BY <2>1, <2>3, <2>4 DEF AnyInv, TypeOK, RowsSound, Sent, Proven, chainVars
  <2>6. QED
    BY <2>1, <2>5, UnchangedSound, SoundWritesKeepInv
<1>3. ASSUME NEW t \in Tx, ChainProgress(t) \/ Reorg(t) PROVE AnyInv'
  <2>1. \E from \in {"mempool", "mined", "reverted", "dropped"},
           to \in TxState \ {"unsent"} : ChainMoves(t, from, to)
    BY <1>3 DEF ChainProgress, Reorg, TxState
  <2>2. UNCHANGED <<row, fees, emitting, settled, pc, obj, due, paused>>
    BY <2>1 DEF ChainMoves, dbVars, eventVars, workVars
  <2>3. ChainSound
    BY <2>1 DEF ChainMoves, ChainSound, ChainKept, AnyInv, TypeOK
  <2>4. RestTyped
    BY <1>3, <2>2, HiccupTyped, UnchangedSound DEF ChainProgress, Reorg
  <2>5. QED
    BY <2>2, <2>3, <2>4, UnchangedSound, SoundWritesKeepInv
<1>4. CASE SetPause \/ UNCHANGED vars
  <2>1. UNCHANGED <<row, fees, emitting, settled, pc, obj, due, chainVars, hiccups>>
    BY <1>4 DEF SetPause, vars, dbVars, eventVars, workVars, chainVars
  <2>2. paused' \in BOOLEAN
    BY <1>4 DEF SetPause, vars, AnyInv, TypeOK
  <2>3. RestTyped
    BY <2>1, <2>2 DEF AnyInv, TypeOK, RestTyped
  <2>4. QED
    BY <2>1, <2>3, UnchangedSound, SoundWritesKeepInv
<1>5. ASSUME NEW w \in Worker, NEW r \in Row, emitOutcome(w, r) PROVE AnyInv'
  <2>1. UNCHANGED <<row, fees, pc, obj, due, chainVars, paused>>
    BY <1>5 DEF emitOutcome, workVars
  <2>2. emitting' \in [Worker -> SUBSET Row]
    BY <1>5 DEF emitOutcome, AnyInv, TypeOK
  <2>3. settled' \in [Row -> 0..2]
    <3>1. settled' = settled \/ settled' = [settled EXCEPT ![r] = IF @ = 0 THEN 1 ELSE 2]
      BY <1>5 DEF emitOutcome
    <3>2. QED
      BY <3>1 DEF AnyInv, TypeOK
  <2>4. hiccups' \in 0..MaxHiccups
    BY <1>5, SettlementAssumption DEF emitOutcome, Hiccup, AnyInv, TypeOK
  <2>5. RestTyped
    BY <2>1, <2>2, <2>3, <2>4 DEF AnyInv, TypeOK, RestTyped
  <2>6. QED
    BY <2>1, <2>5, UnchangedSound, SoundWritesKeepInv
<1>6. QED
  BY <1>1, <1>2, <1>3, <1>4, <1>5

\* Whatever the faults and however many retry loops run, every object and
\* every row of settlement.service.ts stays sound by itself.
THEOREM SettlementAnyInv == Spec => []AnyInv
<1>1. Init => AnyInv
  <2> SUFFICES ASSUME Init PROVE AnyInv
    OBVIOUS
  <2>1. SerialInv
    BY InitSerialInv
  <2>2. \A r \in Row : row[r].id = r /\ row[r].txHash = None /\ row[r].status = "none"
    BY DEF Init, Blank
  <2>3. QED
    BY <2>1, <2>2 DEF Init, SerialInv, AnyInv, Sent, Proven
<1>2. AnyInv /\ [Next]_vars => AnyInv'
  BY StartKeepsAnyInv, ConfirmKeepsAnyInv, WaitKeepsAnyInv, SendKeepsAnyInv,
     WriteKeepsAnyInv, EnvironmentKeepsAnyInv DEF Next, AttemptStep
<1>3. QED
  BY <1>1, <1>2, PTL DEF Spec

\* Every variable keeps its type whatever goes wrong: the attempt that
\* confirmEarlierTransaction() takes back was counted before, so attempts
\* never falls below zero, and a busy worker always has an object.
THEOREM SettlementTypes == Spec => []TypeOK
<1>1. AnyInv => TypeOK
  BY DEF AnyInv
<1>2. QED
  BY <1>1, SettlementAnyInv, PTL

\* attempt() marks a row settled only over a transaction of this settlement
\* that has the confirmations of the network profile, also when payments are
\* sent twice, hashes are lost and stale objects are saved.
THEOREM SettlementSettledIsPaid == Spec => []SettledIsPaid
<1>1. AnyInv => SettledIsPaid
  BY DEF AnyInv, TypeOK, SettledIsPaid, Sent, Proven, Entity
<1>2. QED
  BY <1>1, SettlementAnyInv, PTL

\* accrueFee() books the fee of a settlement at most once and only if it was
\* paid, however many workers attempt it.
THEOREM SettlementBookedOnce == Spec => []FeeOncePaid
<1>1. AnyInv => FeeOncePaid
  BY DEF AnyInv
<1>2. QED
  BY <1>1, SettlementAnyInv, PTL

----------------------------------------------------------------------------
(* A serial rail implements the abstract payment ledger.                   *)

\* t alone pays r or may still pay it; nothing does.
Alone(t, r) == txRow[t] = r /\ Live(t) /\ \A u \in Tx : txRow[u] = r /\ Live(u) => u = t
Unpaid(r) == \A u \in Tx : txRow[u] = r => ~Live(u)

\* The payment of a settlement, before and after a step.
LEMMA PaymentIs ==
    ASSUME NEW r
    PROVE  /\ Unpaid(r) => PaymentOf(r) = "none"
           /\ \A t \in Tx : Alone(t, r) =>
                 PaymentOf(r) = IF txState[t] = "final" THEN "paid" ELSE "moving"
           /\ Unpaid(r)' => PaymentOf(r)' = "none"
           /\ \A t \in Tx : Alone(t, r)' =>
                 PaymentOf(r)' = IF txState'[t] = "final" THEN "paid" ELSE "moving"
<1>1. Unpaid(r) => PaymentOf(r) = "none"
  BY DEF PaymentOf, Unpaid
<1>2. ASSUME NEW t \in Tx, Alone(t, r)
      PROVE  PaymentOf(r) = IF txState[t] = "final" THEN "paid" ELSE "moving"
  BY <1>2 DEF PaymentOf, Alone
<1>3. Unpaid(r)' => PaymentOf(r)' = "none"
  BY DEF PaymentOf, Unpaid
<1>4. ASSUME NEW t \in Tx, Alone(t, r)'
      PROVE  PaymentOf(r)' = IF txState'[t] = "final" THEN "paid" ELSE "moving"
  BY <1>4 DEF PaymentOf, Alone
<1>5. QED
  BY <1>1, <1>2, <1>3, <1>4

\* A settlement whose transactions rest keeps its payment.
LEMMA PaymentRests ==
    ASSUME NEW r,
           \A u \in Tx : /\ txRow'[u] = r /\ Live(u)' <=> txRow[u] = r /\ Live(u)
                         /\ txRow[u] = r /\ Live(u) => txState'[u] = txState[u]
    PROVE  PaymentOf(r)' = PaymentOf(r)
<1>1. {t \in Tx : txRow[t] = r /\ Live(t)}' = {t \in Tx : txRow[t] = r /\ Live(t)}
  OBVIOUS
<1>2. \A t \in {u \in Tx : txRow[u] = r /\ Live(u)} : txState'[t] = txState[t]
  OBVIOUS
<1>3. QED
  BY <1>1, <1>2 DEF PaymentOf

\* A settlement has one transaction at most that pays or may still pay.
LEMMA OneLive ==
    ASSUME SerialInv, NEW t \in Tx, NEW u \in Tx, Live(t), Live(u), txRow[t] = txRow[u]
    PROVE  t = u
<1>1. CASE \E w \in Worker : Holds(w, txRow[t])
  BY <1>1 DEF SerialInv, LiveInv
<1>2. CASE \A w \in Worker : ~Holds(w, txRow[t])
  BY <1>2 DEF SerialInv, LiveInv
<1>3. QED
  BY <1>1, <1>2

\* Where a transaction is final the settlement is paid, and by nothing else.
LEMMA FinalIsPaid ==
    ASSUME SerialInv, NEW r, NEW t \in Tx, txRow[t] = r, txState[t] = "final"
    PROVE  PaymentOf(r) = "paid"
<1>1. Alone(t, r)
  BY OneLive DEF Alone, Live
<1>2. QED
  BY <1>1, PaymentIs

\* Rows that become settled, or cease to be.
SameRecord == \A r \in Row : row'[r].status = "settled" <=> row[r].status = "settled"

\* What neither pays, books nor settles is no step of the ledger.
LEMMA LedgerRests ==
    ASSUME UNCHANGED chainVars, UNCHANGED fees, UNCHANGED settled, SameRecord
    PROVE  UNCHANGED Ledger!vars
<1>1. [r \in Row |-> PaymentOf(r)]' = [r \in Row |-> PaymentOf(r)]
  BY DEF PaymentOf, Live, chainVars
<1>2. [r \in Row |-> row[r].status = "settled"]' = [r \in Row |-> row[r].status = "settled"]
  BY DEF SameRecord
<1>3. QED
  BY <1>1, <1>2 DEF Ledger!vars

\* A step of the chain moves the payment of one settlement.
LEMMA LedgerMoves ==
    ASSUME NEW r \in Row, UNCHANGED <<row, fees, emitting, settled>>,
           \A x \in Row : x # r => PaymentOf(x)' = PaymentOf(x),
           \/ PaymentOf(r)' = PaymentOf(r)
           \/ PaymentOf(r) = "none" /\ PaymentOf(r)' = "moving"
           \/ PaymentOf(r) = "moving" /\ PaymentOf(r)' \in {"none", "paid"}
    PROVE  [Ledger!Next]_(Ledger!vars)
<1> DEFINE P == [x \in Row |-> PaymentOf(x)]
<1>1. UNCHANGED [x \in Row |-> row[x].status = "settled"]
  OBVIOUS
<1>2. P' = [P EXCEPT ![r] = PaymentOf(r)']
  OBVIOUS
<1>3. P[r] = PaymentOf(r)
  OBVIOUS
<1>4. CASE PaymentOf(r)' = PaymentOf(r)
  <2>1. P' = P
    BY <1>4
  <2>2. QED
    BY <1>1, <2>1 DEF Ledger!vars
<1>5. CASE PaymentOf(r) = "none" /\ PaymentOf(r)' = "moving"
  <2>1. Ledger!Moves(r, "none", "moving")
    BY <1>1, <1>2, <1>3, <1>5 DEF Ledger!Moves
  <2>2. QED
    BY <2>1 DEF Ledger!Next
<1>6. CASE PaymentOf(r) = "moving" /\ PaymentOf(r)' = "none"
  <2>1. Ledger!Moves(r, "moving", "none")
    BY <1>1, <1>2, <1>3, <1>6 DEF Ledger!Moves
  <2>2. QED
    BY <2>1 DEF Ledger!Next
<1>7. CASE PaymentOf(r) = "moving" /\ PaymentOf(r)' = "paid"
  <2>1. Ledger!Moves(r, "moving", "paid")
    BY <1>1, <1>2, <1>3, <1>7 DEF Ledger!Moves
  <2>2. QED
    BY <2>1 DEF Ledger!Next
<1>8. QED
  BY <1>4, <1>5, <1>6, <1>7

\* send() broadcasts while nothing is on its way for the settlement.
LEMMA SendOnLedger ==
    ASSUME SerialInv, Serial, NEW w \in Worker, send(w)
    PROVE  [Ledger!Next]_(Ledger!vars)
<1>1. pc[w] = "send" /\ UNCHANGED <<row, fees, emitting, settled>>
  BY DEF send, dbVars, eventVars
<1>2. CASE UNCHANGED chainVars
  BY <1>1, <1>2, LedgerRests DEF SameRecord
<1>3. CASE \E t \in Tx :
              /\ \A u \in Tx : txState[u] = "unsent" <=> u >= t
              /\ txState' = [txState EXCEPT ![t] = "mempool"]
              /\ txRow' = [txRow EXCEPT ![t] = obj[w].id]
  <2>1. PICK t \in Tx :
              /\ \A u \in Tx : txState[u] = "unsent" <=> u >= t
              /\ txState' = [txState EXCEPT ![t] = "mempool"]
              /\ txRow' = [txRow EXCEPT ![t] = obj[w].id]
    BY <1>3
  <2>2. t >= t
    BY SettlementAssumption DEF Tx
  <2>3. /\ txState \in [Tx -> TxState] /\ txRow \in [Tx -> Row \cup {None}]
        /\ txState[t] = "unsent"
    BY <2>1, <2>2 DEF SerialInv, TypeOK
  <2>4. PICK r \in Row : r = obj[w].id /\ Holds(w, r)
    BY <1>1 DEF SerialInv, DeskInv, Entity, Holds
  <2>5. Unpaid(r)
    BY <1>1, <2>4 DEF SerialInv, LiveInv, Unpaid
  <2>6. \A u \in Tx : u # t => txState'[u] = txState[u] /\ txRow'[u] = txRow[u]
    BY <2>1, <2>3
  <2>7. txState'[t] = "mempool" /\ txRow'[t] = r
    BY <2>1, <2>3, <2>4
  <2>8. PaymentOf(r) = "none" /\ PaymentOf(r)' = "moving"
    <3>1. Alone(t, r)'
      BY <2>5, <2>6, <2>7 DEF Alone, Unpaid, Live
    <3>2. QED
      BY <2>5, <2>7, <3>1, PaymentIs
  <2>9. ASSUME NEW x \in Row, x # r PROVE PaymentOf(x)' = PaymentOf(x)
    <3>1. \A u \in Tx : /\ txRow'[u] = x /\ Live(u)' <=> txRow[u] = x /\ Live(u)
                        /\ txRow[u] = x /\ Live(u) => txState'[u] = txState[u]
      BY <2>3, <2>6, <2>7, <2>9 DEF Live
    <3>2. QED
      BY <3>1, PaymentRests
  <2>10. QED
    BY <1>1, <2>4, <2>8, <2>9, LedgerMoves
<1>4. QED
  BY <1>2, <1>3 DEF send

\* A block or a reorg moves the one payment that is on its way.
LEMMA ChainOnLedger ==
    ASSUME SerialInv, Serial, NEW t \in Tx, ChainProgress(t) \/ Reorg(t)
    PROVE  [Ledger!Next]_(Ledger!vars)
<1>1. \E from \in {"mempool", "mined"}, to \in TxState \ {"unsent"} : ChainMoves(t, from, to)
  BY DEF ChainProgress, Reorg, Serial, TxState
<1>2. /\ txState[t] \in {"mempool", "mined"}
      /\ UNCHANGED <<txRow, row, fees, emitting, settled>>
      /\ \E to \in TxState \ {"unsent"} : txState' = [txState EXCEPT ![t] = to]
  BY <1>1 DEF ChainMoves, dbVars, eventVars
<1>3. PICK r \in Row : r = txRow[t] /\ Live(t) /\ txState \in [Tx -> TxState]
  BY <1>2 DEF SerialInv, LiveInv, Live, TypeOK
<1>4. \A u \in Tx : u # t => txState'[u] = txState[u]
  BY <1>2, <1>3
<1>5. Alone(t, r)
  BY <1>3, OneLive DEF Alone
<1>6. Alone(t, r)' \/ Unpaid(r)'
  BY <1>2, <1>4, <1>5 DEF Alone, Unpaid, Live
<1>7. \/ PaymentOf(r)' = PaymentOf(r)
      \/ PaymentOf(r) = "moving" /\ PaymentOf(r)' \in {"none", "paid"}
  <2>1. PaymentOf(r) = "moving"
    BY <1>2, <1>5, PaymentIs
  <2>2. PaymentOf(r)' \in {"none", "moving", "paid"}
    BY <1>6, PaymentIs
  <2>3. QED
    BY <2>1, <2>2
<1>8. ASSUME NEW x \in Row, x # r PROVE PaymentOf(x)' = PaymentOf(x)
  <2>1. \A u \in Tx : /\ txRow'[u] = x /\ Live(u)' <=> txRow[u] = x /\ Live(u)
                      /\ txRow[u] = x /\ Live(u) => txState'[u] = txState[u]
    BY <1>2, <1>3, <1>4, <1>8 DEF Live
  <2>2. QED
    BY <2>1, PaymentRests
<1>9. QED
  BY <1>2, <1>3, <1>7, <1>8, LedgerMoves

\* accrueFee() books the fee of a payment that is final.
LEMMA AccrueOnLedger ==
    ASSUME SerialInv, NEW w \in Worker, accrueFee(w)
    PROVE  [Ledger!Next]_(Ledger!vars)
<1>1. pc[w] = "accrue" /\ UNCHANGED <<row, settled, chainVars>>
  BY DEF accrueFee, eventVars
<1>2. PICK r \in Row :
          /\ r = obj[w].id
          /\ obj[w].txHash \in Tx /\ txRow[obj[w].txHash] = r
          /\ txState[obj[w].txHash] = "final"
  BY <1>1 DEF SerialInv, DeskInv, Entity, RefInv, OutcomeInv
<1>3. CASE UNCHANGED fees
  BY <1>1, <1>3, LedgerRests DEF SameRecord
<1>4. CASE fees[r] = 0 /\ fees' = [fees EXCEPT ![r] = 1]
  <2>1. PaymentOf(r) = "paid"
    BY <1>2, FinalIsPaid
  <2>2. UNCHANGED [x \in Row |-> PaymentOf(x)]
    BY <1>1 DEF PaymentOf, Live, chainVars
  <2>3. UNCHANGED [x \in Row |-> row[x].status = "settled"]
    BY <1>1
  <2>4. Ledger!BookFee(r)
    BY <1>1, <1>2, <1>4, <2>1, <2>2, <2>3 DEF Ledger!BookFee
  <2>5. QED
    BY <1>2, <2>4 DEF Ledger!Next
<1>5. QED
  BY <1>2, <1>3, <1>4 DEF accrueFee

\* The last save of attempt() records what is final, or nothing.
LEMMA SaveOutcomeOnLedger ==
    ASSUME SerialInv, NEW w \in Worker, saveOutcome(w)
    PROVE  [Ledger!Next]_(Ledger!vars)
<1>1. pc[w] = "save" /\ UNCHANGED <<fees, settled, chainVars>>
  BY DEF saveOutcome
<1>2. PICK r \in Row :
          /\ r = obj[w].id /\ obj[w] \in Entity /\ Holds(w, r)
          /\ row \in [Row -> Entity]
  BY <1>1 DEF SerialInv, DeskInv, Entity, Holds, TypeOK
<1>3. row[r].status # "settled"
  BY <1>2 DEF SerialInv, OwnerInv
<1>4. CASE UNCHANGED row
  BY <1>1, <1>4, LedgerRests DEF SameRecord
<1>5. CASE Save(obj[w])
  <2>1. \A x \in Row : row'[x] = IF x = r THEN obj[w] ELSE row[x]
    BY <1>2, <1>5 DEF Save
  <2>2. CASE obj[w].status # "settled"
    BY <1>1, <1>3, <1>5, <2>1, <2>2, LedgerRests DEF SameRecord
  <2>3. CASE obj[w].status = "settled"
    <3>1. /\ obj[w].txHash \in Tx /\ txRow[obj[w].txHash] = r
          /\ txState[obj[w].txHash] = "final"
      BY <1>1, <1>2, <2>3 DEF SerialInv, Entity, RefInv, OutcomeInv
    <3>2. PaymentOf(r) = "paid"
      BY <3>1, FinalIsPaid
    <3>3. UNCHANGED [x \in Row |-> PaymentOf(x)]
      BY <1>1 DEF PaymentOf, Live, chainVars
    <3>4. [x \in Row |-> row[x].status = "settled"]' =
            [[x \in Row |-> row[x].status = "settled"] EXCEPT ![r] = TRUE]
      BY <1>2, <2>1, <2>3
    <3>5. Ledger!Record(r)
      BY <1>1, <1>2, <1>3, <3>2, <3>3, <3>4 DEF Ledger!Record
    <3>6. QED
      BY <1>2, <3>5 DEF Ledger!Next
  <2>4. QED
    BY <2>2, <2>3
<1>6. QED
  BY <1>4, <1>5 DEF saveOutcome

\* emitOutcome() announces what is recorded and was not announced before.
LEMMA EmitOnLedger ==
    ASSUME SerialInv, NEW w \in Worker, NEW r \in Row, emitOutcome(w, r)
    PROVE  [Ledger!Next]_(Ledger!vars)
<1>1. /\ r \in emitting[w] /\ UNCHANGED <<row, fees, chainVars>>
  BY DEF emitOutcome
<1>2. row[r].status = "settled" /\ settled[r] = 0 /\ settled \in [Row -> 0..2]
  BY <1>1 DEF SerialInv, OutcomeInv, TypeOK
<1>3. CASE UNCHANGED settled
  BY <1>1, <1>3, LedgerRests DEF SameRecord
<1>4. CASE settled' = [settled EXCEPT ![r] = IF @ = 0 THEN 1 ELSE 2]
  <2>1. settled' = [settled EXCEPT ![r] = 1]
    BY <1>2, <1>4
  <2>2. UNCHANGED [x \in Row |-> PaymentOf(x)]
    BY <1>1 DEF PaymentOf, Live, chainVars
  <2>3. UNCHANGED [x \in Row |-> row[x].status = "settled"]
    BY <1>1
  <2>4. [x \in Row |-> row[x].status = "settled"][r]
    BY <1>2
  <2>5. Ledger!Announce(r)
    BY <1>1, <1>2, <2>1, <2>2, <2>3, <2>4 DEF Ledger!Announce
  <2>6. QED
    BY <2>5 DEF Ledger!Next
<1>5. QED
  BY <1>3, <1>4 DEF emitOutcome

\* The other steps neither pay, book nor settle.
LEMMA OthersRest ==
    ASSUME SerialInv,
           \/ \E w \in Worker : \E r \in Row : settleBatch(w, r) \/ replay(w, r)
           \/ \E w \in Worker : \/ processDue(w) \/ attemptNext(w)
                                \/ confirmEarlierTransaction(w) \/ waitFor(w)
                                \/ persistHash(w) \/ saveWaiting(w)
           \/ \E i \in Instance : Crash(i)
           \/ \E r \in Row : BecomeDue(r)
           \/ SetPause \/ UNCHANGED vars
    PROVE  UNCHANGED Ledger!vars
<1>1. row \in [Row -> Entity]
  BY DEF SerialInv, TypeOK
<1>2. UNCHANGED <<chainVars, fees, settled>>
  BY DEF settleBatch, replay, processDue, attemptNext, confirmEarlierTransaction, waitFor,
         persistHash, saveWaiting, Crash, BecomeDue, SetPause, vars, dbVars, eventVars, chainVars
<1>3. ASSUME NEW r \in Row, NEW e, row' = [row EXCEPT ![r] = e],
             e.status = "settled" <=> row[r].status = "settled"
      PROVE  SameRecord
  BY <1>1, <1>3 DEF SameRecord
<1>4. ASSUME NEW w \in Worker, persistHash(w) \/ saveWaiting(w) PROVE SameRecord
  <2>1. pc[w] \in {"persist", "waitSave"} /\ (Save(obj[w]) \/ UNCHANGED row)
    BY <1>4 DEF persistHash, saveWaiting
  <2>2. obj[w].id \in Row /\ Holds(w, obj[w].id)
    BY <2>1 DEF SerialInv, DeskInv, Entity, Holds
  <2>3. obj[w].status # "settled" /\ row[obj[w].id].status # "settled"
    BY <2>1, <2>2 DEF SerialInv, OwnerInv, OutcomeInv, BeforeOutcome
  <2>4. QED
    BY <1>3, <2>1, <2>2, <2>3 DEF Save, SameRecord
<1>5. ASSUME NEW w \in Worker, NEW r \in Row, settleBatch(w, r) PROVE SameRecord
  <2>1. /\ row[r].status = "none"
        /\ row' = [row EXCEPT ![r] = [Blank(r) EXCEPT !.status = "pending"]]
    BY <1>5 DEF settleBatch
  <2>2. [Blank(r) EXCEPT !.status = "pending"].status = "pending"
    BY DEF Blank
  <2>3. QED
    BY <1>3, <2>1, <2>2
<1>6. ASSUME NEW r \in Row, BecomeDue(r) PROVE SameRecord
  <2>1. row' = [row EXCEPT ![r] = [row[r] EXCEPT !.nextRetryAt = "due"]]
    BY <1>1, <1>6 DEF BecomeDue
  <2>2. [row[r] EXCEPT !.nextRetryAt = "due"].status = row[r].status
    BY <1>1 DEF Entity
  <2>3. QED
    BY <1>3, <2>1, <2>2
<1>7. ASSUME UNCHANGED row PROVE SameRecord
  BY <1>7 DEF SameRecord
<1>8. SameRecord
  BY <1>4, <1>5, <1>6, <1>7
     DEF replay, processDue, attemptNext, confirmEarlierTransaction, waitFor, Crash,
         SetPause, vars, dbVars, eventVars
<1>9. QED
  BY <1>2, <1>8, LedgerRests

\* settlement.service.ts implements PaymentLedger in a serial deployment: to
\* whoever looks at payments, fees, rows and events only, the attempts,
\* retries, replays, crashes and reorgs are the few steps of that ledger.
THEOREM SettlementKeepsLedger ==
    ASSUME Serial
    PROVE  Spec => KeepsLedger
<1>1. Init => Ledger!Init
  <2> SUFFICES ASSUME Init PROVE Ledger!Init
    OBVIOUS
  <2>1. \A r \in Row : PaymentOf(r) = "none"
    <3>1. \A r \in Row : Unpaid(r)
      BY DEF Init, Unpaid, Live
    <3>2. QED
      BY <3>1, PaymentIs
  <2>2. \A r \in Row : row[r].status # "settled"
    BY DEF Init, Blank
  <2>3. QED
    BY <2>1, <2>2 DEF Init, Ledger!Init
<1>2. SerialInv /\ [Next]_vars => [Ledger!Next]_(Ledger!vars)
  <2> SUFFICES ASSUME SerialInv, [Next]_vars PROVE [Ledger!Next]_(Ledger!vars)
    OBVIOUS
  <2>1. QED
    BY SendOnLedger, ChainOnLedger, AccrueOnLedger, SaveOutcomeOnLedger, EmitOnLedger,
       OthersRest
       DEF Next, AttemptStep
<1>3. QED
  BY <1>1, <1>2, SettlementSerialInv, PTL DEF Spec, KeepsLedger, Ledger!Spec
=============================================================================
