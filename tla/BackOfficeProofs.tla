-------------------------- MODULE BackOfficeProofs --------------------------
(***************************************************************************)
(* What the parts of the rail beside the payments keep for every number of *)
(* withdrawals, nodes, deliveries and rows: the fee ledger, the emergency  *)
(* pause, the webhooks and the settlement export, each by itself.          *)
(***************************************************************************)
EXTENDS FeeLedger, PauseService, Webhooks, SettlementExport, SumTheorems

----------------------------------------------------------------------------
(* The fee ledger                                                          *)

LedgerTypes ==
    /\ entry \in [Settled \cup Withdrawal -> Nat]
    /\ feeLock \in Withdrawal \cup {NoHolder}
    /\ asks \in [Withdrawal -> [at: {"idle", "lock", "insert", "done", "refused"}, amount: Int]]

\* An accrual is the whole fee or not there, and a withdrawal has its row only
\* when it is done.
RowsAreWhole ==
    /\ \A s \in Settled : entry[s] \in {0, FeeOf[s]}
    /\ \A w \in Withdrawal : asks[w].at # "done" => entry[w] = 0

\* A request for nothing or less ends before the lock.
AskedForSome == \A w \in Withdrawal : asks[w].at = "lock" => asks[w].amount > 0

\* Whoever is past the check of the balance holds the lock, and the balance
\* still suffices.
HolderIsCovered ==
    \A w \in Withdrawal : asks[w].at = "insert" =>
        /\ feeLock = w
        /\ asks[w].amount > 0
        /\ totals.withdrawn + asks[w].amount <= totals.accrued

\* The inductive invariant.  The last part alone is not inductive: an insert
\* keeps it only because the check that preceded it is still true.
LedgerInv ==
    /\ LedgerTypes /\ RowsAreWhole /\ AskedForSome /\ HolderIsCovered
    /\ totals.withdrawn <= totals.accrued

LEMMA TotalsType ==
    ASSUME LedgerTypes
    PROVE  totals.withdrawn \in Int /\ totals.accrued \in Int
<1>1. /\ \A x \in Settled : entry[x] \in Int
      /\ \A x \in Withdrawal : entry[x] \in Int
  BY DEF LedgerTypes
<1>2. QED
  BY <1>1, LedgerAssumption, SumInt DEF totals

\* accrue() can only raise what is accrued.
LEMMA AccrueKeepsInv ==
    ASSUME LedgerInv, NEW s \in Settled, accrue(s)
    PROVE  LedgerInv'
<1>1. /\ entry \in [Settled \cup Withdrawal -> Nat] /\ FeeOf[s] \in Nat
      /\ s \in Settled \cup Withdrawal
      /\ entry' = [entry EXCEPT ![s] = IF entry[s] = 0 THEN FeeOf[s] ELSE entry[s]]
      /\ UNCHANGED <<feeLock, asks>>
  BY LedgerAssumption DEF LedgerInv, LedgerTypes, accrue
<1>2. entry' \in [Settled \cup Withdrawal -> Nat]
  BY <1>1
<1>3. /\ entry'[s] \in {0, FeeOf[s]} /\ entry'[s] >= entry[s]
      /\ \A x \in Settled \cup Withdrawal : x # s => entry'[x] = entry[x]
  BY <1>1 DEF LedgerInv, RowsAreWhole
<1>4. LedgerTypes' /\ RowsAreWhole' /\ AskedForSome'
  BY <1>1, <1>2, <1>3, LedgerAssumption DEF LedgerInv, LedgerTypes, RowsAreWhole, AskedForSome
<1>5. totals.accrued <= totals.accrued'
  <2>1. \A x \in Settled : entry[x] \in Int /\ entry'[x] \in Int /\ entry[x] <= entry'[x]
    BY <1>1, <1>2, <1>3
  <2>2. SumFunctionOnSet(entry, Settled) <= SumFunctionOnSet(entry', Settled)
    BY <2>1, LedgerAssumption, SumMonotone
  <2>3. QED
    BY <2>2 DEF totals
<1>6. totals.withdrawn' = totals.withdrawn
  <2>1. \A x \in Withdrawal : entry[x] \in Int /\ entry'[x] = entry[x]
    BY <1>1, <1>3, LedgerAssumption
  <2>2. SumFunctionOnSet(entry', Withdrawal) = SumFunctionOnSet(entry, Withdrawal)
    BY <2>1, LedgerAssumption, SumSame
  <2>3. QED
    BY <2>2 DEF totals
<1>7. /\ totals.withdrawn \in Int /\ totals.accrued \in Int /\ totals.accrued' \in Int
      /\ \A w \in Withdrawal : asks[w].amount \in Int
  <2>1. \A x \in Settled : entry'[x] \in Int
    BY <1>2
  <2>2. totals.accrued' \in Int
    BY <2>1, LedgerAssumption, SumInt DEF totals
  <2>3. QED
    BY <2>2, TotalsType DEF LedgerInv, LedgerTypes
<1>8. HolderIsCovered' /\ (totals.withdrawn <= totals.accrued)'
  BY <1>1, <1>5, <1>6, <1>7 DEF LedgerInv, HolderIsCovered
<1>9. QED
  BY <1>4, <1>8 DEF LedgerInv

\* The insert adds an amount that the balance covers; nobody else is past the
\* check.
LEMMA InsertKeepsInv ==
    ASSUME LedgerInv, NEW w \in Withdrawal, insertWithdrawal(w)
    PROVE  LedgerInv'
<1>1. /\ entry \in [Settled \cup Withdrawal -> Nat] /\ w \in Settled \cup Withdrawal
      /\ asks[w] \in [at: {"idle", "lock", "insert", "done", "refused"}, amount: Int]
      /\ asks[w].at = "insert" /\ asks[w].amount > 0 /\ feeLock = w /\ entry[w] = 0
      /\ entry' = [entry EXCEPT ![w] = asks[w].amount]
      /\ feeLock' = NoHolder
      /\ asks' = [asks EXCEPT ![w] = [asks[w] EXCEPT !.at = "done"]]
  BY DEF LedgerInv, LedgerTypes, RowsAreWhole, AskedForSome, HolderIsCovered, insertWithdrawal, Goes
<1>2. entry' \in [Settled \cup Withdrawal -> Nat]
  BY <1>1
<1>3. LedgerTypes' /\ RowsAreWhole' /\ AskedForSome'
  BY <1>1, <1>2, LedgerAssumption DEF LedgerInv, LedgerTypes, RowsAreWhole, AskedForSome
<1>4. \A x \in Withdrawal : asks'[x].at # "insert"
  BY <1>1 DEF LedgerInv, LedgerTypes, HolderIsCovered
<1>5. totals.accrued' = totals.accrued
  <2>1. \A x \in Settled : entry[x] \in Int /\ entry'[x] = entry[x]
    BY <1>1, LedgerAssumption
  <2>2. SumFunctionOnSet(entry', Settled) = SumFunctionOnSet(entry, Settled)
    BY <2>1, LedgerAssumption, SumSame
  <2>3. QED
    BY <2>2 DEF totals
<1>6. totals.withdrawn' = totals.withdrawn + asks[w].amount
  <2>1. \A x \in Withdrawal : entry[x] \in Int /\ entry'[x] \in Int /\ (x # w => entry'[x] = entry[x])
    BY <1>1, <1>2
  <2>2. SumFunctionOnSet(entry', Withdrawal) =
          SumFunctionOnSet(entry, Withdrawal) + (entry'[w] - entry[w])
    BY <2>1, LedgerAssumption, SumChange
  <2>3. entry'[w] - entry[w] = asks[w].amount
    BY <1>1
  <2>4. QED
    BY <2>2, <2>3 DEF totals
<1>7. HolderIsCovered' /\ (totals.withdrawn <= totals.accrued)'
  BY <1>1, <1>4, <1>5, <1>6 DEF LedgerInv, HolderIsCovered
<1>8. QED
  BY <1>3, <1>7 DEF LedgerInv

LEMMA LedgerInvInductive ==
    (LedgerInit => LedgerInv) /\ (LedgerInv /\ [LedgerNext]_ledgerVars => LedgerInv')
<1>1. ASSUME LedgerInit PROVE LedgerInv
  <2>1. LedgerTypes /\ RowsAreWhole /\ AskedForSome /\ \A w \in Withdrawal : asks[w].at # "insert"
    BY <1>1, LedgerAssumption DEF LedgerInit, LedgerTypes, RowsAreWhole, AskedForSome
  <2>2. ASSUME NEW S, IsFiniteSet(S), S \subseteq Settled \cup Withdrawal
        PROVE  SumFunctionOnSet(entry, S) = 0
    <3>1. \A x \in S : entry[x] = 0
      BY <1>1, <2>2 DEF LedgerInit
    <3>2. SumFunctionOnSet(entry, S) = SumFunctionOnSet(entry, {})
      BY <2>2, <3>1, SumSupport
    <3>3. QED
      BY <3>2, SumEmpty
  <2>3. totals.withdrawn = 0 /\ totals.accrued = 0
    BY <2>2, LedgerAssumption DEF totals
  <2>4. QED
    BY <2>1, <2>3 DEF LedgerInv, HolderIsCovered
<1>2. ASSUME LedgerInv, [LedgerNext]_ledgerVars
      PROVE  LedgerInv'
  <2>1. ASSUME NEW s \in Settled, accrue(s)
        PROVE  LedgerInv'
    BY <1>2, <2>1, AccrueKeepsInv
  <2>2. ASSUME NEW w \in Withdrawal, NEW amount \in Withdrawn, withdraw(w, amount)
        PROVE  LedgerInv'
    BY <1>2, <2>2, LedgerAssumption
       DEF withdraw, LedgerInv, LedgerTypes, RowsAreWhole, AskedForSome, HolderIsCovered, totals
  <2>3. ASSUME NEW w \in Withdrawal, checkBalance(w)
        PROVE  LedgerInv'
    <3>1. UNCHANGED entry /\ totals' = totals
      BY <2>3 DEF checkBalance, totals
    <3>2. totals.withdrawn \in Int /\ totals.accrued \in Int
      BY <1>2, TotalsType DEF LedgerInv
    <3>3. asks[w].at = "lock" /\ feeLock = NoHolder /\ asks[w].amount \in Int
      BY <1>2, <2>3 DEF checkBalance, LedgerInv, LedgerTypes
    <3>4. CASE asks[w].amount > totals.accrued - totals.withdrawn
      BY <1>2, <2>3, <3>1, <3>3, <3>4
         DEF checkBalance, Goes, LedgerInv, LedgerTypes, RowsAreWhole, AskedForSome, HolderIsCovered
    <3>5. CASE ~ (asks[w].amount > totals.accrued - totals.withdrawn)
      <4>1. totals.withdrawn + asks[w].amount <= totals.accrued
        BY <3>2, <3>3, <3>5
      <4>2. /\ asks' = [asks EXCEPT ![w] = [asks[w] EXCEPT !.at = "insert"]]
            /\ feeLock' = w
        BY <2>3, <3>5 DEF checkBalance, Goes
      <4>3. LedgerTypes' /\ RowsAreWhole' /\ AskedForSome'
        BY <1>2, <3>1, <3>3, <4>2 DEF LedgerInv, LedgerTypes, RowsAreWhole, AskedForSome
      <4>4. \A x \in Withdrawal : asks[x].at # "insert"
        BY <1>2, <3>3, LedgerAssumption DEF LedgerInv, HolderIsCovered
      <4>5. /\ asks'[w].amount = asks[w].amount
            /\ \A x \in Withdrawal : x # w => asks'[x] = asks[x]
        BY <1>2, <4>2 DEF LedgerInv, LedgerTypes
      <4>6. asks[w].amount > 0
        BY <1>2, <3>3 DEF LedgerInv, AskedForSome
      <4>7. HolderIsCovered'
        BY <3>1, <4>1, <4>2, <4>4, <4>5, <4>6 DEF HolderIsCovered
      <4>8. QED
        BY <1>2, <3>1, <4>3, <4>7 DEF LedgerInv
    <3>6. QED
      BY <3>4, <3>5
  <2>4. ASSUME NEW w \in Withdrawal, insertWithdrawal(w)
        PROVE  LedgerInv'
    BY <1>2, <2>4, InsertKeepsInv
  <2>5. ASSUME NEW w \in Withdrawal, rollback(w)
        PROVE  LedgerInv'
    BY <1>2, <2>5, LedgerAssumption
       DEF rollback, Goes, LedgerInv, LedgerTypes, RowsAreWhole, AskedForSome, HolderIsCovered, totals
  <2>6. CASE UNCHANGED ledgerVars
    BY <1>2, <2>6
       DEF ledgerVars, LedgerInv, LedgerTypes, RowsAreWhole, AskedForSome, HolderIsCovered, totals
  <2>7. QED
    BY <1>2, <2>1, <2>2, <2>3, <2>4, <2>5, <2>6 DEF LedgerNext
<1>3. QED
  BY <1>1, <1>2

\* However withdrawals, roll-backs and repeated accruals interleave, what was
\* withdrawn stays within one fee for each booked settlement
\* (fee-ledger.service.ts: withdraw() under the chain's advisory lock).
THEOREM LedgerNotOverdrawn == LedgerSpec => []NotOverdrawn
<1>1. ASSUME LedgerInv PROVE NotOverdrawn
  <2> DEFINE Booked == {s \in Settled : entry[s] # 0}
  <2>1. \A s \in Settled : entry[s] \in Int
    BY <1>1 DEF LedgerInv, LedgerTypes
  <2>2. SumFunctionOnSet(entry, Settled) = SumFunctionOnSet(entry, Booked)
    BY <2>1, LedgerAssumption, SumSupport
  <2>3. IsFiniteSet(Booked)
    BY LedgerAssumption, FS_Subset
  <2>4. \A s \in Booked : entry[s] \in Int /\ FeeOf[s] = entry[s]
    BY <1>1, <2>1 DEF LedgerInv, RowsAreWhole
  <2>5. SumFunctionOnSet(FeeOf, Booked) = SumFunctionOnSet(entry, Booked)
    BY <2>3, <2>4, SumSame
  <2>6. totals.withdrawn <= SumFunctionOnSet(entry, Settled)
    BY <1>1 DEF LedgerInv, totals
  <2>7. QED
    BY <2>2, <2>5, <2>6 DEF NotOverdrawn
<1>2. QED
  BY <1>1, LedgerInvInductive, PTL DEF LedgerSpec
----------------------------------------------------------------------------
(* The emergency pause                                                     *)

\* The inductive invariant.  PauseDrains needs that the count starts from zero
\* with every pause: a node that is not paused has drained nothing.
DrainInv ==
    /\ batch \in [Node -> Nat] /\ drained \in [Node -> Nat]
    /\ DOMAIN copy = Node
    /\ \A n \in Node : ~isPaused(n, "settlement") => drained[n] = 0
    /\ PauseDrains

\* What a new copy does to the count.
LEMMA CopiesCounts ==
    ASSUME DrainInv, NEW n \in Node, NEW scopes, Copies(n, scopes)
    PROVE  /\ DOMAIN copy' = Node /\ copy'[n] = scopes
           /\ \A m \in Node : m # n => copy'[m] = copy[m] /\ drained'[m] = drained[m]
           /\ drained' \in [Node -> Nat]
           /\ drained'[n] <= drained[n]
           /\ ~isPaused(n, "settlement")' => drained'[n] = 0
<1>1. /\ copy' = [copy EXCEPT ![n] = scopes]
      /\ drained' = [drained EXCEPT ![n] =
             IF "settlement" \in Forced \cup scopes THEN drained[n] ELSE 0]
      /\ DOMAIN copy = Node /\ drained \in [Node -> Nat]
  BY DEF Copies, DrainInv
<1>2. /\ DOMAIN copy' = Node /\ copy'[n] = scopes
      /\ \A m \in Node : m # n => copy'[m] = copy[m]
  BY <1>1
<1>3. /\ drained' \in [Node -> Nat] /\ drained'[n] <= drained[n]
      /\ \A m \in Node : m # n => drained'[m] = drained[m]
      /\ "settlement" \notin Forced \cup scopes => drained'[n] = 0
  BY <1>1
<1>4. QED
  BY <1>2, <1>3 DEF isPaused

LEMMA DrainInvInductive ==
    (PauseInit => DrainInv) /\ (DrainInv /\ [PauseNext]_pauseVars => DrainInv')
<1>1. PauseInit => DrainInv
  BY PauseAssumption DEF PauseInit, DrainInv, PauseDrains, isPaused
<1>2. ASSUME DrainInv, [PauseNext]_pauseVars
      PROVE  DrainInv'
  <2>1. ASSUME UNCHANGED <<copy, batch, drained>>
        PROVE  DrainInv'
    BY <1>2, <2>1 DEF DrainInv, PauseDrains, isPaused
  <2>2. ASSUME NEW n \in Node, NEW scopes, Copies(n, scopes),
               batch' = batch \/ batch' = [batch EXCEPT ![n] = 0]
        PROVE  DrainInv'
    <3>1. /\ DOMAIN copy' = Node /\ copy'[n] = scopes
          /\ \A m \in Node : m # n => copy'[m] = copy[m] /\ drained'[m] = drained[m]
          /\ drained' \in [Node -> Nat]
          /\ drained'[n] <= drained[n]
          /\ ~isPaused(n, "settlement")' => drained'[n] = 0
      BY <1>2, <2>2, CopiesCounts
    <3>2. batch' \in [Node -> Nat] /\ \A m \in Node : batch'[m] <= batch[m]
      BY <1>2, <2>2 DEF DrainInv
    <3>3. \A m \in Node : ~isPaused(m, "settlement")' => drained'[m] = 0
      BY <1>2, <3>1 DEF DrainInv, isPaused
    <3>4. \A m \in Node : drained'[m] + batch'[m] <= PayBatch
      <4>1. ASSUME NEW m \in Node
            PROVE  drained'[m] + batch'[m] <= PayBatch
        <5>1. /\ drained[m] \in Nat /\ drained'[m] \in Nat /\ drained'[m] <= drained[m]
              /\ batch[m] \in Nat /\ batch'[m] \in Nat /\ batch'[m] <= batch[m]
              /\ drained[m] + batch[m] <= PayBatch
          BY <1>2, <3>1, <3>2 DEF DrainInv, PauseDrains
        <5>2. QED
          BY <5>1, PauseAssumption
      <4>2. QED
        BY <4>1
    <3>5. QED
      BY <3>1, <3>2, <3>3, <3>4 DEF DrainInv, PauseDrains
  <2>3. ASSUME NEW n \in Node, takeBatch(n)
        PROVE  DrainInv'
    <3>1. PICK k \in 1..PayBatch : batch' = [batch EXCEPT ![n] = k]
      BY <2>3 DEF takeBatch
    <3>2. batch' \in [Node -> Nat] /\ UNCHANGED <<copy, drained>> /\ drained[n] = 0
      BY <1>2, <2>3, <3>1, PauseAssumption DEF takeBatch, DrainInv
    <3>3. PauseDrains'
      BY <1>2, <3>1, <3>2, PauseAssumption DEF DrainInv, PauseDrains
    <3>4. QED
      BY <1>2, <3>2, <3>3 DEF DrainInv, isPaused
  <2>4. ASSUME NEW n \in Node, payout(n)
        PROVE  DrainInv'
    BY <1>2, <2>4, PauseAssumption DEF payout, DrainInv, PauseDrains, isPaused
  <2>5. ASSUME NEW n \in Node,
               setState(n) \/ Applies(n) \/ restart(n)
        PROVE  DrainInv'
    BY <2>2, <2>5 DEF setState, Applies, apply, restart
  <2>6. CASE UNCHANGED pauseVars
    BY <2>1, <2>6 DEF pauseVars
  <2>7. QED
    BY <1>2, <2>1, <2>3, <2>4, <2>5, <2>6
       DEF PauseNext, begins, saveFlag, refresh, refreshFails, saveFails
<1>3. QED
  BY <1>1, <1>2

\* A paused node starts no more payouts than the batch it had read, for any
\* number of nodes, late refreshes, restarts and failed saves
\* (settlement-retry.service.ts looks at the pause once per batch).
THEOREM PauseDrainsBatch == PauseSpec => []PauseDrains
<1>1. DrainInv => PauseDrains
  BY DEF DrainInv
<1>2. QED
  BY <1>1, DrainInvInductive, PTL DEF PauseSpec
----------------------------------------------------------------------------
(* Webhooks                                                                *)

\* One instance runs the retry poller.  Two would take the same due rows: the
\* flag running keeps apart the ticks of one process only.
OnePoller == \A i, j \in Instance : i = j

FlightType ==
    [obj: DeliveryRow, to: SubscriptionRow, by: Event \cup Instance, gone: BOOLEAN]

HookTypes ==
    /\ sub \in [Subscription -> SubscriptionRow \cup {None, Removed}]
    /\ \A s \in Subscription : Rows(s) => sub[s].id = s
    /\ row \in [Delivery -> DeliveryRow \cup {None}]
    /\ \A d \in Delivery : row[d] # None => row[d].d = d
    /\ DOMAIN fanout = Event
    /\ \A e \in Event : fanout[e] # None => fanout[e] \subseteq SubscriptionRow
    /\ flight \subseteq FlightType
    /\ queue \in [Instance -> SUBSET DeliveryRow]
    /\ rotating \in SubscriptionRow \cup {None}
    /\ posts \in [Delivery -> Nat] /\ hiccups \in Nat

\* The status of a delivery says how often it was tried, and a due time is set
\* exactly while it waits.
RowInv ==
    \A d \in Delivery : row[d] # None =>
      /\ row[d].attempts <= MaxAttempts
      /\ row[d].status = "pending" => row[d].attempts = 0
      /\ row[d].status = "failed" => row[d].attempts < MaxAttempts
      /\ row[d].status # "failed" => row[d].next = None

\* What an emit() has still to serve has no delivery yet.
FanoutInv ==
    \A e \in Event :
      /\ fanout[e] = None => \A s \in Subscription : row[<<e, s>>] = None
      /\ fanout[e] # None => \A s, t \in fanout[e] :
           row[<<e, s.id>>] = None /\ (s.id = t.id => s = t)

\* A POST on its way is the one attempt the row does not know of yet.  The first
\* attempt is of an emit(), the others are of the poller, one at a time.
FlightInv ==
    /\ \A f \in flight :
         /\ row[f.obj.d] # None
         /\ f.obj.attempts = row[f.obj.d].attempts + 1
         /\ f.obj.attempts <= MaxAttempts
         /\ f.by \in Event => row[f.obj.d].status = "pending"
         /\ f.by \in Instance => row[f.obj.d].status = "failed" /\ f.by \in polling
    /\ \A f, g \in flight :
         /\ f.obj.d = g.obj.d => f = g
         /\ f.by \in Instance /\ g.by = f.by => f = g

\* The poller's objects are still what the rows hold, and nobody sends them.
QueueInv ==
    \A i \in Instance : \A o \in queue[i] :
      /\ i \in polling
      /\ row[o.d] = o /\ o.status = "failed" /\ o.next = 0
      /\ \A f \in flight : f.obj.d # o.d

\* Every POST is an attempt of the row, or on its way, or was cut off.
PostsCounted ==
    \A d \in Delivery :
      /\ row[d] = None => posts[d] = 0
      /\ row[d] # None /\ (\A f \in flight : f.obj.d # d) => posts[d] <= row[d].attempts + hiccups
      /\ row[d] # None => posts[d] <= row[d].attempts + 1 + hiccups

\* The inductive invariant.
HookInv == HookTypes /\ RowInv /\ FanoutInv /\ FlightInv /\ QueueInv /\ PostsCounted

\* What an answer makes of a delivery object: the attempt is counted, and only a
\* delivery with attempts left waits for another one.
LEMMA OutcomeFacts ==
    ASSUME NEW obj \in DeliveryRow, obj.attempts <= MaxAttempts,
           NEW answer, NEW o \in Outcome(obj, answer)
    PROVE  /\ o \in DeliveryRow /\ o.d = obj.d /\ o.attempts = obj.attempts
           /\ o.status # "pending"
           /\ o.status = "failed" => o.attempts < MaxAttempts
           /\ o.status # "failed" => o.next = None
<1>1. MaxAttempts \in Nat
  BY WebhooksAssumption
<1>2. CASE o = [obj EXCEPT !.status = "delivered", !.next = None]
  BY <1>2 DEF DeliveryRow
<1>3. CASE o = [obj EXCEPT !.status = "exhausted", !.next = None]
  BY <1>3 DEF DeliveryRow
<1>4. ASSUME NEW w \in 0..backoffMs(obj.attempts), ~(obj.attempts >= MaxAttempts),
             o = [obj EXCEPT !.status = "failed", !.next = w]
      PROVE  /\ o \in DeliveryRow /\ o.d = obj.d /\ o.attempts = obj.attempts
             /\ o.status = "failed" /\ o.attempts < MaxAttempts
  <2>1. w \in Nat
    OBVIOUS
  <2>2. /\ o \in DeliveryRow /\ o.d = obj.d /\ o.attempts = obj.attempts
        /\ o.status = "failed"
    BY <1>4, <2>1 DEF DeliveryRow
  <2>3. obj.attempts \in Nat
    BY DEF DeliveryRow
  <2>4. QED
    BY <1>1, <1>4, <2>2, <2>3
<1>5. QED
  BY <1>2, <1>3, <1>4 DEF Outcome

\* Steps that change subscriptions only.
LEMMA SubscriptionKeepsInv ==
    ASSUME HookInv,
           sub' \in [Subscription -> SubscriptionRow \cup {None, Removed}],
           \A s \in Subscription : Rows(s)' => sub'[s].id = s,
           rotating' \in SubscriptionRow \cup {None},
           UNCHANGED <<row, fanout, sendVars, posts, lost, hiccups>>
    PROVE  HookInv'
  BY DEF HookInv, HookTypes, RowInv, FanoutInv, FlightInv, QueueInv, PostsCounted, sendVars

\* A sender stores what came of its attempt, and is done.
LEMMA StoreKeepsInv ==
    ASSUME HookInv, NEW f \in flight, NEW answer, NEW o \in Outcome(f.obj, answer),
           row' = [row EXCEPT ![o.d] = o], flight' = flight \ {f},
           UNCHANGED <<sub, fanout, queue, polling, rotating, posts, lost, hiccups>>
    PROVE  HookInv'
<1> DEFINE d == f.obj.d
<1>1. /\ f \in FlightType /\ f.obj \in DeliveryRow /\ d \in Delivery
      /\ row \in [Delivery -> DeliveryRow \cup {None}]
      /\ row[d] # None /\ f.obj.attempts <= MaxAttempts
      /\ f.obj.attempts = row[d].attempts + 1 /\ row[d] \in DeliveryRow
  BY DEF HookInv, HookTypes, FlightInv, FlightType, DeliveryRow
<1>2. /\ o \in DeliveryRow /\ o.d = d /\ o.attempts = f.obj.attempts
      /\ o.status # "pending"
      /\ o.status = "failed" => o.attempts < MaxAttempts
      /\ o.status # "failed" => o.next = None
  BY <1>1, OutcomeFacts
<1> HIDE DEF d
<1>3. /\ row' \in [Delivery -> DeliveryRow \cup {None}]
      /\ row'[d] = o /\ o # None
      /\ \A x \in Delivery : x # d => row'[x] = row[x]
  BY <1>1, <1>2, WebhooksAssumption
<1>4. HookTypes'
  BY <1>2, <1>3 DEF HookInv, HookTypes, Rows
<1>5. RowInv'
  BY <1>1, <1>2, <1>3 DEF HookInv, RowInv
<1>6. FanoutInv'
  BY <1>1, <1>3 DEF HookInv, HookTypes, FanoutInv, Delivery, SubscriptionRow
<1>7. \A g \in flight' : g \in flight /\ g.obj.d # d /\ g.obj.d \in Delivery
  BY DEF HookInv, HookTypes, FlightInv, FlightType, DeliveryRow, d
<1>8. FlightInv'
  BY <1>3, <1>7 DEF HookInv, FlightInv
<1>9. QueueInv'
  <2>1. \A i \in Instance : \A p \in queue[i] : p.d # d /\ p.d \in Delivery
    BY DEF HookInv, HookTypes, QueueInv, DeliveryRow, d
  <2>2. QED
    BY <1>3, <1>7, <2>1 DEF HookInv, QueueInv
<1>10. PostsCounted'
  <2>1. posts[d] <= row[d].attempts + 1 + hiccups
    BY <1>1 DEF HookInv, PostsCounted
  <2>2. posts[d] \in Nat /\ hiccups \in Nat /\ row[d].attempts \in Nat
    BY <1>1 DEF HookInv, HookTypes, DeliveryRow
  <2>3. posts'[d] <= row'[d].attempts + hiccups'
    BY <1>1, <1>2, <1>3, <2>1, <2>2
  <2>4. posts'[d] <= row'[d].attempts + 1 + hiccups'
    BY <1>1, <1>2, <1>3, <2>1, <2>2
  <2>5. \A x \in Delivery : x # d =>
           /\ (\A g \in flight' : g.obj.d # x) => (\A g \in flight : g.obj.d # x)
           /\ row'[x] = row[x]
    BY <1>3 DEF d
  <2>6. QED
    BY <1>3, <2>3, <2>4, <2>5 DEF HookInv, PostsCounted
<1>11. QED
  BY <1>4, <1>5, <1>6, <1>8, <1>9, <1>10 DEF HookInv

LEMMA DeliverKeepsInv ==
    ASSUME HookInv, NEW f \in flight, Deliver(f)
    PROVE  HookInv'
<1>1. f \in FlightType
  BY DEF HookInv, HookTypes
<1>2. ASSUME NEW answer, NEW o \in Outcome(f.obj, answer),
             row' = [row EXCEPT ![o.d] = o], flight' = flight \ {f}, UNCHANGED sub
      PROVE  HookInv'
  BY <1>2, StoreKeepsInv DEF Deliver
<1>3. CASE /\ ~f.gone
           /\ sub' = [sub EXCEPT ![f.to.id] = [f.to EXCEPT !.active = FALSE]]
           /\ flight' = (flight \ {f}) \cup {[f EXCEPT !.gone = TRUE]}
           /\ UNCHANGED row
  <2> DEFINE g == [f EXCEPT !.gone = TRUE]
             t == [f.to EXCEPT !.active = FALSE]
  <2>1. g \in FlightType /\ g.obj = f.obj /\ g.to = f.to /\ g.by = f.by
    BY <1>1 DEF FlightType
  <2>2. t \in SubscriptionRow /\ t.id = f.to.id /\ t.id \in Subscription
    BY <1>1 DEF FlightType, SubscriptionRow
  <2>3. flight' = (flight \ {f}) \cup {g} /\ sub' = [sub EXCEPT ![t.id] = t]
    BY <1>3, <2>2
  <2> HIDE DEF g, t
  <2>4. /\ sub' \in [Subscription -> SubscriptionRow \cup {None, Removed}]
        /\ \A s \in Subscription : Rows(s)' => sub'[s].id = s
    BY <2>2, <2>3 DEF HookInv, HookTypes, Rows
  <2>5. HookTypes'
    BY <1>3, <2>1, <2>3, <2>4 DEF Deliver, HookInv, HookTypes
  <2>6. RowInv' /\ FanoutInv'
    BY <1>3 DEF Deliver, HookInv, RowInv, FanoutInv
  <2>7. FlightInv'
    BY <1>3, <2>1, <2>3 DEF Deliver, HookInv, FlightInv
  <2>8. QueueInv'
    BY <1>3, <2>1, <2>3 DEF Deliver, HookInv, QueueInv
  <2>9. PostsCounted'
    BY <1>3, <2>1, <2>3 DEF Deliver, HookInv, PostsCounted
  <2>10. QED
    BY <2>5, <2>6, <2>7, <2>8, <2>9 DEF HookInv
<1>4. QED
  BY <1>2, <1>3 DEF Deliver, deliver

\* emit() remembers rows of subscriptions, one per id, none of which it served.
LEMMA EmitKeepsInv ==
    ASSUME HookInv, NEW e \in Event, emit(e)
    PROVE  HookInv'
<1> DEFINE S == {sub[s] : s \in {t \in Subscription :
                    Rows(t) /\ sub[t].active /\ e \in sub[t].events}}
<1>1. /\ fanout[e] = None /\ fanout' = [fanout EXCEPT ![e] = S]
      /\ UNCHANGED <<sub, row, flight, queue, polling, rotating, posts, hiccups>>
  BY DEF emit, sendVars
<1>2. S \subseteq SubscriptionRow /\ \A s \in S : s.id \in Subscription /\ s = sub[s.id]
  BY DEF HookInv, HookTypes, Rows, SubscriptionRow
<1> HIDE DEF S
<1>3. /\ DOMAIN fanout' = Event /\ fanout'[e] = S
      /\ \A x \in Event : x # e => fanout'[x] = fanout[x]
  BY <1>1 DEF HookInv, HookTypes
<1>4. HookTypes'
  BY <1>1, <1>2, <1>3 DEF HookInv, HookTypes, Rows
<1>5. FanoutInv'
  <2>1. S # None
    BY <1>2, WebhooksAssumption
  <2>2. \A s, t \in S : row[<<e, s.id>>] = None /\ (s.id = t.id => s = t)
    BY <1>1, <1>2 DEF HookInv, FanoutInv
  <2>3. QED
    BY <1>1, <1>3, <2>1, <2>2 DEF HookInv, FanoutInv
<1>6. QED
  BY <1>1, <1>4, <1>5 DEF HookInv, RowInv, FlightInv, QueueInv, PostsCounted

\* Serving a subscription inserts a row and sends it for the first time.
LEMMA ServeKeepsInv ==
    ASSUME HookInv, NEW e \in Event, fanout[e] # None, NEW s \in fanout[e], serve(e, s)
    PROVE  HookInv'
<1> DEFINE d == <<e, s.id>>
           o == [d |-> d, status |-> "pending", attempts |-> 0, next |-> None]
           f == [obj |-> [o EXCEPT !.attempts = @ + 1], to |-> s, by |-> e, gone |-> FALSE]
<1>1. /\ s \in SubscriptionRow /\ s.id \in Subscription /\ d \in Delivery
      /\ fanout[e] \subseteq SubscriptionRow
      /\ row[d] = None /\ \A t \in fanout[e] : t.id = s.id => t = s
  BY DEF HookInv, HookTypes, FanoutInv, SubscriptionRow, Delivery
<1>2. o \in DeliveryRow /\ o.d = d /\ o.status = "pending" /\ o.attempts = 0 /\ o.next = None
  BY <1>1 DEF DeliveryRow
<1>3. /\ f \in FlightType /\ f.obj.d = d /\ f.obj.attempts = 1 /\ f.by = e
  BY <1>1 DEF DeliveryRow, FlightType
<1>4. /\ fanout' = [fanout EXCEPT ![e] = fanout[e] \ {s}]
      /\ row' = [row EXCEPT ![d] = o]
      /\ flight' = flight \cup {f}
      /\ posts' = [posts EXCEPT ![d] = posts[d] + 1]
      /\ UNCHANGED <<sub, queue, polling, rotating, hiccups>>
  BY DEF serve, Post
<1>5. e \notin Instance /\ MaxAttempts \in Nat /\ MaxAttempts >= 1 /\ o # None
  BY <1>2, WebhooksAssumption
<1>6. /\ \A x \in Delivery : x[1] # e => x # d
      /\ \A t \in fanout[e] : t # s => <<e, t.id>> # d
      /\ \A x \in Event, t \in Subscription : x # e => <<x, t>> # d
  BY <1>1
<1> HIDE DEF o, f, d
<1>7. /\ row' \in [Delivery -> DeliveryRow \cup {None}]
      /\ row'[d] = o /\ \A x \in Delivery : x # d => row'[x] = row[x]
  BY <1>1, <1>2, <1>4 DEF HookInv, HookTypes
<1>8. /\ DOMAIN fanout' = Event /\ fanout'[e] = fanout[e] \ {s}
      /\ \A x \in Event : x # e => fanout'[x] = fanout[x]
  BY <1>4 DEF HookInv, HookTypes
<1>9. /\ posts' \in [Delivery -> Nat] /\ posts'[d] = 1
      /\ \A x \in Delivery : x # d => posts'[x] = posts[x]
  BY <1>1, <1>4 DEF HookInv, HookTypes, PostsCounted
<1>10. HookTypes'
  BY <1>1, <1>2, <1>3, <1>4, <1>7, <1>8, <1>9 DEF HookInv, HookTypes, Rows
<1>11. RowInv'
  BY <1>2, <1>5, <1>7 DEF HookInv, RowInv
<1>12. FanoutInv'
  <2>1. \A x \in Event, t \in Subscription : <<x, t>> \in Delivery
    BY DEF Delivery
  <2>2. \A t \in fanout[e] \ {s} : t.id \in Subscription /\ <<e, t.id>> # d
    BY <1>1, <1>6 DEF SubscriptionRow
  <2>3. ASSUME NEW x \in Event, x # e
        PROVE  /\ fanout'[x] = None => \A t \in Subscription : row'[<<x, t>>] = None
               /\ fanout'[x] # None => \A t, u \in fanout'[x] :
                    row'[<<x, t.id>>] = None /\ (t.id = u.id => t = u)
    <3>1. \A t \in Subscription : row'[<<x, t>>] = row[<<x, t>>]
      BY <1>6, <1>7, <2>1, <2>3
    <3>2. fanout[x] # None => \A t \in fanout[x] : t.id \in Subscription
      BY DEF HookInv, HookTypes, SubscriptionRow
    <3>3. QED
      BY <1>8, <2>3, <3>1, <3>2 DEF HookInv, FanoutInv
  <2>4. fanout'[e] # None
    BY <1>1, <1>8, WebhooksAssumption
  <2>5. \A t, u \in fanout'[e] : row'[<<e, t.id>>] = None /\ (t.id = u.id => t = u)
    BY <1>7, <1>8, <2>1, <2>2 DEF HookInv, FanoutInv
  <2>6. QED
    BY <2>3, <2>4, <2>5 DEF FanoutInv
<1>13. /\ \A g \in flight : g.obj.d \in Delivery /\ g.obj.d # d
       /\ \A i \in Instance : \A p \in queue[i] : p.d \in Delivery /\ p.d # d
  BY <1>1, WebhooksAssumption
     DEF HookInv, HookTypes, FlightInv, QueueInv, FlightType, DeliveryRow
<1>14. FlightInv'
  BY <1>2, <1>3, <1>4, <1>5, <1>7, <1>13 DEF HookInv, FlightInv
<1>15. QueueInv'
  BY <1>3, <1>4, <1>7, <1>13 DEF HookInv, QueueInv
<1>16. PostsCounted'
  <2>1. hiccups \in Nat
    BY DEF HookInv, HookTypes
  <2>2. posts'[d] <= row'[d].attempts + 1 + hiccups'
    BY <1>2, <1>4, <1>7, <1>9, <2>1
  <2>3. ~ \A g \in flight' : g.obj.d # d
    BY <1>3, <1>4
  <2>4. QED
    BY <1>3, <1>4, <1>5, <1>7, <1>9, <2>2, <2>3 DEF HookInv, PostsCounted
<1>17. QED
  BY <1>10, <1>11, <1>12, <1>14, <1>15, <1>16 DEF HookInv

\* A batch of due rows: with one poller that is not at work, nobody sends them.
LEMMA ProcessDueKeepsInv ==
    ASSUME HookInv, OnePoller, NEW i \in Instance, processDue(i)
    PROVE  HookInv'
<1>1. PICK work \in SUBSET findDueDeliveries : queue' = [queue EXCEPT ![i] = work]
  BY DEF processDue, kSubset
<1>2. /\ i \notin polling /\ polling' = polling \cup {i}
      /\ UNCHANGED <<sub, row, fanout, flight, rotating, posts, hiccups>>
  BY DEF processDue
<1>3. \A o \in work : /\ o \in DeliveryRow /\ row[o.d] = o /\ row[o.d] # None
                      /\ o.d \in Delivery /\ o.status = "failed" /\ o.next = 0
  BY <1>1 DEF findDueDeliveries, HookInv, HookTypes
<1>4. /\ queue' \in [Instance -> SUBSET DeliveryRow] /\ queue'[i] = work
      /\ \A j \in Instance : j = i
  BY <1>1, <1>3 DEF HookInv, HookTypes, OnePoller
<1>5. \A f \in flight : f.by \in Event /\ row[f.obj.d].status = "pending"
  BY <1>2, <1>4 DEF HookInv, HookTypes, FlightType, FlightInv
<1>6. HookTypes'
  BY <1>2, <1>4 DEF HookInv, HookTypes, Rows
<1>7. FlightInv' /\ RowInv' /\ FanoutInv' /\ PostsCounted'
  BY <1>2 DEF HookInv, FlightInv, RowInv, FanoutInv, PostsCounted
<1>8. QueueInv'
  BY <1>2, <1>3, <1>4, <1>5 DEF QueueInv
<1>9. QED
  BY <1>6, <1>7, <1>8 DEF HookInv

\* The poller sends its next object, or gives it up without a subscription.
LEMMA RedeliverKeepsInv ==
    ASSUME HookInv, OnePoller, NEW i \in Instance, NEW o \in queue[i], redeliver(i, o)
    PROVE  HookInv'
<1>1. /\ o \in DeliveryRow /\ o.d \in Delivery /\ o.d[2] \in Subscription
      /\ row[o.d] = o /\ o # None
      /\ o.status = "failed" /\ o.attempts < MaxAttempts /\ o.attempts \in Nat
      /\ i \in polling /\ \A f \in flight : f.obj.d # o.d
      /\ i \notin Event /\ MaxAttempts \in Nat
  BY WebhooksAssumption
     DEF HookInv, HookTypes, QueueInv, RowInv, DeliveryRow, Delivery
<1>2. /\ \A f \in flight : f.by # i
      /\ queue' = [queue EXCEPT ![i] = queue[i] \ {o}]
      /\ UNCHANGED <<sub, fanout, polling, rotating, hiccups>>
  BY DEF redeliver
<1>3. /\ queue' \in [Instance -> SUBSET DeliveryRow] /\ queue'[i] = queue[i] \ {o}
      /\ \A j \in Instance : j = i
  BY <1>2 DEF HookInv, HookTypes, OnePoller
<1>4. \A p \in queue'[i] : p \in queue[i] /\ p.d # o.d /\ p.d \in Delivery
  BY <1>1, <1>3 DEF HookInv, HookTypes, QueueInv, DeliveryRow
<1>5. CASE Rows(o.d[2]) /\ sub[o.d[2]].active
  <2> DEFINE t == sub[o.d[2]]
             f == [obj |-> [o EXCEPT !.attempts = o.attempts + 1], to |-> t, by |-> i,
                   gone |-> FALSE]
  <2>1. t \in SubscriptionRow
    BY <1>1, <1>5 DEF HookInv, HookTypes, Rows
  <2>2. /\ f \in FlightType /\ f.obj.d = o.d /\ f.obj.attempts = o.attempts + 1 /\ f.by = i
    BY <1>1, <2>1 DEF FlightType, DeliveryRow
  <2>3. /\ flight' = flight \cup {f} /\ UNCHANGED row
        /\ posts' = [posts EXCEPT ![o.d] = posts[o.d] + 1]
    BY <1>5 DEF redeliver, Post
  <2> HIDE DEF f
  <2>4. /\ posts' \in [Delivery -> Nat] /\ posts'[o.d] = posts[o.d] + 1
        /\ \A x \in Delivery : x # o.d => posts'[x] = posts[x]
    BY <1>1, <2>3 DEF HookInv, HookTypes
  <2>5. HookTypes'
    BY <1>2, <1>3, <2>2, <2>3, <2>4 DEF HookInv, HookTypes, Rows
  <2>6. RowInv' /\ FanoutInv'
    BY <1>2, <2>3 DEF HookInv, RowInv, FanoutInv
  <2>7. FlightInv'
    BY <1>1, <1>2, <2>2, <2>3 DEF HookInv, FlightInv
  <2>8. QueueInv'
    BY <1>2, <1>3, <1>4, <2>2, <2>3 DEF HookInv, QueueInv
  <2>9. PostsCounted'
    <3>1. posts[o.d] <= o.attempts + hiccups /\ posts[o.d] \in Nat /\ hiccups \in Nat
      BY <1>1 DEF HookInv, HookTypes, PostsCounted
    <3>2. posts'[o.d] <= row'[o.d].attempts + 1 + hiccups'
      BY <1>1, <1>2, <2>3, <2>4, <3>1
    <3>3. ~ \A g \in flight' : g.obj.d # o.d
      BY <2>2, <2>3
    <3>4. QED
      BY <1>1, <1>2, <2>2, <2>3, <2>4, <3>2, <3>3 DEF HookInv, PostsCounted
  <2>10. QED
    BY <2>5, <2>6, <2>7, <2>8, <2>9 DEF HookInv
<1>6. CASE ~ (Rows(o.d[2]) /\ sub[o.d[2]].active)
  <2> DEFINE x == [o EXCEPT !.status = "exhausted", !.next = None]
  <2>1. /\ x \in DeliveryRow /\ x.d = o.d /\ x.attempts = o.attempts
        /\ x.status = "exhausted" /\ x.next = None
    BY <1>1 DEF DeliveryRow
  <2>2. row' = [row EXCEPT ![o.d] = x] /\ UNCHANGED <<flight, posts>>
    BY <1>6 DEF redeliver
  <2>3. x # None
    BY <2>1, WebhooksAssumption
  <2> HIDE DEF x
  <2>4. /\ row' \in [Delivery -> DeliveryRow \cup {None}] /\ row'[o.d] = x
        /\ \A d \in Delivery : d # o.d => row'[d] = row[d]
    BY <1>1, <2>1, <2>2 DEF HookInv, HookTypes
  <2>5. HookTypes'
    BY <1>2, <1>3, <2>1, <2>2, <2>4 DEF HookInv, HookTypes, Rows
  <2>6. RowInv'
    BY <1>1, <2>1, <2>4 DEF HookInv, RowInv
  <2>7. FanoutInv'
    BY <1>1, <1>2, <2>4 DEF HookInv, HookTypes, FanoutInv, Delivery, SubscriptionRow
  <2>8. FlightInv'
    <3>1. \A g \in flight : g.obj.d \in Delivery /\ g.obj.d # o.d
      BY <1>1 DEF HookInv, HookTypes, FlightType, DeliveryRow
    <3>2. QED
      BY <1>2, <2>2, <2>4, <3>1 DEF HookInv, FlightInv
  <2>9. QueueInv'
    BY <1>2, <1>3, <1>4, <2>2, <2>4 DEF HookInv, QueueInv
  <2>10. PostsCounted'
    BY <1>1, <1>2, <2>1, <2>2, <2>3, <2>4 DEF HookInv, PostsCounted
  <2>11. QED
    BY <2>5, <2>6, <2>7, <2>8, <2>9, <2>10 DEF HookInv
<1>7. QED
  BY <1>5, <1>6

\* The batch is done: nothing of it is left in the queue or on its way.
LEMMA TickEndsKeepsInv ==
    ASSUME HookInv, OnePoller, NEW i \in Instance, tickEnds(i)
    PROVE  HookInv'
<1>1. /\ queue[i] = {} /\ (\A f \in flight : f.by # i) /\ polling' = polling \ {i}
      /\ UNCHANGED <<sub, row, fanout, flight, queue, rotating, posts, hiccups>>
  BY DEF tickEnds
<1>2. HookTypes' /\ RowInv' /\ FanoutInv' /\ PostsCounted'
  BY <1>1 DEF HookInv, HookTypes, RowInv, FanoutInv, PostsCounted, Rows
<1>3. FlightInv' /\ QueueInv'
  BY <1>1 DEF HookInv, FlightInv, QueueInv
<1>4. QED
  BY <1>2, <1>3 DEF HookInv

\* A sender is cut off: its attempt counts as a hiccup, its batch is given up.
LEMMA CutOffKeepsInv ==
    ASSUME HookInv, OnePoller, NEW f \in flight, CutOff(f)
    PROVE  HookInv'
<1>1. /\ f \in FlightType /\ hiccups' = hiccups + 1 /\ flight' = flight \ {f}
      /\ UNCHANGED <<sub, row, fanout, rotating, posts>>
  BY DEF CutOff, HookInv, HookTypes
<1>2. /\ queue' \in [Instance -> SUBSET DeliveryRow]
      /\ \A i \in Instance : queue'[i] \subseteq queue[i]
      /\ \A i \in Instance : i \in polling /\ i \notin polling' => queue'[i] = {} /\ i = f.by
  <2>1. CASE f.by \in Event
    BY <2>1 DEF CutOff, HookInv, HookTypes
  <2>2. CASE f.by \notin Event
    BY <1>1, <2>2 DEF CutOff, HookInv, HookTypes, FlightType
  <2>3. QED
    BY <2>1, <2>2
<1>3. HookTypes' /\ RowInv' /\ FanoutInv'
  BY <1>1, <1>2 DEF HookInv, HookTypes, RowInv, FanoutInv, Rows
<1>4. FlightInv'
  BY <1>1, <1>2 DEF HookInv, FlightInv
<1>5. QueueInv'
  BY <1>1, <1>2 DEF HookInv, QueueInv
<1>6. PostsCounted'
  <2>1. ASSUME NEW d \in Delivery, row[d] # None
        PROVE  posts[d] <= row[d].attempts + (hiccups + 1) /\
               posts[d] <= row[d].attempts + 1 + (hiccups + 1)
    <3>1. /\ row[d].attempts \in Nat /\ hiccups \in Nat /\ posts[d] \in Nat
          /\ posts[d] <= row[d].attempts + 1 + hiccups
      BY <2>1 DEF HookInv, HookTypes, DeliveryRow, PostsCounted
    <3>2. QED
      BY <3>1
  <2>2. QED
    BY <1>1, <2>1 DEF HookInv, PostsCounted
<1>7. QED
  BY <1>3, <1>4, <1>5, <1>6 DEF HookInv

\* Time passes for the rows that wait; a due row does not move any more.
LEMMA ElapseKeepsInv ==
    ASSUME HookInv, Elapse
    PROVE  HookInv'
<1>1. UNCHANGED <<sub, fanout, flight, queue, polling, rotating, posts, hiccups>>
  BY DEF Elapse, sendVars
<1>2. ASSUME NEW d \in Delivery
      PROVE  /\ row[d] = None => row'[d] = None
             /\ row[d] # None =>
                  /\ row'[d] \in DeliveryRow /\ row'[d] # None
                  /\ row'[d].d = row[d].d /\ row'[d].status = row[d].status
                  /\ row'[d].attempts = row[d].attempts
                  /\ row[d].next \in {None, 0} => row'[d] = row[d]
  <2>1. row'[d] = IF row[d] # None /\ row[d].next \notin {None, 0}
                  THEN [row[d] EXCEPT !.next = row[d].next - 1] ELSE row[d]
    BY DEF Elapse
  <2>2. row[d] # None => row[d] \in DeliveryRow
    BY DEF HookInv, HookTypes
  <2>3. CASE row[d] # None /\ row[d].next \notin {None, 0}
    <3>1. row[d].next - 1 \in Nat
      BY <2>2, <2>3 DEF DeliveryRow
    <3>2. /\ row'[d] \in DeliveryRow /\ row'[d].d = row[d].d
          /\ row'[d].status = row[d].status /\ row'[d].attempts = row[d].attempts
      BY <2>1, <2>2, <2>3, <3>1 DEF DeliveryRow
    <3>3. QED
      BY <2>3, <3>2, WebhooksAssumption
  <2>4. CASE ~ (row[d] # None /\ row[d].next \notin {None, 0})
    BY <2>1, <2>2, <2>4
  <2>5. QED
    BY <2>3, <2>4
<1>3. row' \in [Delivery -> DeliveryRow \cup {None}]
  <2>1. row' = [d \in Delivery |-> row'[d]]
    BY DEF Elapse
  <2>2. QED
    BY <1>2, <2>1
<1>4. HookTypes'
  BY <1>1, <1>2, <1>3 DEF HookInv, HookTypes, Rows
<1>5. RowInv'
  BY <1>2 DEF HookInv, RowInv
<1>6. FanoutInv'
  BY <1>1, <1>2 DEF HookInv, HookTypes, FanoutInv, Delivery, SubscriptionRow
<1>7. FlightInv'
  <2>1. \A f \in flight : f.obj.d \in Delivery
    BY DEF HookInv, HookTypes, FlightType, DeliveryRow
  <2>2. QED
    BY <1>1, <1>2, <2>1 DEF HookInv, FlightInv
<1>8. QueueInv'
  <2>1. \A i \in Instance : \A o \in queue[i] :
          o.d \in Delivery /\ row[o.d] = o /\ row[o.d] # None /\ row[o.d].next = 0
    BY WebhooksAssumption DEF HookInv, HookTypes, QueueInv, DeliveryRow
  <2>2. \A i \in Instance : \A o \in queue[i] : row'[o.d] = o
    BY <1>2, <2>1
  <2>3. QED
    BY <1>1, <2>2 DEF HookInv, QueueInv
<1>9. PostsCounted'
  BY <1>1, <1>2 DEF HookInv, PostsCounted
<1>10. QED
  BY <1>4, <1>5, <1>6, <1>7, <1>8, <1>9 DEF HookInv

\* Subscriptions are created, removed and rotated.
LEMMA AdminKeepsInv ==
    ASSUME HookInv, NEW s \in Subscription, create(s) \/ remove(s) \/ Rotate(s)
    PROVE  HookInv'
<1>1. /\ sub \in [Subscription -> SubscriptionRow \cup {None, Removed}]
      /\ \A t \in Subscription : Rows(t) => sub[t].id = t
      /\ rotating \in SubscriptionRow \cup {None}
  BY DEF HookInv, HookTypes
<1>2. CASE create(s)
  <2>1. PICK events \in EventSets :
          sub' = [sub EXCEPT ![s] = [id |-> s, events |-> events, active |-> TRUE]]
    BY <1>2 DEF create
  <2>2. [id |-> s, events |-> events, active |-> TRUE] \in SubscriptionRow
    BY DEF SubscriptionRow
  <2>3. /\ sub' \in [Subscription -> SubscriptionRow \cup {None, Removed}]
        /\ \A t \in Subscription : Rows(t)' => sub'[t].id = t
    BY <1>1, <2>1, <2>2 DEF Rows
  <2>4. QED
    BY <1>1, <1>2, <2>3, SubscriptionKeepsInv DEF create
<1>3. CASE remove(s)
  <2>1. /\ sub' \in [Subscription -> SubscriptionRow \cup {None, Removed}]
        /\ \A t \in Subscription : Rows(t)' => sub'[t].id = t
    BY <1>1, <1>3 DEF remove, Rows
  <2>2. QED
    BY <1>1, <1>3, <2>1, SubscriptionKeepsInv DEF remove
<1>4. CASE Rotate(s)
  <2>1. /\ sub' \in [Subscription -> SubscriptionRow \cup {None, Removed}]
        /\ \A t \in Subscription : Rows(t)' => sub'[t].id = t
        /\ rotating' \in SubscriptionRow \cup {None}
    BY <1>1, <1>4 DEF Rotate, rotateSecret, Rows
  <2>2. QED
    BY <1>4, <2>1, SubscriptionKeepsInv DEF Rotate
<1>5. QED
  BY <1>2, <1>3, <1>4

\* A subscription that could not be served is left out.
LEMMA InsertFailsKeepsInv ==
    ASSUME HookInv, NEW e \in Event, fanout[e] # None, NEW s \in fanout[e], InsertFails(e, s)
    PROVE  HookInv'
<1>1. /\ fanout' = [fanout EXCEPT ![e] = fanout[e] \ {s}] /\ hiccups' = hiccups + 1
      /\ UNCHANGED <<sub, row, flight, queue, polling, rotating, posts>>
  BY DEF InsertFails, sendVars
<1>2. /\ DOMAIN fanout' = Event /\ fanout'[e] = fanout[e] \ {s} /\ fanout'[e] # None
      /\ fanout[e] \subseteq SubscriptionRow
      /\ \A x \in Event : x # e => fanout'[x] = fanout[x]
  BY <1>1, WebhooksAssumption DEF HookInv, HookTypes
<1>3. HookTypes' /\ FanoutInv'
  BY <1>1, <1>2 DEF HookInv, HookTypes, FanoutInv, Rows
<1>4. RowInv' /\ FlightInv' /\ QueueInv'
  BY <1>1 DEF HookInv, RowInv, FlightInv, QueueInv
<1>5. PostsCounted'
  <2>1. ASSUME NEW d \in Delivery, row[d] # None
        PROVE  /\ posts[d] <= row[d].attempts + hiccups => posts[d] <= row[d].attempts + (hiccups + 1)
               /\ posts[d] <= row[d].attempts + 1 + (hiccups + 1)
    <3>1. /\ row[d].attempts \in Nat /\ hiccups \in Nat /\ posts[d] \in Nat
          /\ posts[d] <= row[d].attempts + 1 + hiccups
      BY <2>1 DEF HookInv, HookTypes, DeliveryRow, PostsCounted
    <3>2. QED
      BY <3>1
  <2>2. QED
    BY <1>1, <2>1 DEF HookInv, PostsCounted
<1>6. QED
  BY <1>3, <1>4, <1>5 DEF HookInv

LEMMA HookInvInductive ==
    ASSUME OnePoller
    PROVE  (WebhookInit => HookInv) /\ (HookInv /\ [WebhookNext]_webhookVars => HookInv')
<1>1. WebhookInit => HookInv
  BY WebhooksAssumption
     DEF WebhookInit, HookInv, HookTypes, RowInv, FanoutInv, FlightInv, QueueInv,
         PostsCounted, Rows, Delivery
<1>2. ASSUME HookInv, [WebhookNext]_webhookVars
      PROVE  HookInv'
  <2>1. CASE Admin
    BY <1>2, <2>1, AdminKeepsInv DEF Admin
  <2>2. CASE Poll
    BY <1>2, <2>2, ProcessDueKeepsInv, TickEndsKeepsInv, RedeliverKeepsInv DEF Poll
  <2>3. CASE Fanout
    BY <1>2, <2>3, ServeKeepsInv DEF Fanout
  <2>4. CASE Fails
    BY <1>2, <2>4, CutOffKeepsInv, InsertFailsKeepsInv DEF Fails
  <2>5. CASE Elapse
    BY <1>2, <2>5, ElapseKeepsInv
  <2>6. ASSUME NEW e \in Event, emit(e) PROVE HookInv'
    BY <1>2, <2>6, EmitKeepsInv
  <2>7. ASSUME NEW f \in flight, Deliver(f) PROVE HookInv'
    BY <1>2, <2>7, DeliverKeepsInv
  <2>8. CASE UNCHANGED webhookVars
    BY <1>2, <2>8
       DEF webhookVars, sendVars, HookInv, HookTypes, RowInv, FanoutInv, FlightInv,
           QueueInv, PostsCounted, Rows
  <2>9. QED
    BY <1>2, <2>1, <2>2, <2>3, <2>4, <2>5, <2>6, <2>7, <2>8 DEF WebhookNext
<1>3. QED
  BY <1>1, <1>2

\* A delivery is sent at most maxAttempts times, plus once for each sender that
\* was cut off, for any number of events and subscriptions: deliver() counts the
\* attempt in the row before the poller can see it again.
THEOREM WebhookSendsBounded ==
    ASSUME OnePoller
    PROVE  WebhookSpec => []SendsBounded
<1>1. ASSUME HookInv PROVE SendsBounded
  <2>1. ASSUME NEW d \in Delivery PROVE posts[d] <= MaxAttempts + hiccups
    <3>1. MaxAttempts \in Nat /\ hiccups \in Nat /\ posts[d] \in Nat
      BY <1>1, WebhooksAssumption DEF HookInv, HookTypes
    <3>2. CASE row[d] = None
      BY <1>1, <3>1, <3>2 DEF HookInv, PostsCounted
    <3>3. CASE row[d] # None
      <4>1. row[d].attempts \in Nat /\ row[d].attempts <= MaxAttempts
        BY <1>1, <3>3 DEF HookInv, HookTypes, RowInv, DeliveryRow
      <4>2. CASE \A f \in flight : f.obj.d # d
        BY <1>1, <3>1, <3>3, <4>1, <4>2 DEF HookInv, PostsCounted
      <4>3. CASE ~ \A f \in flight : f.obj.d # d
        <5>1. row[d].attempts + 1 <= MaxAttempts
          BY <1>1, <4>3 DEF HookInv, FlightInv
        <5>2. posts[d] <= row[d].attempts + 1 + hiccups
          BY <1>1, <3>3 DEF HookInv, PostsCounted
        <5>3. QED
          BY <3>1, <4>1, <5>1, <5>2
      <4>4. QED
        BY <4>2, <4>3
    <3>4. QED
      BY <3>2, <3>3
  <2>2. QED
    BY <2>1 DEF SendsBounded
<1>2. QED
  BY <1>1, HookInvInductive, PTL DEF WebhookSpec

\* A delivered or exhausted delivery is never sent or changed again, although
\* senders hold objects they read before (webhooks.service.ts saves whole rows).
THEOREM WebhookEndedStays ==
    ASSUME OnePoller
    PROVE  WebhookSpec => EndedStays
<1> DEFINE Stays(d) == HasEnded(d) => row'[d] = row[d] /\ posts'[d] = posts[d]
           A == \A d \in Delivery : Stays(d)
<1>1. ASSUME HookInv, WebhookNext PROVE A
  <2>0. SUFFICES ASSUME NEW d \in Delivery, HasEnded(d)
                 PROVE  row'[d] = row[d] /\ posts'[d] = posts[d]
    OBVIOUS
  <2>1. /\ row[d] # None /\ row[d].status \in {"delivered", "exhausted"}
        /\ row[d].next = None
        /\ row \in [Delivery -> DeliveryRow \cup {None}] /\ posts \in [Delivery -> Nat]
    BY <1>1, <2>0 DEF HasEnded, HookInv, HookTypes, RowInv
  <2>2. /\ \A f \in flight : f.obj.d # d
        /\ \A i \in Instance : \A o \in queue[i] : o.d # d
    BY <1>1, <2>1 DEF HookInv, HookTypes, FlightInv, QueueInv, FlightType
  <2>3. CASE Admin
    BY <2>3 DEF Admin, create, remove, Rotate
  <2>4. CASE Poll
    <3>1. ASSUME NEW i \in Instance, NEW o \in queue[i], redeliver(i, o)
          PROVE  row'[d] = row[d] /\ posts'[d] = posts[d]
      BY <2>1, <2>2, <3>1 DEF redeliver, Post
    <3>2. QED
      BY <2>4, <3>1 DEF Poll, processDue, tickEnds
  <2>5. ASSUME NEW e \in Event, fanout[e] # None, NEW s \in fanout[e], serve(e, s)
        PROVE  row'[d] = row[d] /\ posts'[d] = posts[d]
    <3>1. row[<<e, s.id>>] = None
      BY <1>1, <2>5 DEF HookInv, FanoutInv
    <3>2. QED
      BY <2>1, <2>5, <3>1 DEF serve, Post
  <2>6. CASE Fails
    BY <2>6 DEF Fails, CutOff, InsertFails
  <2>7. CASE Elapse
    BY <2>1, <2>7 DEF Elapse
  <2>8. ASSUME NEW e \in Event, emit(e)
        PROVE  row'[d] = row[d] /\ posts'[d] = posts[d]
    BY <2>8 DEF emit
  <2>9. ASSUME NEW f \in flight, Deliver(f)
        PROVE  row'[d] = row[d] /\ posts'[d] = posts[d]
    <3>1. f.obj \in DeliveryRow /\ f.obj.attempts <= MaxAttempts /\ f.obj.d # d
      BY <1>1, <2>2 DEF HookInv, HookTypes, FlightInv, FlightType
    <3>2. \A answer : \A o \in Outcome(f.obj, answer) : o.d # d
      BY <3>1, OutcomeFacts
    <3>3. QED
      BY <2>1, <2>9, <3>2 DEF Deliver, deliver
  <2>10. QED
    BY <1>1, <2>3, <2>4, <2>5, <2>6, <2>7, <2>8, <2>9 DEF WebhookNext, Fanout
<1>2. HookInv /\ [WebhookNext]_webhookVars => [A]_webhookVars
  BY <1>1
<1>3. QED
  BY <1>2, HookInvInductive, PTL DEF WebhookSpec, EndedStays
----------------------------------------------------------------------------
(* The settlement export                                                   *)

Committed(i) == settlement[i].status \notin {"none", "begun"}

Started == export.over \/ export.cursor # FirstCursor

ExportTypes ==
    /\ stamp \in Nat
    /\ settlement \in [Id -> [status: {"none", "begun", "pending", "settled", "failed"},
                              createdAt: Nat]]
    /\ export \in [query: Queries, cursor: [at: Int, id: Int], got: [Id -> Nat],
                   headers: Nat, over: BOOLEAN]
    /\ steady \subseteq Id

\* The inductive invariant.  Between two pages the cursor parts the rows: what
\* was received lies before it, and so does what a later page cannot reach
\* any more, which therefore was received if it matched all along.
ExportInv ==
    /\ ExportTypes
    /\ export.headers = IF Started THEN 1 ELSE 0
    /\ \A i \in Id : export.got[i] > 0 =>
         export.got[i] = 1 /\ Committed(i) /\ (export.over \/ ~PastCursor(i))
    /\ \A i \in steady : Started => Committed(i)
    /\ \A i \in steady : export.over \/ ~PastCursor(i) => export.got[i] = 1

\* The rows are ordered strictly by createdAt and id.
LEMMA AfterOrder ==
    ASSUME ExportTypes, NEW i \in Id, NEW j \in Id
    PROVE  /\ ~After(Key(i), Key(i))
           /\ After(Key(i), Key(j)) => ~After(Key(j), Key(i))
           /\ i = j \/ After(Key(i), Key(j)) \/ After(Key(j), Key(i))
           /\ \A k \in Id : After(Key(i), Key(j)) /\ After(Key(j), Key(k))
                              => After(Key(i), Key(k))
           /\ After(Key(i), Key(j)) /\ PastCursor(j) => PastCursor(i)
  BY ExportAssumption DEF ExportTypes, After, Key, PastCursor, Id

LEMMA IdsFinite == ASSUME NEW s \in SUBSET Id PROVE IsFiniteSet(s)
<1>1. IsFiniteSet(Id)
  BY FS_Interval, ExportAssumption DEF Id
<1>2. QED
  BY <1>1, FS_Subset

\* A set of rows has a first and a last one.
LEMMA EndsExist ==
    ASSUME ExportTypes, NEW s \in SUBSET Id, s # {}
    PROVE  /\ \E i \in s : \A j \in s : i = j \/ After(Key(j), Key(i))
           /\ \E i \in s : \A j \in s : i = j \/ After(Key(i), Key(j))
<1> DEFINE HasEnds(t) ==
             /\ \E i \in t : \A j \in t : i = j \/ After(Key(j), Key(i))
             /\ \E i \in t : \A j \in t : i = j \/ After(Key(i), Key(j))
           Bad == {t \in SUBSET s : t # {} /\ ~HasEnds(t)}
<1>1. ASSUME Bad # {} PROVE FALSE
  <2>1. PICK t \in Bad : \A u \in SUBSET t : u # t => u \notin Bad
    <3>1. Bad \in SUBSET (SUBSET s) /\ IsFiniteSet(s)
      BY IdsFinite
    <3> HIDE DEF Bad
    <3>2. QED
      BY <1>1, <3>1, MinimalSubset
  <2>2. PICK x \in t : TRUE
    BY <2>1
  <2>3. CASE t = {x}
    BY <2>1, <2>3
  <2>4. CASE t # {x}
    <3>1. t \ {x} \in SUBSET s /\ t \ {x} # {} /\ t \ {x} \notin Bad
      BY <2>1, <2>2, <2>4
    <3>2. HasEnds(t \ {x})
      BY <3>1
    <3>3. PICK a \in t \ {x} : \A j \in t \ {x} : a = j \/ After(Key(j), Key(a))
      BY <3>2
    <3>4. PICK b \in t \ {x} : \A j \in t \ {x} : b = j \/ After(Key(b), Key(j))
      BY <3>2
    <3>5. \E i \in t : \A j \in t : i = j \/ After(Key(j), Key(i))
      <4>1. CASE After(Key(x), Key(a))
        BY <3>3, <4>1
      <4>2. CASE After(Key(a), Key(x))
        BY <2>1, <3>3, <4>2, AfterOrder
      <4>3. QED
        BY <2>1, <4>1, <4>2, AfterOrder
    <3>6. \E i \in t : \A j \in t : i = j \/ After(Key(i), Key(j))
      <4>1. CASE After(Key(b), Key(x))
        BY <3>4, <4>1
      <4>2. CASE After(Key(x), Key(b))
        BY <2>1, <3>4, <4>2, AfterOrder
      <4>3. QED
        BY <2>1, <4>1, <4>2, AfterOrder
    <3>7. QED
      BY <2>1, <3>5, <3>6
  <2>5. QED
    BY <2>3, <2>4
<1>2. QED
  BY <1>1

\* What ORDER BY and LIMIT n keep of a set of rows: an initial part of it, of
\* n rows unless that is all there are.
LEMMA FirstOfFacts ==
    ASSUME ExportTypes, NEW s \in SUBSET Id, NEW n \in Nat \ {0}
    PROVE  /\ FirstOf(n, s) \subseteq s
           /\ s # {} => FirstOf(n, s) # {}
           /\ \A i \in FirstOf(n, s) : \A j \in s \ FirstOf(n, s) : After(Key(j), Key(i))
           /\ Cardinality(FirstOf(n, s)) <= n
           /\ FirstOf(n, s) # s => Cardinality(FirstOf(n, s)) = n
<1> DEFINE Before(i) == {j \in s : After(Key(i), Key(j))}
           P == FirstOf(n, s)
<1>1. P \subseteq s /\ IsFiniteSet(s) /\ IsFiniteSet(P) /\ Cardinality(P) \in Nat
  BY IdsFinite, FS_CardinalityType DEF FirstOf
<1>2. \A i \in Id : IsFiniteSet(Before(i)) /\ Cardinality(Before(i)) \in Nat
  BY IdsFinite, FS_CardinalityType
<1>3. \A i \in s : i \in P <=> Cardinality(Before(i)) < n
  BY DEF FirstOf
<1>4. ASSUME s # {} PROVE P # {}
  <2>1. PICK i \in s : \A j \in s : i = j \/ After(Key(j), Key(i))
    BY <1>4, EndsExist
  <2>2. Before(i) = {}
    BY <2>1, AfterOrder
  <2>3. Cardinality(Before(i)) = 0
    BY <2>2, FS_EmptySet
  <2>4. QED
    BY <1>3, <2>3
<1>5. ASSUME NEW i \in P, NEW j \in s \ P PROVE After(Key(j), Key(i))
  <2>1. i # j /\ i \in Id /\ j \in Id
    BY <1>1, <1>5
  <2>2. ASSUME After(Key(i), Key(j)) PROVE FALSE
    <3>1. Before(j) \subseteq Before(i)
      BY <1>1, <2>1, <2>2, AfterOrder
    <3>2. Cardinality(Before(j)) <= Cardinality(Before(i))
      BY <1>2, <2>1, <3>1, FS_Subset
    <3>3. Cardinality(Before(i)) < n /\ ~(Cardinality(Before(j)) < n)
      BY <1>1, <1>3, <1>5
    <3>4. Cardinality(Before(i)) \in Nat /\ Cardinality(Before(j)) \in Nat
      BY <1>2, <2>1
    <3> HIDE DEF Before
    <3>5. QED
      BY <3>2, <3>3, <3>4
  <2>3. QED
    BY <2>1, <2>2, AfterOrder
<1>6. Cardinality(P) <= n
  <2>1. CASE P = {}
    BY <2>1, FS_EmptySet
  <2>2. CASE P # {}
    <3>1. PICK m \in P : \A j \in P : m = j \/ After(Key(m), Key(j))
      BY <1>1, <2>2, EndsExist
    <3>2. m \in Id /\ m \in s /\ m \notin Before(m)
      BY <1>1, <3>1, AfterOrder
    <3>3. P \subseteq Before(m) \cup {m}
      BY <1>1, <3>1
    <3>4. /\ IsFiniteSet(Before(m) \cup {m})
          /\ Cardinality(Before(m) \cup {m}) = Cardinality(Before(m)) + 1
      BY <1>2, <3>2, FS_AddElement
    <3>5. Cardinality(P) <= Cardinality(Before(m) \cup {m})
      BY <3>3, <3>4, FS_Subset
    <3>6. Cardinality(Before(m)) < n /\ Cardinality(Before(m)) \in Nat
      BY <1>2, <1>3, <3>1, <3>2
    <3> HIDE DEF Before, P
    <3>7. QED
      BY <1>1, <3>4, <3>5, <3>6
  <2>3. QED
    BY <2>1, <2>2
<1>7. ASSUME P # s PROVE Cardinality(P) = n
  <2>1. s \ P # {} /\ s \ P \in SUBSET Id
    BY <1>1, <1>7
  <2>2. PICK i \in s \ P : \A j \in s \ P : i = j \/ After(Key(j), Key(i))
    BY <2>1, EndsExist
  <2>3. Before(i) \subseteq P
    BY <2>2, AfterOrder
  <2>4. Cardinality(Before(i)) <= Cardinality(P)
    BY <1>1, <2>3, FS_Subset
  <2>5. ~(Cardinality(Before(i)) < n)
    BY <1>3, <2>2
  <2>6. QED
    BY <1>1, <1>2, <1>6, <2>2, <2>4, <2>5
<1>8. QED
  BY <1>1, <1>4, <1>5, <1>6, <1>7

\* A page is an initial part of what matches beyond the cursor, and all of it
\* when no row more than the page was read.
LEMMA PageFacts ==
    ASSUME ExportTypes, NEW found \in SUBSET Id, NEW rows, NEW page,
           rows = FirstOf(Limit + 1, found), page = FirstOf(Limit, rows)
    PROVE  /\ page \subseteq found
           /\ \A i \in page : \A j \in found \ page : After(Key(j), Key(i))
           /\ ~(Cardinality(rows) > Limit) => page = found
           /\ Cardinality(rows) > Limit =>
                /\ LastOf(page) \in page
                /\ \A j \in page : LastOf(page) = j \/ After(Key(LastOf(page)), Key(j))
<1>1. Limit \in Nat \ {0} /\ Limit + 1 \in Nat \ {0}
  BY ExportAssumption
<1>2. /\ rows \subseteq found
      /\ \A i \in rows : \A j \in found \ rows : After(Key(j), Key(i))
      /\ rows # found => Cardinality(rows) = Limit + 1
  BY <1>1, FirstOfFacts
<1>3. rows \in SUBSET Id /\ IsFiniteSet(rows) /\ Cardinality(rows) \in Nat
  BY <1>2, IdsFinite, FS_CardinalityType
<1>4. /\ page \subseteq rows
      /\ rows # {} => page # {}
      /\ \A i \in page : \A j \in rows \ page : After(Key(j), Key(i))
      /\ page # rows => Cardinality(page) = Limit
  BY <1>1, <1>3, FirstOfFacts
<1>5. ASSUME ~(Cardinality(rows) > Limit) PROVE page = found
  <2>1. rows = found
    BY <1>1, <1>2, <1>5
  <2>2. ASSUME page # rows PROVE FALSE
    <3>1. Cardinality(page) = Limit
      BY <1>4, <2>2
    <3>2. Cardinality(page) <= Cardinality(rows) /\ Cardinality(page) # Cardinality(rows)
      BY <1>3, <1>4, <2>2, FS_Subset
    <3>3. QED
      BY <1>1, <1>3, <1>5, <3>1, <3>2
  <2>3. QED
    BY <2>1, <2>2
<1>6. ASSUME Cardinality(rows) > Limit
      PROVE  /\ LastOf(page) \in page
             /\ \A j \in page : LastOf(page) = j \/ After(Key(LastOf(page)), Key(j))
  <2>1. rows # {}
    BY <1>1, <1>6, FS_EmptySet
  <2>2. page # {} /\ page \in SUBSET Id
    BY <1>3, <1>4, <2>1
  <2>3. \E i \in page : \A j \in page : i = j \/ After(Key(i), Key(j))
    BY <2>2, EndsExist
  <2>4. QED
    BY <2>3 DEF LastOf
<1>7. QED
  BY <1>2, <1>4, <1>5, <1>6

\* The cursor comes back as it went out.
LEMMA CursorReturns ==
    ASSUME ExportTypes, NEW i \in Id
    PROVE  decodeCursor(encodeCursor(Key(i))) = Key(i)
<1>1. PICK n \in Nat : settlement[i].createdAt = n
  BY DEF ExportTypes
<1>2. 2 * (n \div 2) + (n % 2) = n
  OBVIOUS
<1>3. QED
  BY <1>1, <1>2 DEF decodeCursor, encodeCursor, Key

LEMMA PageKeepsInv ==
    ASSUME ExportInv, exportPage
    PROVE  ExportInv'
<1> DEFINE found == {i \in Id : Matches(i) /\ PastCursor(i)}
<1>1. PICK rows, page :
        /\ rows = FirstOf(Limit + 1, found) /\ page = FirstOf(Limit, rows)
        /\ export' = [export EXCEPT
             !.got = [i \in Id |-> IF i \in page THEN export.got[i] + 1 ELSE export.got[i]],
             !.headers = IF export.cursor = FirstCursor THEN export.headers + 1
                         ELSE export.headers,
             !.over = ~(Cardinality(rows) > Limit),
             !.cursor = IF Cardinality(rows) > Limit
                          THEN decodeCursor(encodeCursor(Key(LastOf(page))))
                          ELSE export.cursor]
  BY DEF exportPage
<1>2. /\ ~export.over /\ UNCHANGED <<stamp, settlement>>
      /\ steady' = {i \in steady : Matches(i)}
  BY DEF exportPage
<1>3. ExportTypes /\ found \in SUBSET Id
  BY DEF ExportInv
<1>4. /\ page \subseteq found
      /\ \A i \in page : \A j \in found \ page : After(Key(j), Key(i))
      /\ ~(Cardinality(rows) > Limit) => page = found
      /\ Cardinality(rows) > Limit =>
           /\ LastOf(page) \in page
           /\ \A j \in page : LastOf(page) = j \/ After(Key(LastOf(page)), Key(j))
  <2> HIDE DEF found
  <2>1. QED
    BY <1>1, <1>3, PageFacts
<1>5. PICK more \in BOOLEAN : more <=> Cardinality(rows) > Limit
  OBVIOUS
<1>6. /\ export'.query = export.query
      /\ export'.got = [i \in Id |-> IF i \in page THEN export.got[i] + 1 ELSE export.got[i]]
      /\ export'.headers = IF export.cursor = FirstCursor THEN export.headers + 1
                           ELSE export.headers
      /\ export'.over = ~more
      /\ more => export'.cursor = Key(LastOf(page))
      /\ ~more => export'.cursor = export.cursor
      /\ export' = [query |-> export'.query, cursor |-> export'.cursor, got |-> export'.got,
                    headers |-> export'.headers, over |-> export'.over]
  <2>1. more => decodeCursor(encodeCursor(Key(LastOf(page)))) = Key(LastOf(page))
    BY <1>3, <1>4, <1>5, CursorReturns
  <2>2. QED
    BY <1>1, <1>3, <1>5, <2>1 DEF ExportTypes
<1>7. \A i \in Id : Key(i) \in [at: Int, id: Int] /\ Key(i).at >= 0
  BY <1>3, ExportAssumption DEF ExportTypes, Key, Id
<1>8. ExportTypes'
  <2>1. export'.cursor \in [at: Int, id: Int]
    BY <1>3, <1>4, <1>5, <1>6, <1>7 DEF ExportTypes
  <2>2. export'.got \in [Id -> Nat] /\ export'.headers \in Nat /\ export'.over \in BOOLEAN
        /\ export'.query \in Queries
    BY <1>3, <1>5, <1>6 DEF ExportTypes
  <2>3. export' \in [query: Queries, cursor: [at: Int, id: Int], got: [Id -> Nat],
                     headers: Nat, over: BOOLEAN]
    BY <1>6, <2>1, <2>2
  <2>4. QED
    BY <1>2, <1>3, <2>3 DEF ExportTypes
<1>9. more => export'.cursor # FirstCursor
  BY <1>3, <1>4, <1>5, <1>6, <1>7 DEF FirstCursor
<1>10. Started'
  BY <1>5, <1>6, <1>9 DEF Started
<1>11. export'.headers = 1
  BY <1>2, <1>6 DEF ExportInv, Started
<1>12. \A i \in page : i \in Id /\ Matches(i) /\ PastCursor(i) /\ export.got[i] = 0
  BY <1>2, <1>3, <1>4 DEF ExportInv, ExportTypes
<1>13. \A i \in Id : Committed(i)' <=> Committed(i)
  BY <1>2 DEF Committed
<1>14. \A i \in Id : Matches(i) => Committed(i)
  BY DEF Matches, Committed
<1>15. \A i \in Id : more => (PastCursor(i)' <=> After(Key(i), Key(LastOf(page))))
  BY <1>2, <1>6 DEF PastCursor, Key
<1>16. ASSUME NEW i \in Id, export'.got[i] > 0
       PROVE  export'.got[i] = 1 /\ Committed(i)' /\ (export'.over \/ ~PastCursor(i)')
  <2>1. CASE i \in page
    <3>1. export'.got[i] = 1 /\ Committed(i)'
      BY <1>6, <1>12, <1>13, <1>14, <1>16, <2>1
    <3>2. more => ~PastCursor(i)'
      BY <1>3, <1>4, <1>5, <1>12, <1>15, <2>1, AfterOrder
    <3>3. QED
      BY <1>5, <1>6, <3>1, <3>2
  <2>2. CASE i \notin page
    <3>1. export.got[i] > 0 /\ export'.got[i] = export.got[i]
      BY <1>6, <1>16, <2>2
    <3>2. export.got[i] = 1 /\ Committed(i) /\ ~PastCursor(i)
      BY <1>2, <3>1 DEF ExportInv
    <3>3. more => ~PastCursor(i)'
      <4>1. more => PastCursor(LastOf(page)) /\ LastOf(page) \in Id
        BY <1>4, <1>5, <1>12
      <4>2. QED
        BY <1>3, <1>15, <3>2, <4>1, AfterOrder
    <3>4. QED
      BY <1>5, <1>6, <1>13, <3>1, <3>2, <3>3
  <2>3. QED
    BY <2>1, <2>2
<1>17. ASSUME NEW i \in steady', export'.over \/ ~PastCursor(i)'
       PROVE  export'.got[i] = 1
  <2>1. i \in steady /\ i \in Id /\ Matches(i)
    BY <1>2, <1>3 DEF ExportTypes
  <2>2. CASE ~PastCursor(i)
    <3>1. export.got[i] = 1
      BY <2>1, <2>2 DEF ExportInv
    <3>2. QED
      BY <1>6, <1>12, <2>1, <2>2, <3>1
  <2>3. CASE PastCursor(i)
    <3>1. i \in found
      BY <2>1, <2>3
    <3>2. i \in page
      <4>1. CASE more
        <5>1. ~After(Key(i), Key(LastOf(page)))
          BY <1>5, <1>6, <1>15, <1>17, <2>1, <4>1
        <5>2. QED
          BY <1>4, <1>5, <3>1, <4>1, <5>1
      <4>2. CASE ~more
        BY <1>4, <1>5, <3>1, <4>2
      <4>3. QED
        BY <4>1, <4>2
    <3>3. QED
      BY <1>6, <1>12, <2>1, <3>2
  <2>4. QED
    BY <2>2, <2>3
<1>18. \A i \in steady' : Committed(i)'
  BY <1>2, <1>3, <1>13, <1>14 DEF ExportTypes
<1>19. QED
  BY <1>8, <1>10, <1>11, <1>16, <1>17, <1>18 DEF ExportInv

\* A settlement that begins has not been exported; one that moves on keeps
\* its place.
LEMMA TableKeepsInv ==
    ASSUME ExportInv, tick \/ \E i \in Id : beginInsert(i) \/ commitInsert(i) \/ ends(i)
    PROVE  ExportInv'
<1>1. UNCHANGED <<export, steady>> /\ stamp' \in Nat
  BY DEF ExportInv, ExportTypes, tick, beginInsert, commitInsert, ends, Becomes
<1>2. ASSUME ExportTypes', \A i \in Id : Committed(i) => Committed(i)' /\ Key(i)' = Key(i),
             \A i \in Id : ~Committed(i) => Key(i)' = Key(i) \/ Key(i).at' >= 0
      PROVE  ExportInv'
  <2>1. Started' <=> Started
    BY <1>1 DEF Started
  <2>2. \A i \in Id : Committed(i) => (PastCursor(i)' <=> PastCursor(i))
    BY <1>1, <1>2 DEF PastCursor
  <2>3. \A i \in Id : ~Committed(i) => export.got[i] = 0
    BY DEF ExportInv, ExportTypes
  <2>4. ASSUME NEW i \in steady, ~Committed(i) PROVE PastCursor(i)'
    <3>1. ~Started /\ i \in Id
      BY <2>4 DEF ExportInv, ExportTypes
    <3>2. export'.cursor.at = -1
      BY <1>1, <3>1 DEF Started, FirstCursor
    <3>3. Key(i).at' >= 0 /\ Key(i).at' \in Nat
      BY <1>2, <3>1 DEF Key, ExportTypes
    <3>4. QED
      BY <3>2, <3>3 DEF PastCursor, After
  <2>5. QED
    BY <1>1, <1>2, <2>1, <2>2, <2>3, <2>4 DEF ExportInv, ExportTypes, Started
<1>3. CASE tick
  <2>1. ExportTypes' /\ UNCHANGED settlement
    BY <1>1, <1>3 DEF tick, ExportInv, ExportTypes
  <2>2. QED
    BY <1>2, <2>1 DEF Committed, Key
<1>4. ASSUME NEW i \in Id, beginInsert(i) PROVE ExportInv'
  <2>1. /\ settlement' = [settlement EXCEPT ![i] = [status |-> "begun", createdAt |-> stamp]]
        /\ settlement[i].status = "none"
    BY <1>4 DEF beginInsert
  <2>2. settlement \in [Id -> [status: {"none", "begun", "pending", "settled", "failed"},
                               createdAt: Nat]] /\ stamp \in Nat
    BY DEF ExportInv, ExportTypes
  <2>3. ExportTypes'
    BY <1>1, <2>1, <2>2 DEF ExportInv, ExportTypes
  <2>4. QED
    BY <1>2, <2>1, <2>2, <2>3 DEF Committed, Key
<1>5. ASSUME NEW i \in Id, commitInsert(i) \/ ends(i) PROVE ExportInv'
  <2>1. PICK to \in {"pending", "settled", "failed"} :
            settlement' = [settlement EXCEPT ![i] = [@ EXCEPT !.status = to]]
    BY <1>5 DEF commitInsert, ends, Becomes
  <2>2. settlement \in [Id -> [status: {"none", "begun", "pending", "settled", "failed"},
                               createdAt: Nat]]
    BY DEF ExportInv, ExportTypes
  <2>3. \A j \in Id : /\ settlement'[j].createdAt = settlement[j].createdAt
                      /\ settlement'[j].status = IF j = i THEN to ELSE settlement[j].status
    BY <2>1, <2>2
  <2>4. ExportTypes'
    BY <1>1, <2>1, <2>2 DEF ExportInv, ExportTypes
  <2>5. QED
    BY <1>2, <2>3, <2>4 DEF Committed, Key
<1>6. QED
  BY <1>3, <1>4, <1>5

\* An export is complete and free of doubles although settlements are
\* inserted, commit late and change their status between its pages, for any
\* number of rows, any timestamps, filters and page size.
THEOREM ExportIsComplete == ExportSpec => []ExportComplete
<1>1. ExportInit => ExportInv
  <2> SUFFICES ASSUME ExportInit PROVE ExportInv
    OBVIOUS
  <2>1. ExportTypes
    BY DEF ExportInit, ExportTypes, FirstCursor
  <2>2. \A i \in Id : PastCursor(i) /\ export.got[i] = 0
    BY DEF ExportInit, PastCursor, After, Key, FirstCursor
  <2>3. ~Started /\ ~export.over /\ export.headers = 0 /\ steady = Id
    BY DEF ExportInit, Started
  <2>4. QED
    BY <2>1, <2>2, <2>3 DEF ExportInv
<1>2. ExportInv /\ [ExportNext]_exportVars => ExportInv'
  <2> SUFFICES ASSUME ExportInv, [ExportNext]_exportVars PROVE ExportInv'
    OBVIOUS
  <2>1. CASE UNCHANGED exportVars
    BY <2>1 DEF exportVars, ExportInv, ExportTypes, Started, Committed, PastCursor, Key
  <2>2. QED
    BY <2>1, PageKeepsInv, TableKeepsInv DEF ExportNext
<1>3. ExportInv => ExportComplete
  BY DEF ExportInv, ExportTypes, ExportComplete, Started
<1>4. QED
  BY <1>1, <1>2, <1>3, PTL DEF ExportSpec
============================================================================
