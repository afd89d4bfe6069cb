----------------------------- MODULE Settlement -----------------------------
(***************************************************************************)
(* Paying a settlement on chain: src/modules/settlement/settlement.service *)
(* and settlement-retry.service, over the transactions of one signer.      *)
(*                                                                         *)
(* A worker is whatever drives an attempt: an API request (settleBatch or  *)
(* replay) or the retry loop of an instance.  It works on an entity object *)
(* of its own, obj[w], loaded from the row; save() writes every column of  *)
(* the object over the row, stale ones included.  An attempt is cut at its *)
(* awaits: between two steps of a worker anything else may happen, also    *)
(* the crash of the process, which loses objects and loop but no row.      *)
(*                                                                         *)
(* Always possible: RPC errors, lost connections while waiting, timeouts,  *)
(* reverts, dropped transactions, a reorg of a shallow payment, crashes    *)
(* and failing database writes, also ones that did commit.  What the code  *)
(* does not defend against is named in Faults, so that a run or a theorem  *)
(* says which it admits:                                                   *)
(*   lostHash     a broadcast whose hash reaches neither object nor row    *)
(*   overlap      a replay of a settlement that another worker is paying   *)
(*   lostAnswer   saving a waiting row fails after it did commit           *)
(*   reorgRevert  a reorg brings a reverted transaction back               *)
(*   forget       a transaction the node no longer knew is mined later     *)
(***************************************************************************)
EXTENDS Integers, FiniteSets

CONSTANTS
    Row,          \* settlement ids
    Worker,       \* retry loops and API requests
    Loop,         \* the workers that are the retry loop of an instance
    Instance,     \* processes of the service
    Home,         \* the instance of each worker
    MaxTx,        \* bound on the transactions ever broadcast
    MaxAttempts,  \* settlement.retry.maxAttempts
    BatchSize,    \* settlement.retry.batchSize
    MaxHiccups,   \* bound on crashes, failed writes, events and reorgs together
    Faults,       \* the faults above that the environment may show
    None          \* null

ASSUME SettlementAssumption ==
    /\ Loop \subseteq Worker
    /\ Home \in [Worker -> Instance]
    /\ MaxTx \in Nat /\ MaxHiccups \in Nat
    /\ MaxAttempts \in Nat \ {0} /\ BatchSize \in Nat \ {0}
    /\ Faults \subseteq {"lostHash", "overlap", "lostAnswer", "reorgRevert", "forget"}
    /\ None \notin 1..MaxTx /\ None \notin Row

VARIABLES
    row,       \* the settlements table
    pc,        \* where each worker's attempt stands
    obj,       \* the entity object each worker works on
    due,       \* the objects a retry loop has loaded and not yet attempted
    txState,   \* what the chain makes of each transaction
    txRow,     \* the settlement a transaction pays
    fees,      \* accrual entries in the fee ledger per settlement
    emitting,  \* rows each worker saved as settled and whose event is on its way
    settled,   \* settlement.settled events per settlement (2: two or more)
    paused,    \* the settlement scope of PauseService
    hiccups    \* how many bounded faults happened

vars == <<row, pc, obj, due, txState, txRow, fees, emitting, settled, paused,
          hiccups>>
eventVars == <<emitting, settled>>
dbVars == <<row, fees, eventVars>>
workVars == <<pc, obj, due>>
chainVars == <<txState, txRow>>
envVars == <<paused, hiccups>>

Tx == 1..MaxTx

SettlementStatus ==
    {"none", "pending", "retrying", "settled", "rejected", "dead_letter"}

Entity ==
    [id: Row, status: SettlementStatus, attempts: Nat,
     txHash: Tx \cup {None}, nextRetryAt: {"null", "later", "due"}]

\* A row that does not exist yet.
Blank(r) ==
    [id |-> r, status |-> "none", attempts |-> 0, txHash |-> None,
     nextRetryAt |-> "null"]

PC == {"idle", "confirm", "send", "persist", "wait", "accrue", "save", "waitSave"}

TxState == {"unsent", "mempool", "mined", "final", "reverted", "dropped"}

\* The chain paid the payee, or still may.
Live(t) == txState[t] \in {"mempool", "mined", "final"}

Init ==
    /\ row = [r \in Row |-> Blank(r)]
    /\ pc = [w \in Worker |-> "idle"]
    /\ obj = [w \in Worker |-> None]
    /\ due = [w \in Worker |-> {}]
    /\ txState = [t \in Tx |-> "unsent"]
    /\ txRow = [t \in Tx |-> None]
    /\ fees = [r \in Row |-> 0]
    /\ emitting = [w \in Worker |-> {}]
    /\ settled = [r \in Row |-> 0]
    /\ paused = FALSE
    /\ hiccups = 0

----------------------------------------------------------------------------
(* Attempts                                                                *)

Goto(w, label) == pc' = [pc EXCEPT ![w] = label]

\* Mutant: only an attempt that sends is counted.
BeginAttemptCountSends(w, e) ==
    /\ obj' = [obj EXCEPT ![w] = IF e.txHash = None
                                 THEN [e EXCEPT !.attempts = @ + 1] ELSE e]
    /\ Goto(w, IF e.txHash = None THEN "send" ELSE "confirm")

\* attempt() up to its first await; with no stored hash there is nothing to
\* confirm and the first await is the one inside send().
BeginAttempt(w, e) ==
    /\ obj' = [obj EXCEPT ![w] = [e EXCEPT !.attempts = @ + 1]]
    /\ Goto(w, IF e.txHash = None THEN "send" ELSE "confirm")

settleBatch(w, r) ==
    LET saved == [Blank(r) EXCEPT !.status = "pending"] IN
    /\ w \notin Loop /\ pc[w] = "idle"
    /\ ~paused
    /\ row[r].status = "none"
    /\ row' = [row EXCEPT ![r] = saved]
    /\ BeginAttempt(w, saved)
    /\ UNCHANGED <<due, chainVars, fees, eventVars, envVars>>

replay(w, r) ==
    /\ w \notin Loop /\ pc[w] = "idle"
    /\ row[r].status \in {"dead_letter", "rejected"}
    /\ ~paused
    /\ BeginAttempt(w, [row[r] EXCEPT !.attempts = 0])
    /\ UNCHANGED <<due, dbVars, chainVars, envVars>>

DueRetries == {r \in Row : row[r].status = "retrying" /\ row[r].nextRetryAt = "due"}

\* processDue(): the guards and the query.  A tick that finds nothing leaves
\* everything as it is and is no step.
processDue(w) ==
    /\ w \in Loop /\ pc[w] = "idle" /\ due[w] = {}
    /\ ~paused
    /\ \E S \in SUBSET DueRetries :
        /\ S # {}
        /\ Cardinality(S) <= BatchSize
        /\ Cardinality(S) = BatchSize \/ S = DueRetries
        /\ due' = [due EXCEPT ![w] = {row[r] : r \in S}]
    /\ UNCHANGED <<pc, obj, dbVars, chainVars, envVars>>

\* processDue(): the body of the for loop.
attemptNext(w) ==
    /\ w \in Loop /\ pc[w] = "idle"
    /\ \E e \in due[w] :
        /\ due' = [due EXCEPT ![w] = @ \ {e}]
        /\ BeginAttempt(w, e)
    /\ UNCHANGED <<dbVars, chainVars, envVars>>

\* Mutant: nextRetryAt is cleared and never set again.
FailWithoutNextRetry(w, e, retryable) ==
    LET status == IF ~retryable THEN "rejected"
                  ELSE IF e.attempts >= MaxAttempts THEN "dead_letter"
                  ELSE "retrying"
    IN  /\ obj' = [obj EXCEPT ![w] = [e EXCEPT !.status = status,
                                               !.nextRetryAt = "null"]]
        /\ Goto(w, "save")

\* The catch block of attempt(): e is the object as it is when the error comes.
Fail(w, e, retryable) ==
    LET status == IF ~retryable THEN "rejected"
                  ELSE IF e.attempts >= MaxAttempts THEN "dead_letter"
                  ELSE "retrying"
    IN  /\ obj' = [obj EXCEPT ![w] =
                [e EXCEPT !.status = status,
                          !.nextRetryAt = IF status = "retrying" THEN "later"
                                          ELSE "null"]]
        /\ Goto(w, "save")

\* attempt() after the transaction is known to be final.
Succeed(w) ==
    /\ obj' = [obj EXCEPT ![w] = [@ EXCEPT !.status = "settled",
                                           !.nextRetryAt = "null"]]
    /\ Goto(w, "accrue")

\* Mutant: no receipt yet is taken for nothing to wait for.
ConfirmByReceiptOnly(w) ==
    LET state == txState[obj[w].txHash] IN
    /\ pc[w] = "confirm"
    /\ \/ state = "final" /\ Succeed(w)
       \/ state # "final" /\ Goto(w, "send") /\ UNCHANGED obj
    /\ UNCHANGED <<due, dbVars, chainVars, envVars>>

\* confirmEarlierTransaction() and the branch attempt() takes on its answer.
confirmEarlierTransaction(w) ==
    LET state == txState[obj[w].txHash] IN
    /\ pc[w] = "confirm"
    /\ \/ state = "final" /\ Succeed(w)
       \/ /\ state \in {"mempool", "mined"}
          /\ obj' = [obj EXCEPT ![w] = [obj[w] EXCEPT !.attempts = @ - 1,
                                                      !.status = "retrying",
                                                      !.nextRetryAt = "later"]]
          /\ Goto(w, "waitSave")
       \/ /\ state \in {"reverted", "dropped"}
          /\ Goto(w, "send")
          /\ UNCHANGED obj
       \/ Fail(w, obj[w], TRUE)
    /\ UNCHANGED <<due, dbVars, chainVars, envVars>>

\* send() up to the broadcast: the gas cap or the RPC refuses (retryable), gas
\* estimation reverts (final), or the transaction is out.
send(w) ==
    /\ pc[w] = "send"
    /\ \/ /\ \E retryable \in BOOLEAN : Fail(w, obj[w], retryable)
          /\ UNCHANGED chainVars
       \/ \E t \in Tx :
            /\ \A u \in Tx : txState[u] = "unsent" <=> u >= t
            /\ txState' = [txState EXCEPT ![t] = "mempool"]
            /\ txRow' = [txRow EXCEPT ![t] = obj[w].id]
            /\ \/ /\ obj' = [obj EXCEPT ![w] = [@ EXCEPT !.txHash = t]]
                  /\ Goto(w, "persist")
               \/ "lostHash" \in Faults /\ Fail(w, obj[w], TRUE)
    /\ UNCHANGED <<due, dbVars, envVars>>

Hiccup == hiccups < MaxHiccups /\ hiccups' = hiccups + 1

Save(e) == row' = [row EXCEPT ![e.id] = e]

\* Mutant: the hash is only written with the outcome.
PersistSkipped(w) ==
    /\ pc[w] = "persist"
    /\ Goto(w, "wait")
    /\ UNCHANGED <<row, obj, due, fees, eventVars, chainVars, envVars>>

\* send(): the hash is stored before the wait; a failing write, whether it did
\* commit or not, is an error of the attempt, whose object keeps the hash.
persistHash(w) ==
    /\ pc[w] = "persist"
    /\ \/ Save(obj[w]) /\ Goto(w, "wait") /\ UNCHANGED <<obj, hiccups>>
       \/ Hiccup /\ Fail(w, obj[w], TRUE) /\ (UNCHANGED row \/ Save(obj[w]))
    /\ UNCHANGED <<due, fees, eventVars, chainVars, paused>>

\* Mutant: the first block that holds the transaction is enough.
WaitForOneBlock(w) ==
    /\ pc[w] = "wait"
    /\ \/ txState[obj[w].txHash] \in {"mined", "final"} /\ Succeed(w)
       \/ txState[obj[w].txHash] = "reverted" /\ Fail(w, obj[w], FALSE)
       \/ Fail(w, obj[w], TRUE)
    /\ UNCHANGED <<due, dbVars, chainVars, envVars>>

\* waitFor(): enough confirmations, a revert, or a timeout or lost connection
\* whatever the chain does.
waitFor(w) ==
    LET state == txState[obj[w].txHash] IN
    /\ pc[w] = "wait"
    /\ \/ state = "final" /\ Succeed(w)
       \/ state = "reverted" /\ Fail(w, obj[w], FALSE)
       \/ Fail(w, obj[w], TRUE)
    /\ UNCHANGED <<due, dbVars, chainVars, envVars>>

\* Mutant: the ledger has no unique settlementId.
AccrueAgain(w) ==
    /\ pc[w] = "accrue"
    /\ fees' = [fees EXCEPT ![obj[w].id] = IF @ = 0 THEN 1 ELSE 2]
    /\ Goto(w, "save")
    /\ UNCHANGED <<row, obj, due, eventVars, chainVars, envVars>>

\* accrueFee(): settlementId is unique in the ledger; an error is swallowed.
accrueFee(w) ==
    /\ pc[w] = "accrue"
    /\ \/ /\ fees[obj[w].id] = 0
          /\ fees' = [fees EXCEPT ![obj[w].id] = 1]
       \/ UNCHANGED fees
    /\ Goto(w, "save")
    /\ UNCHANGED <<row, obj, due, eventVars, chainVars, envVars>>

Finish(w) == Goto(w, "idle") /\ obj' = [obj EXCEPT ![w] = None]

\* Dying between the broadcast and the write of its hash, or after that write
\* failed, loses the hash: admitted only as a fault.
HashKept(w) ==
    pc[w] \in {"persist", "save"} /\ "lostHash" \notin Faults
        => obj[w].txHash = row[obj[w].id].txHash

\* The last save of attempt().  Once it answers, the event of a settled row is
\* on its way and nobody waits for it.  If it fails, whether it did commit or
\* not, the error leaves attempt() and ends the pass of a retry loop.
saveOutcome(w) ==
    /\ pc[w] = "save"
    /\ \/ /\ Save(obj[w])
          /\ emitting' = IF obj[w].status # "settled" THEN emitting
                         ELSE [emitting EXCEPT ![w] = @ \cup {obj[w].id}]
          /\ UNCHANGED <<due, hiccups>>
       \/ /\ Hiccup
          /\ (UNCHANGED row /\ HashKept(w)) \/ Save(obj[w])
          /\ due' = [due EXCEPT ![w] = {}]
          /\ UNCHANGED emitting
    /\ Finish(w)
    /\ UNCHANGED <<fees, settled, chainVars, paused>>

\* emitOutcome(): the event is stored for its subscribers, or the fan-out
\* fails, which is logged and not tried again.
emitOutcome(w, r) ==
    /\ r \in emitting[w]
    /\ emitting' = [emitting EXCEPT ![w] = @ \ {r}]
    /\ \/ /\ settled' = [settled EXCEPT ![r] = IF @ = 0 THEN 1 ELSE 2]
          /\ UNCHANGED hiccups
       \/ Hiccup /\ UNCHANGED settled
    /\ UNCHANGED <<row, fees, workVars, chainVars, paused>>

\* The save inside the try block when the earlier transaction is pending.
saveWaiting(w) ==
    /\ pc[w] = "waitSave"
    /\ \/ Save(obj[w]) /\ Finish(w) /\ UNCHANGED hiccups
       \/ /\ Hiccup /\ Fail(w, obj[w], TRUE)
          /\ UNCHANGED row \/ ("lostAnswer" \in Faults /\ Save(obj[w]))
    /\ UNCHANGED <<due, fees, eventVars, chainVars, paused>>

AttemptStep(w) ==
    \/ confirmEarlierTransaction(w)
    \/ send(w)
    \/ persistHash(w)
    \/ waitFor(w)
    \/ accrueFee(w)
    \/ saveOutcome(w)
    \/ saveWaiting(w)

----------------------------------------------------------------------------
(* Environment                                                             *)

\* Another worker holds an object of r.
Busy(r) ==
    \E w \in Worker : \/ pc[w] # "idle" /\ obj[w].id = r
                      \/ \E e \in due[w] : e.id = r

\* Nothing in the code keeps an operator from replaying a settlement that is
\* being paid: without the fault overlap operators wait for one another.
MayReplay(r) == "overlap" \in Faults \/ ~Busy(r)

\* The process dies and is restarted: timers start afresh, objects and events
\* that are on their way are gone.
Crash(i) ==
    LET dead == {w \in Worker : Home[w] = i} IN
    /\ Hiccup
    /\ \A w \in dead : HashKept(w)
    /\ pc' = [w \in Worker |-> IF w \in dead THEN "idle" ELSE pc[w]]
    /\ obj' = [w \in Worker |-> IF w \in dead THEN None ELSE obj[w]]
    /\ due' = [w \in Worker |-> IF w \in dead THEN {} ELSE due[w]]
    /\ emitting' = [w \in Worker |-> IF w \in dead THEN {} ELSE emitting[w]]
    /\ UNCHANGED <<row, fees, settled, chainVars, paused>>

\* The clock passes nextRetryAt.
BecomeDue(r) ==
    /\ row[r].nextRetryAt = "later"
    /\ row' = [row EXCEPT ![r] = [@ EXCEPT !.nextRetryAt = "due"]]
    /\ UNCHANGED <<workVars, fees, eventVars, chainVars, envVars>>

ChainMoves(t, from, to) ==
    /\ txState[t] = from
    /\ txState' = [txState EXCEPT ![t] = to]
    /\ UNCHANGED <<txRow, dbVars, workVars, paused>>

\* A transaction leaves the mempool, or a block buries a payment deep enough.
ChainProgress(t) ==
    /\ \/ \E to \in {"mined", "reverted", "dropped"} : ChainMoves(t, "mempool", to)
       \/ ChainMoves(t, "mined", "final")
    /\ UNCHANGED hiccups

Reorg(t) ==
    /\ Hiccup
    /\ \/ ChainMoves(t, "mined", "mempool")
       \/ "reorgRevert" \in Faults /\ ChainMoves(t, "reverted", "mempool")
       \/ "forget" \in Faults /\ ChainMoves(t, "dropped", "mempool")

SetPause ==
    /\ paused' = ~paused
    /\ UNCHANGED <<dbVars, workVars, chainVars, hiccups>>

Next ==
    \/ \E w \in Worker : \E r \in Row :
            settleBatch(w, r) \/ (MayReplay(r) /\ replay(w, r)) \/ emitOutcome(w, r)
    \/ \E w \in Worker : processDue(w) \/ attemptNext(w) \/ AttemptStep(w)
    \/ \E i \in Instance : Crash(i)
    \/ \E r \in Row : BecomeDue(r)
    \/ \E t \in Tx : ChainProgress(t) \/ Reorg(t)
    \/ SetPause

Spec == Init /\ [][Next]_vars

\* An attempt that started runs on, the retry timer ticks, the clock moves,
\* and blocks are produced.  Nobody promises that a request or a resume comes.
Fairness ==
    /\ \A w \in Worker : WF_vars(AttemptStep(w) \/ attemptNext(w))
    /\ \A w \in Loop : WF_vars(processDue(w))
    /\ \A r \in Row : WF_vars(BecomeDue(r))
    /\ \A t \in Tx : WF_vars(ChainProgress(t))

FairSpec == Spec /\ Fairness

----------------------------------------------------------------------------
(* Properties                                                              *)

\* Types of all variables.
TypeOK ==
    /\ row \in [Row -> Entity]
    /\ pc \in [Worker -> PC]
    /\ obj \in [Worker -> Entity \cup {None}]
    /\ due \in [Worker -> SUBSET Entity]
    /\ txState \in [Tx -> TxState]
    /\ txRow \in [Tx -> Row \cup {None}]
    /\ fees \in [Row -> 0..2]
    /\ emitting \in [Worker -> SUBSET Row]
    /\ settled \in [Row -> 0..2]
    /\ paused \in BOOLEAN
    /\ hiccups \in 0..MaxHiccups

\* "A settlement is paid once" (docs/ADVANCED.md): however attempts, retries,
\* replays, crashes and reorgs interleave, the chain pays at most one
\* transaction of a settlement (EscrowHub.settleBatch does not deduplicate).
PaidOnce ==
    \A t, u \in Tx :
        /\ txState[t] \in {"mined", "final"} /\ txState[u] \in {"mined", "final"}
        /\ txRow[t] = txRow[u]
        => t = u

\* The rail never loses sight of a transaction that may still pay: its hash is
\* in the row or in the object of the worker that is paying the row (this is
\* what "persist the hash before waiting" is for).
PaymentKnown ==
    \A t \in Tx : Live(t) =>
        \/ row[txRow[t]].txHash = t
        \/ \E w \in Worker : /\ pc[w] # "idle"
                             /\ obj[w].id = txRow[t] /\ obj[w].txHash = t

\* A row that says settled names a transaction that paid this settlement and
\* is buried deep enough.
SettledIsPaid ==
    \A r \in Row : row[r].status = "settled" =>
        /\ row[r].txHash \in Tx
        /\ txRow[row[r].txHash] = r
        /\ txState[row[r].txHash] = "final"

\* The fee of a settlement is booked at most once, and only when it was paid,
\* also when the outcome was lost after the booking and the attempt repeated.
FeeOncePaid ==
    \A r \in Row :
        /\ fees[r] <= 1
        /\ fees[r] = 1 => \E t \in Tx : txRow[t] = r /\ txState[t] = "final"

\* settlement.settled is announced at most once per settlement.  That it is
\* announced at all is OutcomeAnnounced.
AnnouncedOnce == \A r \in Row : settled[r] <= 1

\* "mined | settled | none" (docs/SETTLEMENT-PROTOCOL.md, what each status does
\* next): nothing writes over a settled row.  Two replays of one settlement
\* that overlap do: save() of the one that failed takes it back.
SettledStays ==
    [][\A r \in Row : row[r].status = "settled" => row'[r] = row[r]]_row

\* "it will end as one of the two final events" (docs/WEBHOOKS.md): a settled
\* row that nobody is at work on has been announced.  The event is sent after
\* the save and only by the process that saved: a crash, an error after the
\* commit or a failed fan-out in between loses it.
OutcomeAnnounced ==
    \A r \in Row :
        row[r].status = "settled" =>
            settled[r] > 0 \/ Busy(r) \/ \E w \in Worker : r \in emitting[w]

\* The transactions that pay r or may still pay it, taken together.
PaymentOf(r) ==
    LET live == {t \in Tx : txRow[t] = r /\ Live(t)}
    IN  IF live = {} THEN "none"
        ELSE IF \E t, u \in live : t # u THEN "several"
        ELSE IF \E t \in live : txState[t] = "final" THEN "paid" ELSE "moving"

Ledger == INSTANCE PaymentLedger WITH
    payment   <- [r \in Row |-> PaymentOf(r)],
    booked    <- fees,
    recorded  <- [r \in Row |-> row[r].status = "settled"],
    announced <- settled

\* The service does what PaymentLedger promises: at no step of any attempt,
\* retry, replay or crash does it send a payment while another may still
\* arrive, book or announce what is not paid, or take a settlement back.
KeepsLedger == Ledger!Spec

\* "A row leaves the queue as settled, rejected ... or dead_letter"
\* (settlement-retry.service.ts): a retrying settlement reaches a final status
\* unless the rail is paused.
RetryingEnds ==
    \A r \in Row :
        row[r].status = "retrying" ~>
            paused \/ row[r].status \in {"settled", "rejected", "dead_letter"}
=============================================================================
