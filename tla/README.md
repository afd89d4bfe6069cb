# Verification of the A2A payment rail

TLA+ models of the payment rail: the escrow contract, the payment of settlements, the
batching of receipts, escrow sessions with their releases and refunds, API requests
under idempotency keys and spending limits, the back office (fee ledger, pause,
reconciliation, export, webhooks) and the pure algorithms (Merkle proofs, calldata,
amounts, fee policies, start-up validation). TLC checks them on small instances; TLAPS
proves every safety property it finds to hold, but one, for every value of the constants;
three runs and nine further configurations show where the code does otherwise than its
documents and comments say. Paths below are relative to the repository.

## 1. The system

An agent (payer) opens an **escrow session** with a deposit for another agent
(payee). Metered work is recorded as signed **receipts**. The **batch scheduler**
groups unsettled receipts per session, computes a Merkle root and hands the batch to
the **settlement service**, which pays it through the **EscrowHub** contract and
retries what fails. Parts of a session can be **released** directly, **streams**
claim usage, and what is left of an expired or cancelled session is **refunded**.
Fees are booked in a ledger, spending limits cap what a payer may lock up, a pause
stops payouts, webhooks announce outcomes, and reconciliation compares the rail's
tables with the hub.

| Component | State it keeps | Operations | What makes it correct | Module |
|---|---|---|---|---|
| EscrowHub (`contracts/src/EscrowHub.sol`) | session mapping, pooled balance | openEscrow, settleBatch, claimStream, closeEscrow, emergencyClose, freezeOnDispute, receive | no session pays more than deposit or budget; the pool stays solvent; stopped means stopped | `EscrowHub` |
| Settlement service and retry queue (`settlement.service.ts`, `settlement-retry.service.ts`) | `settlements` rows; in memory an entity per attempt and the loop's batch | settleBatch, attempt, replay, processDue | paid, booked and announced at most once; every retry ends | `Settlement` |
| Batch scheduler and receipts (`settlement-batch.scheduler.ts`, `receipts.service.ts`) | receipts with settlementId and batchIndex, running flag | runOnce, settleChunk, create, findUnsettled, markSettled | batched once, proofs match the root, oldest first, one broken escrow holds nobody up | `BatchScheduler` |
| Escrow sessions, releases, refunds (`escrow.service.ts`, `escrow-release.service.ts`, `refunds.service.ts`) | `escrow_sessions`, `escrow_releases`, `escrow_refunds` | open, close, cancel, emergencyClose, expireDue, release, refund, sweep | the books cover what the chain pays; a completed refund is real; deposits come back | `EscrowService` |
| Spending limits (`spending-limit.service.ts`) | a limit per payer, deposits in a rolling window | withinLimit, setLimit, clearLimit | concurrent opens cannot pass the limit together | `SpendingLimit` |
| Idempotency keys (`idempotency.interceptor.ts`) | a row per key | begin, complete, release, purge | one execution per key and time to live | `Requests` |
| Fees (`fee-ledger.service.ts`, `fee-policy*.ts`) | ledger entries, policies | accrue, withdraw, quote | the treasury is paid what was booked; a fee fits its payment | `FeeLedger`, `FeePolicy` |
| Pause (`pause.service.ts`) | a row per scope, a copy per node | pause, resume, refresh | a pause reaches every node for good; a paused loop drains | `PauseService` |
| Webhooks (`webhooks.service.ts`, `webhook-retry.service.ts`) | subscriptions, deliveries, POSTs on their way | create, remove, rotateSecret, emit, deliver, redeliver, processDue | sends are bounded, ends are final, deliveries end | `Webhooks` |
| Reconciliation (`reconciliation.service.ts`) | the run at work, the gauge | run, compare, finish | lasting drift is told, false alarms end | `Reconciliation` |
| Settlement export (`settlement-export.service.ts`) | the client's cursor | exportPage | no row twice, none that was there all along missing | `SettlementExport` |
| Merkle proofs, calldata, amounts | none | pure functions | proofs verify, packing inverts, money is exact | `Merkle`, `CalldataPacking`, `Amounts` |
| Configuration (`src/config/`) | the environment | validateConfig and the readers | what was validated is what is used | `Configuration` |
| Streaming | claims, v2 streams | claim, refundUnused, v2 mutations | cumulative amounts add up | sum of claims only, in `EscrowService` |
| Verdicts, refresh tokens | a token per session | freeze, rotate | a token is used once | not modelled |
| Health, metrics, tracing, HTTP plumbing | no protocol state | | | not modelled |

What is hard here: the chain answers late, twice or not at all; several processes
share the tables without claiming rows; TypeORM's `save()` writes a whole object over
a row that may have moved since it was read; and processes die between the effect
on the chain and its record. `PROJECT.json` lists the hazards line by line.

## 2. The modules

### EscrowHub
One action is one successful transaction; a call that reverts is no step. Fields are
written before ether is handed over and not read afterwards, so a re-entering call
is one of the sequential orders. `paid`, `refunded`, `donated` and `batchSettled`
are history. The owner is one of the agents. `MCEscrowHub` adds the symmetry of the
sessions.

### Settlement
`row` is the table, `obj[w]` the entity object of worker `w` (an API request or the
retry loop of an instance), `pc[w]` the await the attempt stands at, `due[w]` what a
loop has loaded. `txState` is the life of a transaction: mempool, mined (shallow),
final, reverted, dropped. `attempt()` is cut into `confirmEarlierTransaction`, `send`,
`persistHash`, `waitFor`, `accrueFee`, the two saves, and `emitOutcome`: the event goes
out after the last save has returned (`emitting[w]`), and a crash, an error after the
commit or a failing fan-out in between loses it. Crashes, failing writes and reorgs of
shallow payments are always possible, `MaxHiccups` bounding their number. Five faults that
the code does not defend against are switched on by name, so a run or a theorem says what
it admits: `lostHash`, `overlap`, `lostAnswer`, `reorgRevert`, `forget`. `replay` reads the
status and nothing else, as in the code; without `overlap` the environment is one in which
operators do not replay a settlement that is being paid (`MayReplay` in `Next`).

`PaymentLedger` is what the service promises, without attempts, workers or crashes: a
settlement is not paid, its payment is on its way, or it is paid, and only then may its fee
be booked, once, and the row be recorded as settled, for good; it is announced after that, at
most once and perhaps never. A payment that is on its way may come to nothing, a paid one
stays. `Settlement` implements it (`KeepsLedger`): `PaymentOf(r)` reads the state of a
payment off the transactions of the row that are alive, and is "several", which the ledger
does not know, when there are two.

Left out: a rail without `ESCROW_HUB_ADDRESS` (rows are recorded and never attempted),
the amounts of a row, and the nonce order of transactions (any order is admitted).

### BatchScheduler
Receipts are numbered by (createdAt, id) and become visible in any order, because
createdAt is the start of the inserting transaction and the id is random; `late` are those
that became visible after one behind them was planned or settled. `leaves[s]` are the
receipts below a settlement's root; a tick is one call of `runOnce()` with its plan of
chunks. The
settlement service appears by what the scheduler sees of it: it throws before a row
exists, or a row exists and it returns later. The fault `detach` lets a row exist
whose receipts never learn of it. Signature checks of receipts are left out.

### EscrowService
Composes `EscrowHub`: `Hub == INSTANCE EscrowHub`, with the rail's signer as owner of
the hub and, because it sends `openEscrow`, as `agentA` of every session. A request is
cut at its awaits; a contract call is refused by gas estimation, fails, or becomes a
transaction, and `Mine` executes the hub's own action, or reverts the call, in nonce
order. A wait may give up on a transaction that is mined later (`abandoned`, history). A
settlement is paid on the hub at any time (`settlementPaid`, counted in `batchPaid`) and
booked at any later time or never (`settlementBooked`); refunds of one session may overlap.
The sweep takes the `SweepBatch` first sessions by `closedAt`, a rank, of equal ones any.
`staleSave` is the one fault that is switched on by name. The clock and the depth of a block
are left open; the pause only refuses new releases and is left out. The statuses `settling`
and `disputed` are set by no code and are left out. `MCEscrowService` starts the sweep's
run when all sessions have been opened and any of them exist on the hub.

### SpendingLimit and Requests
`Requests` is the idempotency interceptor, cut at its awaits, around the handler that
opens an escrow; the handler is `INSTANCE SpendingLimit`. `records` is
`idempotency_records`, whose row id is the request that inserted it. `pc[q]` and
`job[q]` are where a request stands and what it read: its clock, the row it found
expired, the limit, the start of its transaction. `createdAt` is the start of the
inserting transaction, which may then wait for the advisory lock (`spendLock`). A
request may die at any await; storing the response may fail (`unstored`), in which case
the code deletes the key although the handler committed. A session keeps the limit it
was opened under for the property; a cancelled one no longer counts, and counts again when
it is closed (`close`). One route and one payer are modelled.

### FeeLedger, PauseService, Reconciliation, SettlementExport, Webhooks
These share no state; `MCBackOffice` is their union, in which `part` says which one
moves, with the fairness of each restated for its part; `Parts` are those a configuration
is about.
- `FeeLedger`: `entry` holds the accrual of a settlement or the withdrawal of a request;
  `feeLock` is the chain's advisory lock, held from the read of the totals to the commit.
- `PauseService`: `flag` is `system_flags`, `copy[n]` the memory of a node, `answers[n]`
  the rows a refresh has read and not applied yet. pause() and resume() save a row and
  then set the copy, scope by scope. The settlement retry loop, on the nodes that have it
  enabled (`Retrying`), is the consumer;
  `drained` counts the payouts a node started since it is paused.
- `Reconciliation`: a run is cut at its reads (sessions, settled sums, each escrow, the
  balance) while the rail and the chain move: a settlement is paid first and its row settled
  later, a release is reserved in `releasedAmount` first, then paid, and given back when its
  wait fails, paid or not. `gauge` is the mismatch metric.
- `SettlementExport`: `createdAt` is the time the inserting transaction began, the row is
  visible from its commit; `steady` are the rows that matched in every page so far. A page
  is given by rank, as ORDER BY and LIMIT make it: its rows are those past the cursor with
  fewer than `Limit` others before them, and one more row tells whether a page follows.
- `Webhooks`: a POST on its way is a member of `flight` with the delivery and
  subscription objects its sender holds; saves write whole objects, so a subscription
  that was removed can come back. `lost` are deliveries whose first sender died.

### Merkle, CalldataPacking, Amounts, FeePolicy, Configuration
Operators without state, with the code's names. `MCAlgorithms` makes every bounded input
an initial state. Hashes are abstract values for which `hashPair` is injective in the
unordered pair, and no leaf is a pair; loops are recursive functions of the number of
rounds; blobs are sequences of cells; digits have a small radix, a byte a small
range, and decimals, limits and denominators are constants, so the boundaries lie within
the bound. `Configuration` sets the mainnet validation against each reader of the same
variables; a text is what it says and whether spaces surround it, a chain id is what
`Number()` and what `parseInt()` make of it, and the patterns for URLs, keys and origins
appear by their verdicts.

## 3. Runs

| Run | Checks | Bounds and why they suffice |
|---|---|---|
| `hub` | TypeOK, EscrowConserved, FeeWithinRate, Solvent, StoppedStaysStopped | two sessions (pooling), two accounts, two amounts whose fee is not whole, two blocks (a claim in and after the ttl) |
| `settlement` | TypeOK, PaidOnce, PaymentKnown, FeeOncePaid, KeepsLedger (which includes AnnouncedOnce), RetryingEnds | one row, loop and two requests, three transactions, two attempts (retry and dead letter), two hiccups (a crash followed by a reorg), no fault |
| `settlement_faults` | SettledIsPaid | two rows in one loop batch, all five faults |
| `settlement_two_instances` (violated) | PaidOnce | one row, a second instance |
| `scheduler` | TypeOK, BatchedOnce, ProofMatches, OldestFirst, OthersBatched | four receipts, cap two, scan limit three (full and short chunks, a cut scan), a broken and a sound escrow, two overlapping ticks, one hiccup |
| `scheduler_detach` (violated) | BatchedOnce | two receipts, one hiccup |
| `escrow` | TypeOK, ReleasedCovers, FailedOnlyPaidLate, CompletedIsRefunded, RefundAccounted | two symmetric requests, one session with a deposit of 2, two releases, three transactions (opening, payout, refund), one hiccup: a wait that gives up, a crash, an RPC error or a dropped transaction |
| `escrow_sweep` | DepositReturns | two sessions and a sweep of one per pass, so that its limit bites, any of them not on the hub, one request beside the sweep, stale saves; with one of the two refunded before, also one hiccup |
| `escrow_stale_save` (violated) | ReleasedCovers | two requests, fault `staleSave` |
| `requests` | ExecutedOnce, WithinLimit | three symmetric requests, two at work at a time, one key, amounts 1 and 2, a limit of 2 or none, a window and a time to live of one hour, one tick (expiry and the window edge), one cancelled session |
| `backoffice` | NotOverdrawn, ExportComplete, SendsBounded, PauseDrains, TruthTold, EndedStays, DeliveriesEnd, PauseReaches | three settlements and three withdrawals, two of which together overdraw; three sessions with runs of two, four moves of rail and chain (opened on both sides, reserved and paid, or paid and booked), one failure; three settlements over two timestamps in pages of one; two events, three attempts, two cut-off senders; two nodes, one with the retry queue and batches of two, one forced scope, two calls of pause or resume, one restart or failing call |
| `algorithms` | ProofsVerify, RoundTrip, MoneyExact, FeesFit, UnsafeOnlyByText | trees of 0 to 5 leaves (two odd levels) with repeated hashes; two addresses and receipts at most, bytes of 12 values, amounts around each limit; texts of up to five digits with exponents beyond the limit; every pair of changed settings, each with and without spaces, caps on both sides of half a wei |

Deadlock is not checked for the hub, whose time and amounts run out, nor for `requests`
and `backoffice`, where all requests may have been answered and a part may come to rest.

**Fairness.** `RetryingEnds`: an attempt that began runs on, the retry timer (an
interval) ticks, time passes, and a transaction leaves the mempool or is buried.
No request, replay or resume is promised, and a paused rail is an exception stated in
the property. `OthersBatched`: the interval fires, ticks run on, windows elapse.
`DepositReturns`: requests run on, the sweep's interval fires, blocks are made; it excepts a
sweep whose batch is for ever filled by sessions the hub holds nothing for.
`PauseReaches`: every node's refresh interval fires and its reads are answered.
`TruthTold`: the reconciliation interval fires (it is off by default; the property is
about a rail that turned it on) and the reads of a run end. `DeliveriesEnd`: the poller's
interval fires, time passes, and a POST ends within its timeout; no sender is promised
to survive. All are weak fairness. `OthersBatched` also excepts a scan filled by receipts
that can never be packed: `findUnsettled` takes the oldest `scanLimit` receipts, and such
receipts stay the oldest for good.

### What the violated runs show
- `settlement_two_instances`: the retry loops of two instances take the same due row and
  both send it.
- `scheduler_detach`: receipts are attached only after the settlement was paid; if
  the process dies in between they are batched again.
- `escrow_stale_save`: cancel, close and emergencyClose write an old releasedAmount
  back over a reservation.

### Further disagreements
Nine more statements of the repository are written down as properties that the code breaks.
Each has a configuration, under which `tlc -config <file> <module>` ends with a
counterexample of at most 18 states; they are not among the runs of `PROJECT.json`. The property
of a passing run named last says what holds instead, where there is one.
- `SettlementOverlap.cfg`, `MCSettlement`, SettledStays: "A row leaves the queue as
  `settled`" (settlement-retry.service.ts:18). `replay()` claims nothing; of two replays of
  one settlement the one that fails saves its object over the row the other settled.
- `SettlementUnannounced.cfg`, `MCSettlement`, OutcomeAnnounced: a settlement "will end as
  one of the two final events" (docs/WEBHOOKS.md:19). The event is sent after the save and
  owed by nobody else: a process that dies in between leaves a settled row that was never
  announced. KeepsLedger: it is announced after it is recorded and at most once.
- `EscrowLatePayout.cfg`, `MCEscrowService`, FailedNotPaid: "The payee was not paid: give
  the amount back" (escrow-release.service.ts:104). The wait for a payout gives up, and the
  transaction is mined afterwards. FailedOnlyPaidLate: there is no other way.
- `EscrowTwoRefunds.cfg`, `MCEscrowService`, CompletedStays: "an escrow is refunded once,
  however often the refund is requested" (escrow-refund.entity.ts:19). Two requests execute
  one refund; the failure of the one the hub refuses is saved over the other's success.
- `EscrowRefundOverstated.cfg`, `MCEscrowService`, RefundNotOverstated: "the unspent deposit
  of an expired or cancelled session was returned" (docs/WEBHOOKS.md:15). A settlement that
  is mined and not yet booked is missing from the sum a refund subtracts. RefundAccounted.
- `EscrowSweepStarved.cfg`, `MCEscrowService`, SweepRefundsAll: "Sessions that end without
  the payer closing them are refunded" (docs/SETTLEMENT-PROTOCOL.md:144). A session that
  never opened on chain fails in every sweep and keeps its place at the front of the query;
  with a batch of them no later deposit returns. DepositReturns.
- `RequestsRevived.cfg`, `MCRequests`, LockedWithinLimit: "Caps how much a payer may lock
  into escrow per rolling window" (spending-limit.service.ts:25). `close()` takes a cancelled
  session, which then counts against the window again, beside the one that took its room.
  WithinLimit, of sessions that were never cancelled.
- `PauseBatch.cfg`, `MCBackOffice`, PausedPaysNothing: "While paused the queue is left
  exactly as it is" (settlement-retry.service.ts:58), "batch scheduler and retry queue do
  nothing" (docs/SECURITY.md:29, which at line 33 excepts only transactions already sent).
  The loop looks at the pause before it reads its batch and not again, so a paused node
  starts new payouts from it. PauseDrains: no more than that batch.
- `ConfigurationTexts.cfg`, `MCAlgorithms`, MainnetIsSafe: "the fee cap cannot be switched
  off on mainnet" (config-validation.ts:116), and docs/SECURITY.md:74,78-79 on schema sync.
  The validation trims texts and looks at numbers before they are rounded. A NETWORK_PROFILE
  or NODE_ENV in spaces passes it, and schema sync (database.config.ts:16) or plain http
  (webhooks.config.ts:15) is on; a MAX_FEE_PER_GAS_GWEI below half a wei rounds to 0, which
  is no cap (blockchain.service.ts:37); and `Number()` and `parseInt()` read a chain id that
  is not in decimal digits differently (fees.config.ts:34). UnsafeOnlyByText: the chain id
  aside, nothing else slips through.

### Known exceptions
Behaviours of the code that a property excepts, or a constant switches off, so that the
runs say what they admit:
- `Settlement`: a broadcast whose answer is lost leaves no hash and the automatic retry
  pays again (fault `lostHash`; docs/ADVANCED.md:198-202 says of the stored hash "This
  covers a lost connection"); two replays that overlap, a waiting row that is saved and whose
  answer is lost, a shallow revert undone by a reorg and a transaction the node forgot break
  PaidOnce or KeepsLedger (`overlap`, `lostAnswer`, `reorgRevert`, `forget`). All five are off
  in the run `settlement`. A first attempt that is cut off before its last save leaves a
  pending row that neither findDueRetries() nor replay() takes up, against
  settlement.service.ts:76 "Never throws: the outcome is written to the row" and
  docs/ADVANCED.md:203-204; RetryingEnds speaks of retrying rows.
- `BatchScheduler`: OldestFirst excepts receipts in `late`, OthersBatched a scan filled by
  receipts that can never be packed.
- `EscrowService`: a refund whose process dies after the hub closed the session keeps a row
  that is never completed: every later try reverts and saves `failed`, although the deposit is
  back. ReleasedCovers leaves out transactions the rail gave up on.
- `EscrowHub`: the hub keeps no set of settled roots, so `batchSettled` of a root can reach
  two, while docs/SETTLEMENT-PROTOCOL.md:127 says "Re-submission of the same
  `receiptsRoot` is rejected on step 2" (docs/ADVANCED.md:198 says the opposite). PaidOnce
  is therefore the rail's duty. The hub returns deposits to `agentA`, the rail's signer.
- `Requests`: a key whose response could not be stored is released although its handler
  committed (`unstored`); the comment at idempotency.interceptor.ts:78 says "Nothing was
  committed on behalf of this key".
- `Webhooks`: a delivery whose process dies during the first attempt stays pending for good
  (`lost`).
- `Configuration`: NETWORK_PROFILE=constructor passes the `in` test (network.config.ts:71)
  and starts without validation under a profile without numbers; the inputs hold it, no
  property is about it.
- Streaming: two concurrent claims read the same last claim, so cumulativeAmount can miss
  one (streaming.service.ts:25); no code pays by it. refundUnused() closes the row
  and leaves the deposit on the hub.

## 4. Proofs

Each theorem holds for every value of the constants that satisfies the named assumption
of its module, which TLC evaluates in the runs: any number of sessions, requests, workers,
transactions, receipts and crashes, any amounts, limits and windows.

| Module | Theorem | States | Assumes beyond the module's constants |
|---|---|---|---|
| `EscrowHubProofs` | HubTypeCorrect, HubConserves, HubFeeWithinRate, HubSolvent, HubStops | TypeOK, EscrowConserved, FeeWithinRate, Solvent, StoppedStaysStopped | |
| `SettlementProofs` | SettlementTypes, SettlementSettledIsPaid, SettlementBookedOnce | TypeOK, SettledIsPaid, FeeOncePaid | nothing: every fault, any number of retry loops |
| | SettlementPaidOnce, SettlementPaymentKnown, SettlementAnnouncedOnce | PaidOnce, PaymentKnown, AnnouncedOnce | Serial |
| | SettlementKeepsLedger | KeepsLedger (the refinement of `PaymentLedger`) | Serial |
| `BatchSchedulerProofs` | SchedulerTypes | TypeOK | nothing: every fault, any number of instances |
| | SchedulerBatchedOnce, SchedulerProofMatches, SchedulerOldestFirst | BatchedOnce, ProofMatches, OldestFirst | Sole |
| `EscrowServiceProofs` | EscrowTypes, CompletedRefundPaid, FailedReleasePaidLate | TypeOK, CompletedIsRefunded, FailedOnlyPaidLate | nothing: every fault |
| | ReleasedCoversPayments, RefundAnnouncesWhatWasPaid | ReleasedCovers, RefundAccounted | no `staleSave` |
| `RequestsProofs` | KeyExecutedOnce, OpensWithinLimit | ExecutedOnce, WithinLimit | |
| `BackOfficeProofs` | LedgerNotOverdrawn, PauseDrainsBatch | NotOverdrawn, PauseDrains | |
| | ExportIsComplete | ExportComplete | |
| | WebhookSendsBounded, WebhookEndedStays | SendsBounded, EndedStays | OnePoller |
| `AlgorithmProofs` | FeesAlwaysFit, FeesFitAll | FeesFit, on the run and for every policy and amount | |
| | MainnetUnsafeOnlyByText, ValidationCovers | UnsafeOnlyByText, on the run and for every environment | |
| | ProofsAlwaysVerify, OwnProofVerifies, NoOtherProof | ProofsVerify, on the run and for every tree and list of siblings | |
| | MoneyAlwaysExact, AmountsExact | MoneyExact, on the run and for texts of any length | |

`Serial` is: none of the named faults, and one retry loop. `Sole` is: no detached
batch, and one instance with the scheduler on (which docs/ADVANCED.md asks for). The
violated runs show that both are needed. `OnePoller` is: one instance polls for
deliveries, as in the run. The flag `running` keeps apart the ticks of one process only:
two pollers may load the same due delivery, and the slower one sends it again although
the other has counted that attempt or ended it. Without the assumption on `staleSave` the
two theorems are false: such a save takes a reservation back.

### The arguments
- **Sums** (`SumTheorems`). Solvent, WithinLimit, NotOverdrawn and ReleasedCovers are about
  sums over sets. The lemmas say what a sum does when an element is added, removed or
  changed, and that it is monotone. They are proved without an induction schema: a smallest
  subset for which the claim fails exists, because strict inclusion on the subsets of a
  finite set is well founded, and taking one element out of it contradicts its minimality.
- **Hub.** HubInv adds to the properties that a session that was never opened is
  all zero and that spent stays below deposit and budget; the fee bound is kept because
  rounding down each batch loses at most what the rate allows. For Solvent every action
  takes from the pool at most what it takes from the debt of one session.
- **Settlement, any deployment.** AnyInv says that every object, queued object and row is
  sound by itself: its hash names a transaction sent for this settlement, and settled is
  said of a final one only. Objects and rows may disagree. A step whose writes are sound
  keeps it (SoundWritesKeepInv), and each await is shown to write soundly.
- **Settlement, serial.** PaidOnce alone is not inductive: a step that sends must know that
  no transaction is alive. SerialInv says that a settlement has at most one holder
  (OwnerInv, QueueInv), that stored hashes name transactions of that settlement (RefInv),
  that the holder's object, or else the row, names the one live transaction and an
  object about to send knows there is none (LiveInv), and that settled is only ever said
  of a final transaction (OutcomeInv). Each action is shown to be one of a few kinds of
  step (move, save, forget, broadcast, start), and each kind keeps SerialInv.
- **Settlement implements PaymentLedger.** By SerialInv at most one transaction of a row is
  alive, so PaymentOf is never "several" and each step of a transaction is one of the
  ledger: a broadcast starts a payment of a row that has none, being buried pays it, being
  dropped or reverted gives it up. Settled is saved and a fee booked only by an object whose
  transaction is final (OutcomeInv), when the ledger says paid. An event on its way is of a
  row that is recorded, owed by one worker and not yet sent, so it is sent at most once; a
  crash that loses it leaves the ledger as it is, as does every other step. `Serial` is
  needed: with two retry loops the sender of a second transaction makes PaymentOf "several".
- **Scheduler.** SchedInv says that one tick is in flight, its chunks are unsettled and
  pairwise disjoint, and rows and receipts agree except for the chunk being attached.
  Disjointness comes from a lemma on slices by rank. OldestFirst adds OrderInv: below a
  receipt of a chunk every receipt of the escrow is settled, in an earlier chunk or late, and a
  receipt that becomes visible below one that is planned is late from then on. It is proved by
  counting: ranks reach every number up to the size of the scan, a chunk is the receipts
  whose rank lies in its slice, and what the scan limit cuts off is younger than what it
  keeps. TickInv bounds the length of a chunk.
- **Escrow service.** The proof is layered: Base types the tables and says what the label of
  a request promises of its job; each action is one of a few kinds of step on the tables,
  the requests and the chain, and each layer is proved over the kinds. CloseInv: the
  session of a refund that is, or is about to be, saved as completed is closed on the hub.
  ReleaseInv: a release has one payer and one transaction, and that of a failed release is
  dead or was given up on. Covered: releasedAmount is at least the payments that are mined or
  in the mempool and not given up on, plus what requests have reserved without a transaction
  that stands for it; a payout the rail gave up on counts as such a reservation until it is
  given back. HubBooked: what the hub spent of a session was paid to settlements or is a
  mined release, and what it did not spend it gave back when it closed. SpentIsCounted: a
  refund row, and the object of a refund at work, counts the settlements it knew, all of which
  were paid, and what was released, and the session is no longer open, so nothing is reserved
  any more. A mined release is therefore counted or was paid late (MinedIsCovered), and what
  the refund names beyond what came back was unbooked or late.
- **Requests.** KeyInv: a request whose handler runs or has committed has the row of its
  key until the key expires (KeyHeld), the row that is about to be dropped has expired
  (StaleIsLate), and of two holders of a key one came after the other's time to live
  (Apart). LimitInv: whoever is past the check holds the payer's lock and the limit still has
  room (HolderHasRoom), because its window begins before its insert. A session that was
  revived counts for the check and not for the property, which only makes the check stricter.
  WithinLimit is not inductive, as a cancellation may take away the session with the highest
  limit; it is strengthened to every subset of a window's sessions (EveryPartWithin).
- **Back office.** The ledger lock makes the totals a withdrawal read current when it
  commits. A paused loop only shrinks its batch. A send counts an attempt of the
  object in flight, and only a cut-off send is not written down.
- **Export.** ExportComplete is not inductive. ExportInv adds that what was received lies at
  or before the cursor and that every steady row at or before the cursor was received once:
  a page takes the first rows past the cursor, so a row it skips past is not past its last
  row. A row that is inserted or commits late behind the cursor is not steady, as it did not
  match in an earlier page.
- **Algorithms.** Nothing moves, so each theorem is about an input. What the loops compute
  is proved without an induction schema: a set of numbers that holds 0 and with each number
  the next is all of them, because a smallest number outside it would contradict that
  (AllNaturals), and recursive functions are unfolded by their approximations (LoopsRun).
  *Merkle*: levels shrink to one node; the node computed from a leaf and its siblings is the
  node above the leaf, level by level. That no other hash has a proof goes down from the
  root: the last hash computed is a node, so by injectivity what went into it is one of
  the two nodes below, and so on, until the hash itself is a leaf or a pair is one. It is
  shown for every list of siblings, where TLC tries lists of nodes of the tree.
  *Amounts*: the value of a concatenation shifts its first part (ValueOfConcat); moving the
  point and stripping zeros keep the value (PointMoves, StripSplits); a fraction that is too
  long after stripping ends in a digit that is no zero, so the value is no multiple of the
  radix and no whole number of wei (PlainRead); a number is the value of its digits
  (DigitsOf), so every printed form reads back. *Fees*: one wei moves the rounded fee by
  at most one, and the clamp keeps that. *Configuration*: each check of the validation is
  matched with the reader of the same variable; what is left are the three texts.

### Only model-checked
- Every liveness property (RetryingEnds, OthersBatched, DepositReturns, PauseReaches,
  TruthTold, DeliveriesEnd): fairness and ENABLED are out of the prover's reach.
- RoundTrip: the calldata layouts use folds over sequences and powers of the byte (`^`), for
  which the provers have no rules, and the compact layout is parsed at positions that
  depend on all cells before.
- What the faults leave of a property where a theorem assumes them away; the violated runs
  show the traces.

## 5. Not modelled

Verdicts read an external oracle and freeze through the hub, whose side is in
`EscrowHub`. Refresh tokens are
rotated through a revocation set in the memory of one process; guards and password hashing
are stateless. Signatures of receipts and webhooks, the HTTP transport, access lists, gas
estimates, report columns and metrics are left out; the v2 streams are pure functions that
no module of the rail calls.

## 6. Plan

1. RoundTrip of layout v1, whose receipts have a fixed length: the value of bytes by the
   lemmas on digits, with the byte as radix.
2. An abstract specification of the escrow service (what a payee was promised against what
   the hub holds) that `EscrowService` refines without faults.
3. Token rotation and the cumulative amount of streams.
