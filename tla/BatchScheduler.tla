--------------------------- MODULE BatchScheduler ---------------------------
(***************************************************************************)
(* From receipts to settlements: settlement-batch.scheduler.ts over        *)
(* receipts.service.ts.  settleBatch() of settlement.service.ts appears by *)
(* what the scheduler sees of it: it throws before a row exists, or the    *)
(* row exists and it returns, much later, whatever the chain answered.     *)
(*                                                                         *)
(* Receipts are numbered in the order of (createdAt, id), so a set of them *)
(* has one order, the leaf order of its batch.  createdAt is the start of  *)
(* the inserting transaction and the id is random, so a receipt may become *)
(* visible after one that sorts behind it.  A tick is one call of          *)
(* runOnce(): the interval of an instance fires also while an earlier tick *)
(* still waits for the chain, and only the flag running keeps it out.      *)
(*                                                                         *)
(* Faults names what the code does not defend against:                     *)
(*   detach   the settlement row exists and the receipts never learn of it *)
(*            (the process dies, settleBatch() throws after its row was    *)
(*            written, or the update of the receipts fails)                *)
(***************************************************************************)
EXTENDS Integers, FiniteSetsExt

CONSTANTS
    NumReceipts,  \* bound on the receipts ever created
    Escrow,       \* escrow ids
    Broken,       \* escrows whose batches cannot be packed
    Settlement,   \* settlement ids, a bound on the rows ever written
    Tick,         \* calls of runOnce()
    Instance,     \* processes with the scheduler enabled
    Home,         \* the instance of each tick
    MaxReceipts,  \* settlement.batch.maxReceipts
    ScanLimit,    \* settlement.batch.scanLimit
    MaxHiccups,   \* bound on crashes and failed writes together
    Faults,
    None          \* null

ASSUME SchedulerAssumption ==
    /\ NumReceipts \in Nat /\ MaxHiccups \in Nat
    /\ MaxReceipts \in Nat \ {0} /\ ScanLimit \in Nat \ {0}
    /\ Broken \subseteq Escrow /\ Home \in [Tick -> Instance]
    /\ Faults \subseteq {"detach"}
    /\ None \notin Escrow /\ None \notin Settlement

VARIABLES
    escrowOf,      \* receipts: the escrow, None while not created
    settlementId,  \* receipts: settlementId
    batchIndex,    \* receipts: batchIndex
    late,          \* history: receipts that became visible behind a batched one
    aged,          \* the receipts 1..aged have waited windowMs
    leaves,        \* settlements: the receipts below receiptsHash, {} for no row
    running,       \* the in-flight flag of each instance
    pc,            \* where each tick stands
    plan,          \* the chunks a tick has still to settle
    chunk,         \* the chunk a tick waits for
    paid,          \* the settlement row a tick's settleBatch() wrote
    paused,        \* the settlement scope of PauseService
    hiccups        \* how many bounded faults happened

receiptVars == <<escrowOf, settlementId, batchIndex, late, aged>>
tickVars == <<running, pc, plan, chunk, paid>>
vars == <<receiptVars, leaves, tickVars, paused, hiccups>>

Receipt == 1..NumReceipts

Init ==
    /\ escrowOf = [k \in Receipt |-> None]
    /\ settlementId = [k \in Receipt |-> None]
    /\ batchIndex = [k \in Receipt |-> 0]
    /\ late = {}
    /\ aged = 0
    /\ leaves = [s \in Settlement |-> {}]
    /\ running = [i \in Instance |-> FALSE]
    /\ pc = [t \in Tick |-> "idle"]
    /\ plan = [t \in Tick |-> {}]
    /\ chunk = [t \in Tick |-> None]
    /\ paid = [t \in Tick |-> None]
    /\ paused = FALSE
    /\ hiccups = 0

----------------------------------------------------------------------------
(* What a tick finds                                                       *)

\* How many members of S are older than k: the index of k in S.
Rank(k, S) == Cardinality({j \in S : j < k})

\* findUnsettled(scanLimit): the oldest receipts without a settlement.
findUnsettled ==
    LET open == {k \in Receipt : escrowOf[k] # None /\ settlementId[k] = None}
    IN  {k \in open : Rank(k, open) < ScanLimit}

\* Slices of maxReceipts, oldest first; a short one only if the oldest receipt
\* of the group has waited for the window.  A chunk carries the oldest receipt
\* of its group, which is what orders the groups of a tick.
dueChunks(group) ==
    LET oldest == Min(group)
        slice(b) == {k \in group : Rank(k, group) \div MaxReceipts = b}
    IN  {c \in {[first |-> oldest, ids |-> slice(Rank(k, group) \div MaxReceipts)] : k \in group} :
            Cardinality(c.ids) = MaxReceipts \/ oldest <= aged}

\* groupByEscrow() and dueChunks() over what the scan found.
Chunks(scan) ==
    UNION {dueChunks({k \in scan : escrowOf[k] = escrowOf[j]}) : j \in scan}

\* c comes first in the nested loops over groups and chunks.
IsNext(c, chunks) ==
    /\ c \in chunks
    /\ \A d \in chunks \ {c} :
        \/ c.first < d.first
        \/ c.first = d.first /\ Min(c.ids) < Min(d.ids)

----------------------------------------------------------------------------
(* Steps of a tick                                                         *)

Hiccup == hiccups < MaxHiccups /\ hiccups' = hiccups + 1

\* Mutant: nothing keeps a second tick out.
RunOnceUnguarded(t) ==
    LET chunks == Chunks(findUnsettled) IN
    /\ pc[t] = "idle"
    /\ ~paused
    /\ chunks # {}
    /\ running' = [running EXCEPT ![Home[t]] = TRUE]
    /\ pc' = [pc EXCEPT ![t] = "settle"]
    /\ plan' = [plan EXCEPT ![t] = chunks]
    /\ UNCHANGED <<receiptVars, leaves, chunk, paid, paused, hiccups>>

\* runOnce() up to the loop.  A tick that finds no chunk due, or whose scan
\* fails, leaves everything as it was and is no step.
runOnce(t) ==
    LET chunks == Chunks(findUnsettled) IN
    /\ pc[t] = "idle"
    /\ ~running[Home[t]] /\ ~paused
    /\ chunks # {}
    /\ running' = [running EXCEPT ![Home[t]] = TRUE]
    /\ pc' = [pc EXCEPT ![t] = "settle"]
    /\ plan' = [plan EXCEPT ![t] = chunks]
    /\ UNCHANGED <<receiptVars, leaves, chunk, paid, paused, hiccups>>

\* Mutant: the flag is not cleared when the loop ends.
GoOnRunning(t, rest) ==
    /\ plan' = [plan EXCEPT ![t] = rest]
    /\ chunk' = [chunk EXCEPT ![t] = None]
    /\ paid' = [paid EXCEPT ![t] = None]
    /\ pc' = [pc EXCEPT ![t] = IF rest = {} THEN "idle" ELSE "settle"]
    /\ UNCHANGED running

\* The loop goes on with the chunks in rest, or ends and clears the flag.
GoOn(t, rest) ==
    /\ plan' = [plan EXCEPT ![t] = rest]
    /\ chunk' = [chunk EXCEPT ![t] = None]
    /\ paid' = [paid EXCEPT ![t] = None]
    /\ pc' = [pc EXCEPT ![t] = IF rest = {} THEN "idle" ELSE "settle"]
    /\ running' = IF rest = {} THEN [running EXCEPT ![Home[t]] = FALSE] ELSE running

\* Mutant: only the chunk that failed is given up.
BreakContinues(t, c) == GoOn(t, plan[t] \ {c})

\* The catch block of runOnce(): the rest of this escrow waits for a later tick.
Break(t, c) == GoOn(t, {d \in plan[t] : d.first # c.first})

\* settleChunk() up to the row settleBatch() writes.
settleChunk(t) ==
    /\ pc[t] = "settle"
    /\ \E c \in plan[t] :
        /\ IsNext(c, plan[t])
        /\ \/ /\ escrowOf[c.first] \in Broken \/ paused
              /\ Break(t, c)
              /\ UNCHANGED <<leaves, hiccups>>
           \/ Hiccup /\ Break(t, c) /\ UNCHANGED leaves
           \/ /\ escrowOf[c.first] \notin Broken /\ ~paused
              /\ \E s \in Settlement :
                    /\ leaves[s] = {}
                    /\ leaves' = [leaves EXCEPT ![s] = c.ids]
                    /\ paid' = [paid EXCEPT ![t] = s]
              /\ chunk' = [chunk EXCEPT ![t] = c]
              /\ pc' = [pc EXCEPT ![t] = "attach"]
              /\ UNCHANGED <<running, plan, hiccups>>
    /\ UNCHANGED <<receiptVars, paused>>

\* Mutant: the position inside the batch counts from one.
MarkSettledFromOne(ids, s) ==
    /\ settlementId' = [k \in Receipt |-> IF k \in ids THEN s ELSE settlementId[k]]
    /\ batchIndex' = [k \in Receipt |-> IF k \in ids THEN Rank(k, ids) + 1 ELSE batchIndex[k]]

\* Mutant: the position inside the batch is not stored.
MarkSettledNoIndex(ids, s) ==
    /\ settlementId' = [k \in Receipt |-> IF k \in ids THEN s ELSE settlementId[k]]
    /\ UNCHANGED batchIndex

\* One transaction over all receipts of the batch.
markSettled(ids, s) ==
    /\ settlementId' = [k \in Receipt |-> IF k \in ids THEN s ELSE settlementId[k]]
    /\ batchIndex' = [k \in Receipt |-> IF k \in ids THEN Rank(k, ids) ELSE batchIndex[k]]

\* settleChunk() after settleBatch(), whatever the outcome on chain was.
attach(t) ==
    /\ pc[t] = "attach"
    /\ \/ /\ markSettled(chunk[t].ids, paid[t])
          /\ GoOn(t, plan[t] \ {chunk[t]})
          /\ UNCHANGED hiccups
       \/ /\ "detach" \in Faults
          /\ Hiccup /\ Break(t, chunk[t])
          /\ UNCHANGED <<settlementId, batchIndex>>
    /\ UNCHANGED <<escrowOf, late, aged, leaves, paused>>

----------------------------------------------------------------------------
(* Environment                                                             *)

\* A receipt that sorts behind k is in a settlement or in the plan of a tick.
Overtaken(k, e) ==
    \E j \in Receipt :
        /\ k < j /\ escrowOf[j] = e
        /\ \/ settlementId[j] # None
           \/ \E t \in Tick : \E c \in plan[t] : j \in c.ids

\* ReceiptsService.create(): its insert becomes visible, at whatever place of
\* the order of (createdAt, id) the start of its transaction and its id give.
create(e) ==
    /\ \E k \in Receipt :
        /\ escrowOf[k] = None
        /\ escrowOf' = [escrowOf EXCEPT ![k] = e]
        /\ late' = IF Overtaken(k, e) THEN late \cup {k} ELSE late
    /\ UNCHANGED <<settlementId, batchIndex, aged, leaves, tickVars, paused, hiccups>>

\* The window elapses for the next place in the order of createdAt.
WindowElapses ==
    /\ \E k \in Receipt : k > aged /\ escrowOf[k] # None
    /\ aged' = aged + 1
    /\ UNCHANGED <<escrowOf, settlementId, batchIndex, late, leaves, tickVars, paused, hiccups>>

\* The process dies and is restarted.
Crash(i) ==
    LET dead == {t \in Tick : Home[t] = i} IN
    /\ Hiccup
    /\ \A t \in dead : pc[t] = "attach" => "detach" \in Faults
    /\ running' = [running EXCEPT ![i] = FALSE]
    /\ pc' = [t \in Tick |-> IF t \in dead THEN "idle" ELSE pc[t]]
    /\ plan' = [t \in Tick |-> IF t \in dead THEN {} ELSE plan[t]]
    /\ chunk' = [t \in Tick |-> IF t \in dead THEN None ELSE chunk[t]]
    /\ paid' = [t \in Tick |-> IF t \in dead THEN None ELSE paid[t]]
    /\ UNCHANGED <<receiptVars, leaves, paused>>

SetPause ==
    /\ paused' = ~paused
    /\ UNCHANGED <<receiptVars, leaves, tickVars, hiccups>>

Next ==
    \/ \E t \in Tick : runOnce(t) \/ settleChunk(t) \/ attach(t)
    \/ \E e \in Escrow : create(e)
    \/ WindowElapses
    \/ \E i \in Instance : Crash(i)
    \/ SetPause

Spec == Init /\ [][Next]_vars

\* The interval fires, a started tick runs on, and time passes.
Fairness ==
    /\ WF_vars(\E t \in Tick : runOnce(t))
    /\ \A t \in Tick : WF_vars(settleChunk(t) \/ attach(t))
    /\ WF_vars(WindowElapses)

FairSpec == Spec /\ Fairness

----------------------------------------------------------------------------
(* Properties                                                              *)

Chunk == [first: Receipt, ids: SUBSET Receipt]

\* Types of all variables; a position inside a batch stays below the cap.
TypeOK ==
    /\ escrowOf \in [Receipt -> Escrow \cup {None}]
    /\ settlementId \in [Receipt -> Settlement \cup {None}]
    /\ batchIndex \in [Receipt -> 0..MaxReceipts - 1]
    /\ late \subseteq Receipt
    /\ aged \in 0..NumReceipts
    /\ leaves \in [Settlement -> SUBSET Receipt]
    /\ running \in [Instance -> BOOLEAN]
    /\ pc \in [Tick -> {"idle", "settle", "attach"}]
    /\ plan \in [Tick -> SUBSET Chunk]
    /\ chunk \in [Tick -> Chunk \cup {None}]
    /\ paid \in [Tick -> Settlement \cup {None}]
    /\ paused \in BOOLEAN
    /\ hiccups \in 0..MaxHiccups

\* "A receipt is batched once" (docs/ADVANCED.md): however ticks overlap, fail
\* and are cut off, no two settlements carry the same receipt.
BatchedOnce ==
    \A s, u \in Settlement : leaves[s] \cap leaves[u] # {} => s = u

\* What inclusionProof() rebuilds from the receipts table (the receipts of a
\* settlement, in batchIndex order) is the batch the root was computed over.
ProofMatches ==
    \A k \in Receipt : settlementId[k] # None =>
        LET batch == {j \in Receipt : settlementId[j] = settlementId[k]}
        IN  batch = leaves[settlementId[k]] /\ batchIndex[k] = Rank(k, batch)

\* Within an escrow the oldest receipts are settled first: a failing chunk
\* holds back the later chunks of its escrow.  Nothing can be said of a receipt
\* that became visible only when one behind it was already being batched.
OldestFirst ==
    \A j, k \in Receipt :
        /\ j < k /\ escrowOf[j] = escrowOf[k]
        /\ settlementId[k] # None
        => settlementId[j] # None \/ j \in late

\* settlement-batch.scheduler.ts: "One broken escrow must not hold back
\* everybody else's payout".  A receipt of an escrow that is not broken is
\* batched, unless the rail is paused or the receipts that cannot be packed
\* have filled the scan (they are the oldest for good from then on).
OthersBatched ==
    \A k \in Receipt :
        escrowOf[k] \in Escrow \ Broken ~>
            \/ paused
            \/ settlementId[k] # None
            \/ Cardinality({j \in Receipt : escrowOf[j] \in Broken}) >= ScanLimit
=============================================================================
