------------------------ MODULE BatchSchedulerProofs ------------------------
(***************************************************************************)
(* One instance runs the scheduler and no batch is detached from its       *)
(* receipts: then a receipt is batched once and its inclusion proof is     *)
(* rebuilt over the right leaves, for any number of receipts, escrows and  *)
(* overlapping ticks, and any cap and scan limit; and an escrow's receipts *)
(* are batched oldest first.  The types hold for any number of instances   *)
(* and with detached batches.                                              *)
(***************************************************************************)
EXTENDS BatchScheduler, FiniteSetTheorems, TLAPS

\* What the theorems assume of the deployment.
Sole == Faults = {} /\ \A i, j \in Instance : i = j

FunInv ==
    /\ settlementId \in [Receipt -> Settlement \cup {None}]
    /\ leaves \in [Settlement -> SUBSET Receipt]
    /\ running \in [Instance -> BOOLEAN]
    /\ pc \in [Tick -> {"idle", "settle", "attach"}]
    /\ plan = [t \in Tick |-> plan[t]]
    /\ chunk = [t \in Tick |-> chunk[t]]
    /\ paid \in [Tick -> Settlement \cup {None}]

\* The flag admits one tick at a time; the others have nothing to do.
FlightInv ==
    /\ \A t \in Tick : pc[t] # "idle" => running[Home[t]]
    /\ \A t, u \in Tick : pc[t] # "idle" /\ pc[u] # "idle" => t = u
    /\ \A t \in Tick : pc[t] = "idle" => plan[t] = {}

\* A chunk still to be settled has only receipts without a settlement, and
\* shares none with another chunk of the tick.
PlanInv ==
    \A t \in Tick :
        /\ \A c \in plan[t] : \A k \in c.ids : k \in Receipt /\ settlementId[k] = None
        /\ \A c, d \in plan[t] : \A k \in c.ids \cap d.ids : c = d

\* The row a tick waits for carries the chunk the tick is about to attach.
AttachInv ==
    \A t \in Tick : pc[t] = "attach" =>
        /\ paid[t] \in Settlement /\ chunk[t] \in plan[t]
        /\ leaves[paid[t]] = chunk[t].ids

\* Rows and receipts agree, except for the row that waits to be attached.
LinkInv ==
    /\ \A s \in Settlement : \A k \in leaves[s] :
        settlementId[k] = s \/ \E t \in Tick : pc[t] = "attach" /\ paid[t] = s
    /\ \A k \in Receipt : settlementId[k] # None =>
        /\ k \in leaves[settlementId[k]]
        /\ batchIndex[k] = Rank(k, leaves[settlementId[k]])

SchedInv == FunInv /\ FlightInv /\ PlanInv /\ AttachInv /\ LinkInv /\ BatchedOnce

\* The slices of the due groups are disjoint and unsettled.
LEMMA ChunksDisjoint ==
    ASSUME NEW scan, NEW c \in Chunks(scan), NEW d \in Chunks(scan),
           NEW k \in c.ids \cap d.ids
    PROVE  c = d
<1>1. PICK i \in scan : c \in dueChunks({x \in scan : escrowOf[x] = escrowOf[i]})
  BY DEF Chunks
<1>2. PICK j \in scan : d \in dueChunks({x \in scan : escrowOf[x] = escrowOf[j]})
  BY DEF Chunks
<1> DEFINE g == {x \in scan : escrowOf[x] = escrowOf[i]}
           h == {x \in scan : escrowOf[x] = escrowOf[j]}
           b(x, q) == Rank(x, q) \div MaxReceipts
<1>3. PICK y \in g : c = [first |-> Min(g), ids |-> {x \in g : b(x, g) = b(y, g)}]
  BY <1>1 DEF dueChunks
<1>4. PICK z \in h : d = [first |-> Min(h), ids |-> {x \in h : b(x, h) = b(z, h)}]
  BY <1>2 DEF dueChunks
<1>5. k \in g /\ k \in h /\ b(k, g) = b(y, g) /\ b(k, h) = b(z, h)
  BY <1>3, <1>4
<1>6. g = h
  BY <1>5
<1>7. b(y, g) = b(z, h)
  BY <1>5, <1>6
<1> HIDE DEF g, h, b
<1>8. QED
  BY <1>3, <1>4, <1>6, <1>7

\* The chunks a tick plans hold only receipts without a settlement.
LEMMA ChunksUnsettled ==
    ASSUME NEW c \in Chunks(findUnsettled), NEW k \in c.ids
    PROVE  k \in Receipt /\ settlementId[k] = None
<1>1. PICK j \in findUnsettled :
        c \in dueChunks({x \in findUnsettled : escrowOf[x] = escrowOf[j]})
  BY DEF Chunks
<1> DEFINE g == {x \in findUnsettled : escrowOf[x] = escrowOf[j]}
           b(x) == Rank(x, g) \div MaxReceipts
<1>2. PICK y \in g : c = [first |-> Min(g), ids |-> {x \in g : b(x) = b(y)}]
  BY <1>1 DEF dueChunks
<1>3. k \in findUnsettled
  BY <1>2
<1>4. QED
  BY <1>3 DEF findUnsettled

----------------------------------------------------------------------------
(* Steps                                                                   *)

\* The loop of the tick in flight goes on with fewer chunks.
LEMMA GoOnKeepsFlight ==
    ASSUME SchedInv, Sole, NEW t \in Tick, pc[t] # "idle",
           NEW rest \in SUBSET plan[t], GoOn(t, rest)
    PROVE  /\ \A u \in Tick : u # t => pc'[u] = pc[u] /\ plan'[u] = plan[u]
           /\ pc'[t] # "attach" /\ plan'[t] = rest
           /\ pc' \in [Tick -> {"idle", "settle", "attach"}]
           /\ plan' = [u \in Tick |-> plan'[u]] /\ chunk' = [u \in Tick |-> chunk'[u]]
           /\ paid' \in [Tick -> Settlement \cup {None}]
           /\ running' \in [Instance -> BOOLEAN]
           /\ FlightInv'
<1>1. /\ plan' = [plan EXCEPT ![t] = rest]
      /\ chunk' = [chunk EXCEPT ![t] = None]
      /\ paid' = [paid EXCEPT ![t] = None]
      /\ pc' = [pc EXCEPT ![t] = IF rest = {} THEN "idle" ELSE "settle"]
      /\ running' = IF rest = {} THEN [running EXCEPT ![Home[t]] = FALSE] ELSE running
  BY DEF GoOn
<1>2. Home[t] \in Instance
  BY SchedulerAssumption
<1>3. /\ pc' \in [Tick -> {"idle", "settle", "attach"}]
      /\ plan' = [u \in Tick |-> plan'[u]] /\ chunk' = [u \in Tick |-> chunk'[u]]
      /\ paid' \in [Tick -> Settlement \cup {None}]
      /\ running' \in [Instance -> BOOLEAN]
  BY <1>1 DEF SchedInv, FunInv
<1>4. /\ \A u \in Tick : u # t => pc'[u] = pc[u] /\ plan'[u] = plan[u]
      /\ pc'[t] = IF rest = {} THEN "idle" ELSE "settle"
      /\ plan'[t] = rest
  BY <1>1 DEF SchedInv, FunInv
<1>5. \A u \in Tick : u # t => pc[u] = "idle"
  BY DEF SchedInv, FlightInv
<1>6. FlightInv'
  <2>1. CASE rest = {}
    BY <2>1, <1>4, <1>5 DEF SchedInv, FlightInv
  <2>2. CASE rest # {}
    BY <2>2, <1>1, <1>4, <1>5 DEF SchedInv, FlightInv
  <2>3. QED
    BY <2>1, <2>2
<1>7. QED
  BY <1>3, <1>4, <1>6

\* Chunks are given up before their settlement exists.
LEMMA BreakKeepsInv ==
    ASSUME SchedInv, Sole, NEW t \in Tick, pc[t] = "settle", NEW c, Break(t, c),
           UNCHANGED <<settlementId, batchIndex, leaves>>
    PROVE  SchedInv'
<1> DEFINE rest == {d \in plan[t] : d.first # c.first}
<1>1. rest \in SUBSET plan[t] /\ GoOn(t, rest) /\ pc[t] # "idle"
  BY DEF Break
<1> HIDE DEF rest
<1>2. /\ \A u \in Tick : u # t => pc'[u] = pc[u] /\ plan'[u] = plan[u]
      /\ pc'[t] # "attach" /\ plan'[t] = rest
      /\ pc' \in [Tick -> {"idle", "settle", "attach"}]
      /\ plan' = [u \in Tick |-> plan'[u]] /\ chunk' = [u \in Tick |-> chunk'[u]]
      /\ paid' \in [Tick -> Settlement \cup {None}]
      /\ running' \in [Instance -> BOOLEAN]
      /\ FlightInv'
  BY <1>1, GoOnKeepsFlight
<1>3. \A u \in Tick : pc[u] # "attach" /\ pc'[u] # "attach"
  BY <1>2 DEF SchedInv, FlightInv
<1>4. FunInv'
  BY <1>2 DEF SchedInv, FunInv
<1>5. PlanInv'
  <2>1. \A u \in Tick : plan'[u] \subseteq plan[u]
    BY <1>1, <1>2
  <2>2. QED
    BY <2>1 DEF SchedInv, PlanInv
<1>6. AttachInv' /\ LinkInv' /\ BatchedOnce'
  BY <1>3 DEF SchedInv, AttachInv, LinkInv, BatchedOnce, Rank
<1>7. QED
  BY <1>2, <1>4, <1>5, <1>6 DEF SchedInv

\* Starting a tick (runOnce) keeps the invariant.
LEMMA RunOnceKeepsInv ==
    ASSUME SchedInv, Sole, NEW t \in Tick, runOnce(t)
    PROVE  SchedInv'
<1> DEFINE cs == Chunks(findUnsettled)
<1>1. /\ pc[t] = "idle" /\ ~running[Home[t]]
      /\ running' = [running EXCEPT ![Home[t]] = TRUE]
      /\ pc' = [pc EXCEPT ![t] = "settle"]
      /\ plan' = [plan EXCEPT ![t] = cs]
      /\ UNCHANGED <<settlementId, batchIndex, leaves, chunk, paid>>
  BY DEF runOnce, receiptVars
<1>2. Home \in [Tick -> Instance] /\ \A u \in Tick : Home[u] = Home[t]
  BY SchedulerAssumption DEF Sole
<1>3. \A u \in Tick : pc[u] = "idle"
  BY <1>1, <1>2 DEF SchedInv, FlightInv
<1>4. /\ \A c \in cs : \A k \in c.ids : k \in Receipt /\ settlementId[k] = None
      /\ \A c, d \in cs : \A k \in c.ids \cap d.ids : c = d
  BY ChunksDisjoint, ChunksUnsettled
<1> HIDE DEF cs
<1>5. FunInv'
  BY <1>1 DEF SchedInv, FunInv
<1>6. FlightInv'
  BY <1>1, <1>2, <1>3 DEF SchedInv, FunInv, FlightInv
<1>7. PlanInv'
  <2>1. plan'[t] = cs /\ \A u \in Tick : u # t => plan'[u] = plan[u]
    BY <1>1 DEF SchedInv, FunInv
  <2>2. QED
    BY <2>1, <1>1, <1>4 DEF SchedInv, PlanInv
<1>8. \A u \in Tick : pc[u] # "attach" /\ pc'[u] # "attach"
  BY <1>1, <1>3 DEF SchedInv, FunInv
<1>9. AttachInv' /\ LinkInv' /\ BatchedOnce'
  BY <1>1, <1>8 DEF SchedInv, AttachInv, LinkInv, BatchedOnce, Rank
<1>10. QED
  BY <1>5, <1>6, <1>7, <1>9 DEF SchedInv

\* A settlement row is written: its receipts were in no row before.
LEMMA RowKeepsInv ==
    ASSUME SchedInv, Sole, NEW t \in Tick, pc[t] = "settle", NEW c \in plan[t],
           NEW s \in Settlement, leaves[s] = {},
           leaves' = [leaves EXCEPT ![s] = c.ids],
           paid' = [paid EXCEPT ![t] = s],
           chunk' = [chunk EXCEPT ![t] = c],
           pc' = [pc EXCEPT ![t] = "attach"],
           UNCHANGED <<settlementId, batchIndex, running, plan>>
    PROVE  SchedInv'
<1>1. /\ \A k \in c.ids : k \in Receipt /\ settlementId[k] = None
      /\ \A u \in Tick : u # t => pc[u] = "idle"
  BY DEF SchedInv, PlanInv, FlightInv
<1>2. \A u \in Settlement : \A k \in leaves[u] : settlementId[k] = u /\ u # None
  BY <1>1, SchedulerAssumption DEF SchedInv, LinkInv
<1>3. /\ leaves'[s] = c.ids /\ \A u \in Settlement : u # s => leaves'[u] = leaves[u]
      /\ pc'[t] = "attach" /\ paid'[t] = s /\ chunk'[t] = c
      /\ \A u \in Tick : u # t => pc'[u] = "idle"
  BY <1>1 DEF SchedInv, FunInv
<1>4. c.ids \subseteq Receipt
  BY <1>1
<1>5. FunInv'
  BY <1>4 DEF SchedInv, FunInv
<1>6. FlightInv'
  BY <1>3 DEF SchedInv, FlightInv
<1>7. PlanInv'
  BY DEF SchedInv, PlanInv
<1>8. AttachInv'
  BY <1>3 DEF SchedInv, AttachInv
<1>9. LinkInv'
  <2>1. \A u \in Settlement : \A k \in leaves'[u] :
            settlementId'[k] = u \/ \E v \in Tick : pc'[v] = "attach" /\ paid'[v] = u
    BY <1>2, <1>3
  <2>2. ASSUME NEW k \in Receipt, settlementId[k] # None
        PROVE  /\ k \in leaves'[settlementId[k]]
               /\ batchIndex[k] = Rank(k, leaves'[settlementId[k]])
    <3>1. settlementId[k] \in Settlement /\ k \in leaves[settlementId[k]]
      BY <2>2 DEF SchedInv, FunInv, LinkInv
    <3>2. settlementId[k] # s
      BY <3>1
    <3>3. QED
      BY <2>2, <3>1, <3>2, <1>3 DEF SchedInv, LinkInv
  <2>3. \A k \in Receipt : settlementId'[k] # None =>
            /\ k \in leaves'[settlementId'[k]]
            /\ batchIndex'[k] = Rank(k, leaves'[settlementId'[k]])
    BY <2>2
  <2>4. QED
    BY <2>1, <2>3 DEF LinkInv, Rank
<1>10. BatchedOnce'
  <2>1. ASSUME NEW u \in Settlement, u # s PROVE leaves'[u] \cap leaves'[s] = {}
    BY <2>1, <1>1, <1>2, <1>3
  <2>2. QED
    BY <2>1, <1>3 DEF SchedInv, BatchedOnce
<1>11. QED
  BY <1>5, <1>6, <1>7, <1>8, <1>9, <1>10 DEF SchedInv

\* settleChunk(), whether it throws or writes a settlement, keeps the invariant.
LEMMA SettleChunkKeepsInv ==
    ASSUME SchedInv, Sole, NEW t \in Tick, settleChunk(t)
    PROVE  SchedInv'
<1>1. PICK c \in plan[t] :
        \/ Break(t, c) /\ UNCHANGED leaves
        \/ /\ \E s \in Settlement :
                /\ leaves[s] = {}
                /\ leaves' = [leaves EXCEPT ![s] = c.ids]
                /\ paid' = [paid EXCEPT ![t] = s]
           /\ chunk' = [chunk EXCEPT ![t] = c]
           /\ pc' = [pc EXCEPT ![t] = "attach"]
           /\ UNCHANGED <<running, plan>>
  BY DEF settleChunk
<1>2. pc[t] = "settle" /\ UNCHANGED <<settlementId, batchIndex>>
  BY DEF settleChunk, receiptVars
<1>3. QED
  BY <1>1, <1>2, BreakKeepsInv, RowKeepsInv

\* Attaching the receipts to their settlement (markSettled) keeps the invariant.
LEMMA AttachKeepsInv ==
    ASSUME SchedInv, Sole, NEW t \in Tick, attach(t)
    PROVE  SchedInv'
<1> DEFINE c == chunk[t]
           s == paid[t]
           rest == plan[t] \ {c}
<1>1. /\ pc[t] = "attach" /\ rest \in SUBSET plan[t] /\ GoOn(t, rest)
      /\ settlementId' = [k \in Receipt |-> IF k \in c.ids THEN s ELSE settlementId[k]]
      /\ batchIndex' = [k \in Receipt |-> IF k \in c.ids THEN Rank(k, c.ids) ELSE batchIndex[k]]
      /\ UNCHANGED leaves
  BY DEF attach, markSettled, Sole
<1>2. /\ s \in Settlement /\ c \in plan[t] /\ leaves[s] = c.ids
      /\ \A k \in c.ids : k \in Receipt /\ settlementId[k] = None
  BY <1>1 DEF SchedInv, AttachInv, PlanInv
<1> HIDE DEF c, s, rest
<1>3. /\ \A u \in Tick : u # t => pc'[u] = pc[u] /\ plan'[u] = plan[u]
      /\ pc'[t] # "attach" /\ plan'[t] = rest
      /\ pc' \in [Tick -> {"idle", "settle", "attach"}]
      /\ plan' = [u \in Tick |-> plan'[u]] /\ chunk' = [u \in Tick |-> chunk'[u]]
      /\ paid' \in [Tick -> Settlement \cup {None}]
      /\ running' \in [Instance -> BOOLEAN]
      /\ FlightInv'
  BY <1>1, GoOnKeepsFlight
<1>4. \A u \in Tick : u # t => pc[u] = "idle" /\ pc'[u] = "idle"
  BY <1>1, <1>3 DEF SchedInv, FlightInv
<1>5. FunInv'
  BY <1>1, <1>2, <1>3 DEF SchedInv, FunInv
<1>6. PlanInv'
  <2>1. ASSUME NEW u \in Tick, NEW d \in plan'[u], NEW k \in d.ids
        PROVE  k \in Receipt /\ settlementId'[k] = None
    <3>1. d \in plan[u] /\ k \in Receipt /\ settlementId[k] = None
      BY <1>1, <1>3 DEF SchedInv, PlanInv
    <3>2. k \notin c.ids
      <4>1. CASE u = t
        BY <4>1, <3>1, <1>2, <1>3 DEF SchedInv, PlanInv, rest
      <4>2. CASE u # t
        BY <4>2, <1>4, <3>1 DEF SchedInv, FlightInv
      <4>3. QED
        BY <4>1, <4>2
    <3>3. QED
      BY <3>1, <3>2, <1>1
  <2>2. \A u \in Tick : plan'[u] \subseteq plan[u]
    BY <1>1, <1>3
  <2>3. QED
    BY <2>1, <2>2 DEF SchedInv, PlanInv
<1>7. AttachInv'
  BY <1>3, <1>4 DEF AttachInv
<1>8. LinkInv'
  <2>1. ASSUME NEW u \in Settlement, NEW k \in leaves[u] PROVE settlementId'[k] = u
    <3>1. k \in Receipt
      BY DEF SchedInv, FunInv
    <3>2. CASE u = s
      BY <3>1, <3>2, <1>1, <1>2
    <3>3. CASE u # s
      <4>1. settlementId[k] = u
        BY <3>3, <1>4 DEF SchedInv, LinkInv, s
      <4>2. k \notin c.ids
        BY <4>1, <1>2, SchedulerAssumption
      <4>3. QED
        BY <3>1, <4>1, <4>2, <1>1
    <3>4. QED
      BY <3>2, <3>3
  <2>2. ASSUME NEW k \in Receipt, settlementId'[k] # None
        PROVE  /\ k \in leaves[settlementId'[k]]
               /\ batchIndex'[k] = Rank(k, leaves[settlementId'[k]])
    <3>1. CASE k \in c.ids
      BY <3>1, <1>1, <1>2
    <3>2. CASE k \notin c.ids
      BY <2>2, <3>2, <1>1 DEF SchedInv, LinkInv
    <3>3. QED
      BY <3>1, <3>2
  <2>3. QED
    BY <2>1, <2>2, <1>1 DEF LinkInv, Rank
<1>9. BatchedOnce'
  BY <1>1 DEF SchedInv, BatchedOnce
<1>10. QED
  BY <1>3, <1>5, <1>6, <1>7, <1>8, <1>9 DEF SchedInv

\* The crash of the process outside the attachment keeps the invariant.
LEMMA CrashKeepsInv ==
    ASSUME SchedInv, Sole, NEW i \in Instance, Crash(i)
    PROVE  SchedInv'
<1>1. \A t \in Tick : Home[t] = i /\ t \in {u \in Tick : Home[u] = i}
  BY SchedulerAssumption DEF Sole
<1>2. /\ \A t \in Tick : pc[t] # "attach"
      /\ running' = [running EXCEPT ![i] = FALSE]
      /\ pc' = [t \in Tick |-> "idle"] /\ plan' = [t \in Tick |-> {}]
      /\ chunk' = [t \in Tick |-> None] /\ paid' = [t \in Tick |-> None]
      /\ UNCHANGED <<settlementId, batchIndex, leaves>>
  BY <1>1 DEF Crash, receiptVars, Sole
<1>3. FunInv'
  BY <1>2 DEF SchedInv, FunInv
<1>4. FlightInv' /\ PlanInv' /\ AttachInv'
  BY <1>2 DEF FlightInv, PlanInv, AttachInv
<1>5. LinkInv' /\ BatchedOnce'
  BY <1>2 DEF SchedInv, LinkInv, BatchedOnce, Rank
<1>6. QED
  BY <1>3, <1>4, <1>5 DEF SchedInv

\* Neither new receipts nor time touch what the invariant speaks of.
LEMMA OtherStepsKeepInv ==
    ASSUME SchedInv,
           UNCHANGED <<settlementId, batchIndex, leaves, running, pc, plan, chunk, paid>>
    PROVE  SchedInv'
BY DEF SchedInv, FunInv, FlightInv, PlanInv, AttachInv, LinkInv, BatchedOnce, Rank

\* The invariant holds before the first receipt.
LEMMA InitSchedInv == Init => SchedInv
<1> SUFFICES ASSUME Init PROVE SchedInv
  OBVIOUS
<1>1. FunInv /\ FlightInv
  BY DEF Init, FunInv, FlightInv
<1>2. PlanInv /\ AttachInv /\ LinkInv /\ BatchedOnce
  BY DEF Init, PlanInv, AttachInv, LinkInv, BatchedOnce
<1>3. QED
  BY <1>1, <1>2 DEF SchedInv

\* Every step of a sole scheduler keeps the invariant.
LEMMA NextKeepsSchedInv ==
    ASSUME Sole, SchedInv, [Next]_vars
    PROVE  SchedInv'
<1>1. ASSUME NEW t \in Tick, runOnce(t) \/ settleChunk(t) \/ attach(t)
      PROVE  SchedInv'
  BY <1>1, RunOnceKeepsInv, SettleChunkKeepsInv, AttachKeepsInv
<1>2. ASSUME NEW i \in Instance, Crash(i) PROVE SchedInv'
  BY <1>2, CrashKeepsInv
<1>3. CASE \/ \E e \in Escrow : create(e)
           \/ WindowElapses \/ SetPause \/ UNCHANGED vars
  <2>1. UNCHANGED <<settlementId, batchIndex, leaves, running, pc, plan, chunk, paid>>
    BY <1>3 DEF create, WindowElapses, SetPause, vars, receiptVars, tickVars
  <2>2. QED
    BY <2>1, OtherStepsKeepInv
<1>4. QED
  BY <1>1, <1>2, <1>3 DEF Next

\* The inductive invariant of a deployment with one scheduler.
THEOREM SchedulerInv ==
    ASSUME Sole
    PROVE  Spec => []SchedInv
<1>1. Init => SchedInv
  BY InitSchedInv
<1>2. SchedInv /\ [Next]_vars => SchedInv'
  BY NextKeepsSchedInv
<1>3. QED
  BY <1>1, <1>2, PTL DEF Spec

\* "A receipt is batched once" (docs/ADVANCED.md): the running flag and the
\* attachment of every batch keep runOnce() from settling a receipt twice.
THEOREM SchedulerBatchedOnce ==
    ASSUME Sole
    PROVE  Spec => []BatchedOnce
<1>1. SchedInv => BatchedOnce
  BY DEF SchedInv
<1>2. QED
  BY <1>1, SchedulerInv, PTL

\* inclusionProof() rebuilds exactly the batch whose root was settled, each
\* receipt at the leaf position markSettled() stored.
THEOREM SchedulerProofMatches ==
    ASSUME Sole
    PROVE  Spec => []ProofMatches
<1>1. ASSUME SchedInv PROVE ProofMatches
  <2>1. SUFFICES ASSUME NEW k \in Receipt, settlementId[k] # None
                 PROVE  LET batch == {j \in Receipt : settlementId[j] = settlementId[k]}
                        IN  /\ batch = leaves[settlementId[k]]
                            /\ batchIndex[k] = Rank(k, batch)
    BY DEF ProofMatches
  <2> DEFINE s == settlementId[k]
  <2>2. /\ s \in Settlement /\ k \in leaves[s] /\ leaves[s] \subseteq Receipt
        /\ batchIndex[k] = Rank(k, leaves[s])
    BY <1>1, <2>1 DEF SchedInv, FunInv, LinkInv
  <2>3. \A t \in Tick : ~(pc[t] = "attach" /\ paid[t] = s)
    BY <1>1, <2>1, <2>2 DEF SchedInv, AttachInv, PlanInv
  <2>4. \A j \in Receipt : settlementId[j] = s <=> j \in leaves[s]
    BY <1>1, <2>1, <2>2, <2>3 DEF SchedInv, LinkInv
  <2>5. {j \in Receipt : settlementId[j] = s} = leaves[s]
    BY <2>2, <2>4
  <2>6. QED
    BY <2>2, <2>5
<1>2. QED
  BY <1>1, SchedulerInv, PTL

----------------------------------------------------------------------------
(* Ranks and slices                                                        *)

\* dueChunks(), one group and one slice at a time.
Group(j, scan) == {k \in scan : escrowOf[k] = escrowOf[j]}
Slice(b, g) == {k \in g : Rank(k, g) \div MaxReceipts = b}

\* The oldest of a set of receipts.
LEMMA OldestExists ==
    ASSUME NEW S \in SUBSET Nat, S # {}
    PROVE  Min(S) \in S /\ \A y \in S : Min(S) <= y
<1>1. PICK x \in S : \A y \in S : ~ (<<y, x>> \in OpToRel(<, Nat))
  BY NatLessThanWellFounded, WFMin, Zenon
<1>2. \A y \in S : ~ (y < x)
  BY <1>1 DEF OpToRel
<1>3. \E z \in S : \A y \in S : z <= y
  BY <1>2
<1>4. QED
  BY <1>3 DEF Min

\* A younger receipt has a higher index, and the indices are those of a list.
LEMMA RankGrows ==
    ASSUME NEW S \in SUBSET Nat, IsFiniteSet(S)
    PROVE  /\ Cardinality(S) \in Nat
           /\ \A x \in S : Rank(x, S) \in Nat /\ Rank(x, S) < Cardinality(S)
           /\ \A x, y \in S : x < y => Rank(x, S) < Rank(y, S)
<1> DEFINE Below(x) == {j \in S : j < x}
<1>1. Cardinality(S) \in Nat /\ \A x \in S : Below(x) \in SUBSET S /\ IsFiniteSet(Below(x))
  BY FS_CardinalityType, FS_Subset
<1>2. \A x \in S : Cardinality(Below(x)) \in Nat
  BY <1>1, FS_CardinalityType
<1>3. ASSUME NEW x \in S, NEW T \in SUBSET S, Below(x) \in SUBSET T, x \in T
      PROVE  Cardinality(Below(x)) < Cardinality(T)
  <2>1. IsFiniteSet(T) /\ Cardinality(T) \in Nat
    BY FS_Subset, FS_CardinalityType
  <2>2. x \notin Below(x)
    OBVIOUS
  <2> HIDE DEF Below
  <2>3. Cardinality(Below(x)) <= Cardinality(T) /\ (Cardinality(T) = Cardinality(Below(x)) => T = Below(x))
    BY <1>3, <2>1, FS_Subset
  <2>4. QED
    BY <1>2, <1>3, <2>1, <2>2, <2>3
<1>4. \A x \in S : Cardinality(Below(x)) < Cardinality(S)
  BY <1>1, <1>3
<1>5. ASSUME NEW x \in S, NEW y \in S, x < y PROVE Cardinality(Below(x)) < Cardinality(Below(y))
  <2>1. x \in Nat /\ y \in Nat /\ \A j \in S : j \in Nat /\ (j < x => j < y)
    BY <1>5
  <2>2. Below(x) \in SUBSET Below(y) /\ x \in Below(y) /\ Below(y) \in SUBSET S
    BY <1>5, <2>1
  <2> HIDE DEF Below
  <2>3. QED
    BY <1>3, <2>2
<1>6. QED
  BY <1>1, <1>2, <1>4, <1>5 DEF Rank

\* Every index below the length is taken.
LEMMA RankReaches ==
    ASSUME NEW S \in SUBSET Nat, IsFiniteSet(S), NEW n \in Nat, n < Cardinality(S)
    PROVE  \E x \in S : Rank(x, S) = n
<1> DEFINE f == [x \in S |-> Rank(x, S)]
           T == 0..Cardinality(S) - 1
<1>1. Cardinality(S) \in Nat
  BY RankGrows
<1>2. f \in Injection(S, T)
  <2>1. \A x \in S : Rank(x, S) \in T
    BY RankGrows
  <2>2. \A x, y \in S : Rank(x, S) = Rank(y, S) => x = y
    BY RankGrows
  <2>3. QED
    BY <2>1, <2>2 DEF Injection, IsInjective
<1>3. IsFiniteSet(T) /\ Cardinality(T) = Cardinality(S)
  <2>1. 0 \in Int /\ Cardinality(S) - 1 \in Int /\ ~(0 > Cardinality(S) - 1)
        /\ (Cardinality(S) - 1) - 0 + 1 = Cardinality(S)
    BY <1>1
  <2>2. QED
    BY <2>1, FS_Interval
<1> HIDE DEF f, T
<1>4. f \in Surjection(S, T)
  BY <1>2, <1>3, FS_Injection
<1>5. n \in T
  BY <1>1 DEF T
<1>6. PICK x \in S : f[x] = n
  BY <1>4, <1>5 DEF Surjection
<1>7. QED
  BY <1>6 DEF f

\* Division, as the slices need it.
LEMMA Quotient ==
    ASSUME NEW n \in Nat, NEW M \in Nat \ {0}
    PROVE  /\ n \div M \in Nat /\ (n \div M) * M <= n /\ n < (n \div M) * M + M
           /\ \A b \in Nat : b * M <= n /\ n < b * M + M => n \div M = b
  OBVIOUS

\* A slice is no longer than the cap; it is as long when a later slice follows.
LEMMA SliceLength ==
    ASSUME NEW g \in SUBSET Nat, IsFiniteSet(g), NEW j \in g
    PROVE  LET s == Slice(Rank(j, g) \div MaxReceipts, g) IN
           /\ j \in s /\ s \in SUBSET g /\ IsFiniteSet(s)
           /\ \A k \in s : Rank(k, s) \in Nat /\ Rank(k, s) < MaxReceipts
           /\ \A k \in g : Rank(j, g) \div MaxReceipts < Rank(k, g) \div MaxReceipts =>
                Cardinality(s) = MaxReceipts
<1> DEFINE M == MaxReceipts
           b == Rank(j, g) \div M
           s == Slice(b, g)
           T == b * M..b * M + M - 1
           f == [x \in s |-> Rank(x, g)]
<1>1. M \in Nat \ {0} /\ \A x \in g : Rank(x, g) \in Nat
  BY SchedulerAssumption, RankGrows
<1>2. \A x \in g : LET n == Rank(x, g) IN
        /\ n \div M \in Nat /\ (n \div M) * M <= n /\ n < (n \div M) * M + M
        /\ \A c \in Nat : c * M <= n /\ n < c * M + M => n \div M = c
  BY <1>1, Quotient
<1>3. b \in Nat /\ b * M \in Nat
  BY <1>1, <1>2
<1>4. j \in s /\ s \in SUBSET g /\ IsFiniteSet(s)
  BY FS_Subset DEF Slice
<1>5. \A x \in g : x \in s <=> Rank(x, g) \in T
  <2>1. \A x \in g : x \in s => Rank(x, g) \in T
    <3> SUFFICES ASSUME NEW x \in g, x \in s PROVE Rank(x, g) \in T
      OBVIOUS
    <3>1. Rank(x, g) \div M = b /\ Rank(x, g) \in Nat
      BY <1>1 DEF Slice
    <3>2. b * M <= Rank(x, g) /\ Rank(x, g) < b * M + M
      BY <1>2, <3>1
    <3> HIDE DEF b
    <3>3. QED
      BY <1>1, <1>3, <3>1, <3>2
  <2>2. \A x \in g : Rank(x, g) \in T => x \in s
    <3> SUFFICES ASSUME NEW x \in g, Rank(x, g) \in T PROVE x \in s
      OBVIOUS
    <3> HIDE DEF b
    <3>1. b * M <= Rank(x, g) /\ Rank(x, g) < b * M + M
      BY <1>1, <1>3
    <3>2. Rank(x, g) \div M = b
      BY <1>2, <1>3, <3>1
    <3>3. QED
      BY <3>2 DEF Slice
  <2>3. QED
    BY <2>1, <2>2
<1>6. IsFiniteSet(T) /\ Cardinality(T) = M
  <2> HIDE DEF b
  <2>1. b * M \in Int /\ b * M + M - 1 \in Int /\ ~(b * M > b * M + M - 1)
        /\ (b * M + M - 1) - b * M + 1 = M
    BY <1>1, <1>3
  <2>2. QED
    BY <2>1, FS_Interval
<1> HIDE DEF s, T, b, M
<1>7. f \in Injection(s, T)
  <2>1. \A x \in s : Rank(x, g) \in T
    BY <1>4, <1>5
  <2>2. \A x, y \in s : Rank(x, g) = Rank(y, g) => x = y
    BY <1>4, RankGrows
  <2>3. QED
    BY <2>1, <2>2 DEF Injection, IsInjective
<1>8. /\ Cardinality(s) <= M
      /\ f \in Surjection(s, T) => Cardinality(s) = M
  BY <1>6, <1>7, FS_Injection
<1>9. \A k \in s : Rank(k, s) \in Nat /\ Rank(k, s) < M
  <2>1. s \in SUBSET Nat
    BY <1>4
  <2>2. Cardinality(s) \in Nat /\ \A k \in s : Rank(k, s) \in Nat /\ Rank(k, s) < Cardinality(s)
    BY <1>4, <2>1, RankGrows
  <2>3. QED
    BY <1>1, <1>8, <2>2
<1>10. ASSUME NEW k \in g, b < Rank(k, g) \div M PROVE Cardinality(s) = M
  <2>1. \A n \in T : n \in Nat /\ n < Cardinality(g)
    <3> DEFINE q == Rank(k, g) \div M
    <3>1. /\ q \in Nat /\ q * M <= Rank(k, g) /\ Rank(k, g) \in Nat
          /\ Rank(k, g) < Cardinality(g) /\ Cardinality(g) \in Nat
      BY <1>1, <1>2, RankGrows
    <3>2. b < q
      BY <1>10
    <3> HIDE DEF q
    <3>3. b * M + M <= q * M
      <4>1. b + 1 <= q
        BY <1>3, <3>1, <3>2
      <4>2. (b + 1) * M <= q * M
        BY <1>1, <1>3, <3>1, <4>1
      <4>3. QED
        BY <1>1, <1>3, <4>2
    <3>4. q * M \in Nat
      BY <1>1, <3>1
    <3>5. QED
      BY <1>1, <1>3, <3>1, <3>3, <3>4 DEF T
  <2>2. \A n \in T : \E x \in g : Rank(x, g) = n
    BY <2>1, RankReaches
  <2>3. \A n \in T : \E x \in s : f[x] = n
    BY <1>5, <2>2
  <2>4. f \in Surjection(s, T)
    BY <1>7, <2>3 DEF Injection, Surjection
  <2>5. QED
    BY <1>8, <2>4
<1>11. QED
  BY <1>4, <1>9, <1>10 DEF s, b, M

----------------------------------------------------------------------------
(* The chunks of a tick                                                    *)

SliceOf(k, g) == Slice(Rank(k, g) \div MaxReceipts, g)

\* A chunk is a slice of a group, and every slice that is due is a chunk.
LEMMA ChunkIsSlice ==
    ASSUME NEW scan
    PROVE  /\ \A c \in Chunks(scan) : \E j \in scan : \E y \in Group(j, scan) :
                /\ c = [first |-> Min(Group(j, scan)), ids |-> SliceOf(y, Group(j, scan))]
                /\ \/ Cardinality(SliceOf(y, Group(j, scan))) = MaxReceipts
                   \/ Min(Group(j, scan)) <= aged
           /\ \A j \in scan : \A y \in Group(j, scan) :
                \/ Cardinality(SliceOf(y, Group(j, scan))) = MaxReceipts
                \/ Min(Group(j, scan)) <= aged
                => [first |-> Min(Group(j, scan)), ids |-> SliceOf(y, Group(j, scan))] \in Chunks(scan)
<1>1. Chunks(scan) = UNION {dueChunks(Group(j, scan)) : j \in scan}
  BY DEF Chunks, Group
<1>2. ASSUME NEW g, NEW c
      PROVE  c \in dueChunks(g) <=>
               \E y \in g : /\ c = [first |-> Min(g), ids |-> SliceOf(y, g)]
                            /\ Cardinality(SliceOf(y, g)) = MaxReceipts \/ Min(g) <= aged
  <2> DEFINE all == {[first |-> Min(g), ids |-> SliceOf(k, g)] : k \in g}
             due(d) == Cardinality(d.ids) = MaxReceipts \/ Min(g) <= aged
  <2>1. dueChunks(g) = {d \in all : due(d)}
    BY Zenon DEF dueChunks, SliceOf, Slice
  <2>2. c \in all <=> \E y \in g : c = [first |-> Min(g), ids |-> SliceOf(y, g)]
    OBVIOUS
  <2>3. \A y : c = [first |-> Min(g), ids |-> SliceOf(y, g)] => c.ids = SliceOf(y, g)
    OBVIOUS
  <2>4. QED
    BY <2>1, <2>2, <2>3
<1>3. \A c : c \in Chunks(scan) <=> \E j \in scan : c \in dueChunks(Group(j, scan))
  BY <1>1
<1>4. QED
  BY <1>2, <1>3

\* What a tick finds are receipts that exist and have no settlement.
LEMMA ScanFits ==
    /\ findUnsettled \in SUBSET Receipt /\ findUnsettled \in SUBSET Nat
    /\ IsFiniteSet(findUnsettled)
    /\ \A k \in findUnsettled : escrowOf[k] # None /\ settlementId[k] = None
    /\ \A j : Group(j, findUnsettled) \in SUBSET Nat /\ IsFiniteSet(Group(j, findUnsettled))
              /\ Group(j, findUnsettled) \in SUBSET findUnsettled
<1>1. findUnsettled \in SUBSET Receipt /\ \A k \in findUnsettled : escrowOf[k] # None /\ settlementId[k] = None
  BY DEF findUnsettled
<1>2. IsFiniteSet(Receipt) /\ Receipt \in SUBSET Nat
  BY SchedulerAssumption, FS_Interval DEF Receipt
<1>3. IsFiniteSet(findUnsettled)
  BY <1>1, <1>2, FS_Subset
<1>4. \A j : Group(j, findUnsettled) \in SUBSET findUnsettled
  BY DEF Group
<1>5. QED
  BY <1>1, <1>2, <1>3, <1>4, FS_Subset

\* No chunk is empty, or longer than maxReceipts.
Sliced(c) == c.ids # {} /\ \A k \in c.ids : Rank(k, c.ids) \in 0..MaxReceipts - 1

LEMMA ChunksFit ==
    ASSUME NEW c \in Chunks(findUnsettled)
    PROVE  c \in Chunk /\ Sliced(c) /\ c.ids \in SUBSET findUnsettled
<1>1. PICK j \in findUnsettled : \E y \in Group(j, findUnsettled) :
        c = [first |-> Min(Group(j, findUnsettled)), ids |-> SliceOf(y, Group(j, findUnsettled))]
  BY ChunkIsSlice
<1> DEFINE g == Group(j, findUnsettled)
<1>2. PICK y \in g : c = [first |-> Min(g), ids |-> SliceOf(y, g)]
  BY <1>1
<1>3. g \in SUBSET Nat /\ IsFiniteSet(g) /\ g \in SUBSET Receipt /\ g \in SUBSET findUnsettled
  BY ScanFits
<1> HIDE DEF g
<1>4. Min(g) \in g
  BY <1>2, <1>3, OldestExists
<1>5. /\ y \in SliceOf(y, g) /\ SliceOf(y, g) \in SUBSET g
      /\ \A k \in SliceOf(y, g) : Rank(k, SliceOf(y, g)) \in Nat /\ Rank(k, SliceOf(y, g)) < MaxReceipts
  BY <1>3, SliceLength DEF SliceOf
<1>6. MaxReceipts \in Nat
  BY SchedulerAssumption
<1>7. c.first = Min(g) /\ c.ids = SliceOf(y, g)
  BY <1>2
<1>8. Sliced(c)
  BY <1>5, <1>6, <1>7 DEF Sliced
<1>9. QED
  BY <1>2, <1>3, <1>4, <1>5, <1>7, <1>8 DEF Chunk

----------------------------------------------------------------------------
(* Types, for any number of instances and every fault                      *)

\* A tick plans slices, and attaches the one it waits for.
TickInv ==
    \A t \in Tick :
        /\ \A c \in plan[t] : Sliced(c)
        /\ pc[t] = "attach" => chunk[t] \in Chunk /\ Sliced(chunk[t]) /\ paid[t] \in Settlement

LEMMA GoOnTypes ==
    ASSUME TypeOK, TickInv, NEW t \in Tick, NEW rest \in SUBSET plan[t], GoOn(t, rest)
    PROVE  /\ running' \in [Instance -> BOOLEAN] /\ pc' \in [Tick -> {"idle", "settle", "attach"}]
           /\ plan' \in [Tick -> SUBSET Chunk] /\ chunk' \in [Tick -> Chunk \cup {None}]
           /\ paid' \in [Tick -> Settlement \cup {None}]
           /\ TickInv'
<1>1. /\ plan' = [plan EXCEPT ![t] = rest]
      /\ chunk' = [chunk EXCEPT ![t] = None]
      /\ paid' = [paid EXCEPT ![t] = None]
      /\ pc' = [pc EXCEPT ![t] = IF rest = {} THEN "idle" ELSE "settle"]
      /\ running' = IF rest = {} THEN [running EXCEPT ![Home[t]] = FALSE] ELSE running
  BY DEF GoOn
<1>2. /\ running \in [Instance -> BOOLEAN] /\ pc \in [Tick -> {"idle", "settle", "attach"}]
      /\ plan \in [Tick -> SUBSET Chunk] /\ chunk \in [Tick -> Chunk \cup {None}]
      /\ paid \in [Tick -> Settlement \cup {None}]
  BY DEF TypeOK
<1>3. /\ running' \in [Instance -> BOOLEAN] /\ pc' \in [Tick -> {"idle", "settle", "attach"}]
      /\ plan' \in [Tick -> SUBSET Chunk] /\ chunk' \in [Tick -> Chunk \cup {None}]
      /\ paid' \in [Tick -> Settlement \cup {None}]
  BY <1>1, <1>2
<1>4. /\ \A u \in Tick : u # t =>
            plan'[u] = plan[u] /\ pc'[u] = pc[u] /\ chunk'[u] = chunk[u] /\ paid'[u] = paid[u]
      /\ plan'[t] = rest /\ pc'[t] # "attach"
  BY <1>1, <1>2
<1>5. TickInv'
  BY <1>4 DEF TickInv, Sliced, Rank
<1>6. QED
  BY <1>3, <1>5

LEMMA TickTypes ==
    ASSUME TypeOK, TickInv, NEW t \in Tick, runOnce(t) \/ settleChunk(t) \/ attach(t)
    PROVE  TypeOK' /\ TickInv'
<1>1. ASSUME runOnce(t) PROVE TypeOK' /\ TickInv'
  <2> DEFINE cs == Chunks(findUnsettled)
  <2>1. /\ running' = [running EXCEPT ![Home[t]] = TRUE]
        /\ pc' = [pc EXCEPT ![t] = "settle"] /\ plan' = [plan EXCEPT ![t] = cs]
        /\ UNCHANGED <<escrowOf, settlementId, batchIndex, late, aged, leaves, chunk, paid, paused, hiccups>>
    BY <1>1 DEF runOnce, receiptVars
  <2>2. cs \in SUBSET Chunk /\ \A c \in cs : Sliced(c)
    BY ChunksFit
  <2> HIDE DEF cs
  <2>3. TypeOK'
    BY <2>1, <2>2 DEF TypeOK
  <2>4. /\ plan'[t] = cs /\ pc'[t] = "settle"
        /\ \A u \in Tick : u # t => plan'[u] = plan[u] /\ pc'[u] = pc[u]
    BY <2>1 DEF TypeOK
  <2>5. TickInv'
    BY <2>1, <2>2, <2>4 DEF TickInv, Sliced, Rank
  <2>6. QED
    BY <2>3, <2>5
<1>2. ASSUME settleChunk(t) PROVE TypeOK' /\ TickInv'
  <2>1. UNCHANGED <<escrowOf, settlementId, batchIndex, late, aged, paused>>
    BY <1>2 DEF settleChunk, receiptVars
  <2>2. PICK c \in plan[t] :
          \/ Break(t, c) /\ UNCHANGED leaves /\ (UNCHANGED hiccups \/ Hiccup)
          \/ /\ \E s \in Settlement :
                  /\ leaves' = [leaves EXCEPT ![s] = c.ids]
                  /\ paid' = [paid EXCEPT ![t] = s]
             /\ chunk' = [chunk EXCEPT ![t] = c]
             /\ pc' = [pc EXCEPT ![t] = "attach"]
             /\ UNCHANGED <<running, plan, hiccups>>
    BY <1>2 DEF settleChunk
  <2>3. CASE Break(t, c) /\ UNCHANGED leaves /\ (UNCHANGED hiccups \/ Hiccup)
    <3>1. hiccups' \in 0..MaxHiccups
      BY <2>3, SchedulerAssumption DEF TypeOK, Hiccup
    <3>2. /\ running' \in [Instance -> BOOLEAN] /\ pc' \in [Tick -> {"idle", "settle", "attach"}]
          /\ plan' \in [Tick -> SUBSET Chunk] /\ chunk' \in [Tick -> Chunk \cup {None}]
          /\ paid' \in [Tick -> Settlement \cup {None}]
          /\ TickInv'
      BY <2>3, GoOnTypes DEF Break
    <3>3. QED
      BY <2>1, <2>3, <3>1, <3>2 DEF TypeOK
  <2>4. ASSUME NEW s \in Settlement, leaves' = [leaves EXCEPT ![s] = c.ids],
               paid' = [paid EXCEPT ![t] = s], chunk' = [chunk EXCEPT ![t] = c],
               pc' = [pc EXCEPT ![t] = "attach"], UNCHANGED <<running, plan, hiccups>>
        PROVE  TypeOK' /\ TickInv'
    <3>1. c \in Chunk /\ c.ids \in SUBSET Receipt /\ Sliced(c)
      BY DEF TypeOK, TickInv, Chunk
    <3>2. TypeOK'
      BY <2>1, <2>4, <3>1 DEF TypeOK
    <3>3. /\ paid'[t] = s /\ chunk'[t] = c
          /\ \A u \in Tick : u # t => pc'[u] = pc[u] /\ chunk'[u] = chunk[u] /\ paid'[u] = paid[u]
      BY <2>4 DEF TypeOK
    <3>4. TickInv'
      BY <2>4, <3>1, <3>3 DEF TickInv, Sliced, Rank
    <3>5. QED
      BY <3>2, <3>4
  <2>5. QED
    BY <2>2, <2>3, <2>4
<1>3. ASSUME attach(t) PROVE TypeOK' /\ TickInv'
  <2>1. pc[t] = "attach" /\ UNCHANGED <<escrowOf, late, aged, leaves, paused>>
    BY <1>3 DEF attach
  <2>2. chunk[t] \in Chunk /\ Sliced(chunk[t]) /\ paid[t] \in Settlement
    BY <2>1 DEF TickInv
  <2>3. \E rest \in SUBSET plan[t] : GoOn(t, rest)
    BY <1>3 DEF attach, Break
  <2>4. /\ running' \in [Instance -> BOOLEAN] /\ pc' \in [Tick -> {"idle", "settle", "attach"}]
        /\ plan' \in [Tick -> SUBSET Chunk] /\ chunk' \in [Tick -> Chunk \cup {None}]
        /\ paid' \in [Tick -> Settlement \cup {None}]
        /\ TickInv'
    BY <2>3, GoOnTypes
  <2>5. hiccups' \in 0..MaxHiccups
    BY <1>3, SchedulerAssumption DEF TypeOK, attach, Hiccup
  <2>6. /\ settlementId' \in [Receipt -> Settlement \cup {None}]
        /\ batchIndex' \in [Receipt -> 0..MaxReceipts - 1]
    <3>1. CASE UNCHANGED <<settlementId, batchIndex>>
      BY <3>1 DEF TypeOK
    <3>2. CASE markSettled(chunk[t].ids, paid[t])
      <4>1. \A k \in chunk[t].ids : Rank(k, chunk[t].ids) \in 0..MaxReceipts - 1
        BY <2>2 DEF Sliced
      <4>2. QED
        BY <2>2, <3>2, <4>1 DEF TypeOK, markSettled
    <3>3. QED
      BY <1>3, <3>1, <3>2 DEF attach
  <2>7. QED
    BY <2>1, <2>4, <2>5, <2>6 DEF TypeOK
<1>4. QED
  BY <1>1, <1>2, <1>3

LEMMA CrashTypes ==
    ASSUME TypeOK, TickInv, NEW i \in Instance, Crash(i)
    PROVE  TypeOK' /\ TickInv'
<1> DEFINE dead == {t \in Tick : Home[t] = i}
<1>1. /\ running' = [running EXCEPT ![i] = FALSE]
      /\ pc' = [t \in Tick |-> IF t \in dead THEN "idle" ELSE pc[t]]
      /\ plan' = [t \in Tick |-> IF t \in dead THEN {} ELSE plan[t]]
      /\ chunk' = [t \in Tick |-> IF t \in dead THEN None ELSE chunk[t]]
      /\ paid' = [t \in Tick |-> IF t \in dead THEN None ELSE paid[t]]
      /\ hiccups < MaxHiccups /\ hiccups' = hiccups + 1
      /\ UNCHANGED <<escrowOf, settlementId, batchIndex, late, aged, leaves, paused>>
  BY DEF Crash, receiptVars, Hiccup
<1> HIDE DEF dead
<1>2. hiccups' \in 0..MaxHiccups
  BY <1>1, SchedulerAssumption DEF TypeOK
<1>3. TypeOK'
  BY <1>1, <1>2 DEF TypeOK
<1>4. TickInv'
  BY <1>1 DEF TickInv, Sliced, Rank
<1>5. QED
  BY <1>3, <1>4

LEMMA InitTypes == Init => TypeOK /\ TickInv
<1> SUFFICES ASSUME Init PROVE TypeOK /\ TickInv
  OBVIOUS
<1>1. 0 \in 0..MaxReceipts - 1 /\ 0 \in 0..NumReceipts /\ 0 \in 0..MaxHiccups
  BY SchedulerAssumption
<1>2. TypeOK
  BY <1>1 DEF Init, TypeOK
<1>3. TickInv
  BY DEF Init, TickInv
<1>4. QED
  BY <1>2, <1>3

LEMMA TypesStep ==
    ASSUME TypeOK, TickInv, [Next]_vars
    PROVE  TypeOK' /\ TickInv'
<1>1. ASSUME NEW e \in Escrow, create(e) PROVE TypeOK' /\ TickInv'
  <2>1. /\ escrowOf' \in [Receipt -> Escrow \cup {None}] /\ late' \subseteq Receipt
        /\ UNCHANGED <<settlementId, batchIndex, aged, leaves, running, pc, plan, chunk, paid, paused, hiccups>>
    BY <1>1 DEF create, tickVars, TypeOK
  <2>2. QED
    BY <2>1 DEF TypeOK, TickInv, Sliced, Rank
<1>2. CASE WindowElapses
  <2>1. aged' \in 0..NumReceipts
    BY <1>2, SchedulerAssumption DEF WindowElapses, Receipt, TypeOK
  <2>2. QED
    BY <1>2, <2>1 DEF WindowElapses, tickVars, TypeOK, TickInv, Sliced, Rank
<1>3. CASE SetPause
  BY <1>3 DEF SetPause, receiptVars, tickVars, TypeOK, TickInv, Sliced, Rank
<1>4. CASE UNCHANGED vars
  BY <1>4 DEF vars, receiptVars, tickVars, TypeOK, TickInv, Sliced, Rank
<1>5. QED
  BY <1>1, <1>2, <1>3, <1>4, TickTypes, CrashTypes DEF Next

\* Types of all variables, however many instances run and whatever fails; a
\* position that markSettled() stores is below settlement.batch.maxReceipts.
THEOREM SchedulerTypes == Spec => []TypeOK
<1>1. TypeOK /\ TickInv /\ [Next]_vars => TypeOK' /\ TickInv'
  BY TypesStep
<1>2. QED
  BY <1>1, InitTypes, PTL DEF Spec

----------------------------------------------------------------------------
(* The oldest receipts of an escrow first, with one scheduler              *)

LEMMA QuotientGrows ==
    ASSUME NEW n \in Nat, NEW m \in Nat, n <= m, NEW M \in Nat \ {0}
    PROVE  n \div M <= m \div M
  OBVIOUS

\* d is settled before c, or is c, and is given up together with c.
NotAfter(d, c) == d.first = c.first /\ Min(d.ids) <= Min(c.ids)

\* An older receipt of the same group is in a slice that comes no later.
LEMMA SliceOrder ==
    ASSUME NEW g \in SUBSET Nat, IsFiniteSet(g), NEW j \in g, NEW k \in g, j < k,
           Cardinality(SliceOf(k, g)) = MaxReceipts \/ Min(g) <= aged
    PROVE  /\ Cardinality(SliceOf(j, g)) = MaxReceipts \/ Min(g) <= aged
           /\ Min(SliceOf(j, g)) <= Min(SliceOf(k, g))
<1> DEFINE M == MaxReceipts
           q(x) == Rank(x, g) \div M
<1>1. M \in Nat \ {0} /\ \A x \in g : Rank(x, g) \in Nat
  BY SchedulerAssumption, RankGrows
<1>2. \A x \in g : q(x) \in Nat
  BY <1>1, Quotient
<1>3. \A x, y \in g : x < y => q(x) <= q(y)
  <2> SUFFICES ASSUME NEW x \in g, NEW y \in g, x < y PROVE q(x) <= q(y)
    OBVIOUS
  <2>1. Rank(x, g) <= Rank(y, g)
    BY <1>1, RankGrows
  <2>2. QED
    BY <1>1, <2>1, QuotientGrows
<1>4. /\ \A x \in SliceOf(j, g) : x \in g /\ q(x) = q(j)
      /\ \A x \in SliceOf(k, g) : x \in g /\ q(x) = q(k)
      /\ j \in SliceOf(j, g) /\ k \in SliceOf(k, g)
  BY DEF SliceOf, Slice
<1>5. /\ q(j) = q(k) => SliceOf(j, g) = SliceOf(k, g)
      /\ q(j) < q(k) => Cardinality(SliceOf(j, g)) = M
  <2>1. q(j) = q(k) => SliceOf(j, g) = SliceOf(k, g)
    BY DEF SliceOf
  <2>2. q(j) < q(k) => Cardinality(SliceOf(j, g)) = M
    BY SliceLength DEF SliceOf
  <2>3. QED
    BY <2>1, <2>2
<1> HIDE DEF q, M
<1>6. q(j) = q(k) \/ q(j) < q(k)
  BY <1>2, <1>3
<1> DEFINE x == Min(SliceOf(j, g))
           z == Min(SliceOf(k, g))
<1>7. x \in SliceOf(j, g) /\ z \in SliceOf(k, g)
  <2>1. SliceOf(j, g) \in SUBSET Nat /\ SliceOf(k, g) \in SUBSET Nat
    BY <1>4
  <2>2. QED
    BY <1>4, <2>1, OldestExists
<1> HIDE DEF x, z
<1>8. x \in Nat /\ z \in Nat
  BY <1>4, <1>7
<1>9. x <= z
  <2>1. CASE q(j) = q(k)
    BY <1>5, <1>8, <2>1 DEF x, z
  <2>2. CASE q(j) < q(k)
    <3>1. q(x) < q(z) /\ x \in g /\ z \in g
      BY <1>4, <1>7, <2>2
    <3>2. ~(z < x) /\ z # x
      BY <1>2, <1>3, <3>1
    <3>3. QED
      BY <1>8, <3>2
  <2>3. QED
    BY <1>6, <2>1, <2>2
<1>10. QED
  BY <1>5, <1>6, <1>9 DEF x, z, M

\* What a tick plans: an older receipt without a settlement is planned before.
LEMMA ChunksOrdered ==
    ASSUME NEW c \in Chunks(findUnsettled), NEW k \in c.ids, NEW j \in Receipt, j < k,
           escrowOf[j] = escrowOf[k], settlementId[j] = None
    PROVE  \E d \in Chunks(findUnsettled) : j \in d.ids /\ NotAfter(d, c)
<1>1. PICK i \in findUnsettled : \E y \in Group(i, findUnsettled) :
        /\ c = [first |-> Min(Group(i, findUnsettled)), ids |-> SliceOf(y, Group(i, findUnsettled))]
        /\ \/ Cardinality(SliceOf(y, Group(i, findUnsettled))) = MaxReceipts
           \/ Min(Group(i, findUnsettled)) <= aged
  BY ChunkIsSlice
<1> DEFINE g == Group(i, findUnsettled)
<1>2. PICK y \in g : /\ c = [first |-> Min(g), ids |-> SliceOf(y, g)]
                     /\ Cardinality(SliceOf(y, g)) = MaxReceipts \/ Min(g) <= aged
  BY <1>1
<1>3. g \in SUBSET Nat /\ IsFiniteSet(g) /\ g \in SUBSET findUnsettled
  BY ScanFits
<1>4. c.first = Min(g) /\ c.ids = SliceOf(y, g) /\ k \in g /\ SliceOf(k, g) = SliceOf(y, g)
  BY <1>2 DEF SliceOf, Slice
<1>5. k \in findUnsettled /\ escrowOf[k] = escrowOf[i] /\ escrowOf[k] # None
  BY <1>3, <1>4, ScanFits DEF Group
<1>6. j \in findUnsettled
  <2> DEFINE all == {x \in Receipt : escrowOf[x] # None /\ settlementId[x] = None}
  <2>1. findUnsettled = {x \in all : Rank(x, all) < ScanLimit}
    BY DEF findUnsettled
  <2>2. IsFiniteSet(all) /\ all \in SUBSET Nat /\ j \in all
    <3>1. IsFiniteSet(Receipt) /\ Receipt \in SUBSET Nat
      BY SchedulerAssumption, FS_Interval DEF Receipt
    <3>2. all \in SUBSET Receipt /\ j \in all
      BY <1>5
    <3> HIDE DEF all
    <3>3. QED
      BY <3>1, <3>2, FS_Subset
  <2> HIDE DEF all
  <2>3. k \in all /\ Rank(k, all) < ScanLimit /\ ScanLimit \in Nat
    BY <1>5, <2>1, SchedulerAssumption
  <2>4. Rank(j, all) < Rank(k, all) /\ Rank(j, all) \in Nat /\ Rank(k, all) \in Nat
    BY <2>2, <2>3, RankGrows
  <2>5. QED
    BY <2>1, <2>2, <2>3, <2>4
<1>7. j \in g
  BY <1>5, <1>6 DEF Group
<1> HIDE DEF g
<1> DEFINE d == [first |-> Min(g), ids |-> SliceOf(j, g)]
<1>8. /\ Cardinality(SliceOf(j, g)) = MaxReceipts \/ Min(g) <= aged
      /\ Min(SliceOf(j, g)) <= Min(SliceOf(k, g))
  BY <1>2, <1>3, <1>4, <1>7, SliceOrder
<1>9. d \in Chunks(findUnsettled)
  BY <1>7, <1>8, ChunkIsSlice DEF g
<1>10. j \in d.ids /\ d.first = c.first /\ Min(d.ids) <= Min(c.ids)
  <2>1. j \in SliceOf(j, g)
    BY <1>7 DEF SliceOf, Slice
  <2>2. QED
    BY <1>4, <1>8, <2>1
<1>11. QED
  BY <1>9, <1>10 DEF NotAfter

\* The receipts that are still to be settled before k are settled or planned.
OrderInv ==
    /\ \A k \in Receipt : settlementId[k] # None => escrowOf[k] # None
    /\ \A t \in Tick : \A c \in plan[t] : \A k \in c.ids :
        /\ escrowOf[k] # None
        /\ \A j \in Receipt \ late : j < k /\ escrowOf[j] = escrowOf[k] /\ settlementId[j] = None =>
              \E d \in plan[t] : j \in d.ids /\ NotAfter(d, c)
    /\ \A t \in Tick : pc[t] = "attach" => IsNext(chunk[t], plan[t])
    /\ OldestFirst

\* The chunk that comes first has no other that does not come after it.
LEMMA NextIsFirst ==
    ASSUME TypeOK, TickInv, NEW t \in Tick, NEW c \in plan[t], IsNext(c, plan[t]),
           NEW d \in plan[t], NotAfter(d, c)
    PROVE  d = c
<1>1. c \in Chunk /\ d \in Chunk /\ c.ids # {} /\ d.ids # {}
  BY DEF TypeOK, TickInv, Sliced
<1>2. Receipt \in SUBSET Nat
  BY SchedulerAssumption DEF Receipt
<1>3. c.first \in Nat /\ d.first \in Nat /\ c.ids \in SUBSET Nat /\ d.ids \in SUBSET Nat
  BY <1>1, <1>2 DEF Chunk
<1>4. Min(c.ids) \in Nat /\ Min(d.ids) \in Nat
  BY <1>1, <1>3, OldestExists
<1>5. d # c => c.first < d.first \/ (c.first = d.first /\ Min(c.ids) < Min(d.ids))
  BY DEF IsNext
<1>6. QED
  BY <1>3, <1>4, <1>5 DEF NotAfter

\* The loop goes on with chunks that keep their predecessors in the plan.
LEMMA GoOnOrder ==
    ASSUME TypeOK, OrderInv, NEW t \in Tick, NEW rest \in SUBSET plan[t], GoOn(t, rest),
           UNCHANGED <<escrowOf, late>>,
           \A k \in Receipt : settlementId[k] # None => settlementId'[k] # None,
           \A k \in Receipt : settlementId'[k] # None => escrowOf[k] # None,
           \A c \in rest : \A d \in plan[t] : \A j \in d.ids :
                NotAfter(d, c) => d \in rest \/ settlementId'[j] # None,
           OldestFirst'
    PROVE  OrderInv'
<1>1. /\ plan' = [plan EXCEPT ![t] = rest] /\ chunk' = [chunk EXCEPT ![t] = None]
      /\ pc' = [pc EXCEPT ![t] = IF rest = {} THEN "idle" ELSE "settle"]
  BY DEF GoOn
<1>2. /\ plan'[t] = rest /\ pc'[t] # "attach"
      /\ \A u \in Tick : u # t => plan'[u] = plan[u] /\ pc'[u] = pc[u] /\ chunk'[u] = chunk[u]
  BY <1>1 DEF TypeOK
<1>3. ASSUME NEW u \in Tick, NEW c \in plan'[u], NEW k \in c.ids
      PROVE  /\ escrowOf[k] # None
             /\ \A j \in Receipt \ late : j < k /\ escrowOf[j] = escrowOf[k] /\ settlementId'[j] = None =>
                   \E d \in plan'[u] : j \in d.ids /\ NotAfter(d, c)
  <2>1. c \in plan[u]
    BY <1>2
  <2>2. escrowOf[k] # None
    BY <2>1 DEF OrderInv
  <2>3. ASSUME NEW j \in Receipt \ late, j < k, escrowOf[j] = escrowOf[k], settlementId'[j] = None
        PROVE  \E d \in plan'[u] : j \in d.ids /\ NotAfter(d, c)
    <3>1. settlementId[j] = None
      BY <2>3
    <3>2. PICK d \in plan[u] : j \in d.ids /\ NotAfter(d, c)
      BY <2>1, <2>3, <3>1 DEF OrderInv
    <3>3. CASE u = t
      BY <1>2, <2>3, <3>2, <3>3
    <3>4. CASE u # t
      BY <1>2, <3>2, <3>4
    <3>5. QED
      BY <3>3, <3>4
  <2>4. QED
    BY <2>2, <2>3
<1>4. \A u \in Tick : pc'[u] = "attach" => IsNext(chunk'[u], plan'[u])
  BY <1>2 DEF OrderInv
<1>5. QED
  BY <1>3, <1>4 DEF OrderInv

LEMMA BreakOrder ==
    ASSUME TypeOK, OrderInv, NEW t \in Tick, NEW c, Break(t, c),
           UNCHANGED <<escrowOf, settlementId, late>>
    PROVE  OrderInv'
<1> DEFINE rest == {d \in plan[t] : d.first # c.first}
<1>1. rest \in SUBSET plan[t] /\ GoOn(t, rest)
  BY DEF Break
<1>2. \A x \in rest : \A d \in plan[t] : NotAfter(d, x) => d \in rest
  BY DEF NotAfter
<1>3. OldestFirst'
  BY DEF OrderInv, OldestFirst
<1>4. \A k \in Receipt : settlementId[k] # None => escrowOf[k] # None
  BY DEF OrderInv
<1> HIDE DEF rest
<1>5. QED
  BY <1>1, <1>2, <1>3, <1>4, GoOnOrder

\* A receipt is attached when all older ones of its escrow are.
LEMMA AttachOrder ==
    ASSUME Sole, TypeOK, TickInv, SchedInv, OrderInv, NEW t \in Tick, attach(t)
    PROVE  OrderInv'
<1> DEFINE c == chunk[t]
           rest == plan[t] \ {c}
<1>1. /\ pc[t] = "attach" /\ GoOn(t, rest) /\ UNCHANGED <<escrowOf, late>>
      /\ settlementId' = [k \in Receipt |-> IF k \in c.ids THEN paid[t] ELSE settlementId[k]]
  BY DEF attach, markSettled, Sole
<1>2. paid[t] # None /\ c \in plan[t] /\ IsNext(c, plan[t])
  BY <1>1, SchedulerAssumption DEF TickInv, SchedInv, AttachInv, OrderInv
<1>3. \A k \in Receipt : /\ settlementId[k] # None => settlementId'[k] # None
                         /\ k \in c.ids => settlementId'[k] # None
                         /\ settlementId'[k] # None => k \in c.ids \/ settlementId[k] # None
  BY <1>1, <1>2
<1>4. \A k \in c.ids : k \in Receipt /\ escrowOf[k] # None
  BY <1>2 DEF OrderInv, TypeOK, Chunk
<1>5. \A k \in Receipt : settlementId'[k] # None => escrowOf[k] # None
  BY <1>3, <1>4 DEF OrderInv
<1> HIDE DEF c
<1>6. ASSUME NEW j \in Receipt, NEW k \in Receipt, j < k, escrowOf[j] = escrowOf[k],
             settlementId'[k] # None, j \notin late
      PROVE  settlementId'[j] # None
  <2>1. CASE settlementId[k] # None
    BY <1>3, <1>6, <2>1 DEF OrderInv, OldestFirst
  <2>2. CASE k \in c.ids /\ settlementId[j] = None
    <3>1. PICK d \in plan[t] : j \in d.ids /\ NotAfter(d, c)
      BY <1>2, <1>6, <2>2 DEF OrderInv
    <3>2. d = c
      BY <1>2, <3>1, NextIsFirst
    <3>3. QED
      BY <1>3, <3>1, <3>2
  <2>3. QED
    BY <1>3, <1>6, <2>1, <2>2
<1>7. OldestFirst'
  BY <1>1, <1>6 DEF OldestFirst
<1>8. \A x \in rest : \A d \in plan[t] : \A j \in d.ids : d \in rest \/ settlementId'[j] # None
  BY <1>3, <1>4
<1>9. rest \in SUBSET plan[t]
  OBVIOUS
<1> HIDE DEF rest
<1>10. QED
  BY <1>1, <1>3, <1>5, <1>7, <1>8, <1>9, GoOnOrder

LEMMA OrderStep ==
    ASSUME Sole, TypeOK, TickInv, SchedInv, OrderInv, [Next]_vars
    PROVE  OrderInv'
<1>1. ASSUME NEW t \in Tick, runOnce(t) PROVE OrderInv'
  <2> DEFINE cs == Chunks(findUnsettled)
  <2>1. /\ pc' = [pc EXCEPT ![t] = "settle"] /\ plan' = [plan EXCEPT ![t] = cs]
        /\ UNCHANGED <<escrowOf, settlementId, late, chunk>>
    BY <1>1 DEF runOnce, receiptVars
  <2>2. /\ plan'[t] = cs /\ pc'[t] # "attach"
        /\ \A u \in Tick : u # t => plan'[u] = plan[u] /\ pc'[u] = pc[u]
    BY <2>1 DEF TypeOK
  <2>3. \A c \in cs : \A k \in c.ids :
          /\ escrowOf[k] # None
          /\ \A j \in Receipt : j < k /\ escrowOf[j] = escrowOf[k] /\ settlementId[j] = None =>
                \E d \in cs : j \in d.ids /\ NotAfter(d, c)
    BY ChunksFit, ScanFits, ChunksOrdered
  <2> HIDE DEF cs
  <2>4. QED
    BY <2>1, <2>2, <2>3 DEF OrderInv, OldestFirst
<1>2. ASSUME NEW t \in Tick, settleChunk(t) PROVE OrderInv'
  <2>1. PICK c \in plan[t] : /\ IsNext(c, plan[t])
                             /\ \/ Break(t, c)
                                \/ /\ chunk' = [chunk EXCEPT ![t] = c]
                                   /\ pc' = [pc EXCEPT ![t] = "attach"] /\ UNCHANGED plan
    BY <1>2 DEF settleChunk
  <2>2. UNCHANGED <<escrowOf, settlementId, late>>
    BY <1>2 DEF settleChunk, receiptVars
  <2>3. CASE Break(t, c)
    BY <2>2, <2>3, BreakOrder
  <2>4. CASE chunk' = [chunk EXCEPT ![t] = c] /\ pc' = [pc EXCEPT ![t] = "attach"] /\ UNCHANGED plan
    <3>1. chunk'[t] = c /\ \A u \in Tick : u # t => chunk'[u] = chunk[u] /\ pc'[u] = pc[u]
      BY <2>4 DEF TypeOK
    <3>2. \A u \in Tick : pc'[u] = "attach" => IsNext(chunk'[u], plan'[u])
      BY <2>1, <2>4, <3>1 DEF OrderInv
    <3>3. QED
      BY <2>2, <2>4, <3>2 DEF OrderInv, OldestFirst
  <2>5. QED
    BY <2>1, <2>3, <2>4
<1>3. ASSUME NEW e \in Escrow, create(e) PROVE OrderInv'
  <2>1. PICK n \in Receipt : /\ escrowOf[n] = None
                             /\ escrowOf' = [escrowOf EXCEPT ![n] = e]
                             /\ late' = IF Overtaken(n, e) THEN late \cup {n} ELSE late
    BY <1>3 DEF create
  <2>2. UNCHANGED <<settlementId, pc, plan, chunk>>
    BY <1>3 DEF create, tickVars
  <2>3. /\ escrowOf'[n] = e /\ \A j \in Receipt : j # n => escrowOf'[j] = escrowOf[j]
        /\ \A j \in Receipt \ late' : j \notin late
    BY <2>1 DEF TypeOK
  <2>4. \A t \in Tick : \A c \in plan[t] : \A k \in c.ids : k \in Receipt /\ escrowOf[k] # None
    BY DEF OrderInv, TypeOK, Chunk
  <2>5. n \notin late' => ~Overtaken(n, e)
    BY <2>1
  <2>6. OldestFirst'
    <3> SUFFICES ASSUME NEW j \in Receipt, NEW k \in Receipt, j < k,
                        escrowOf'[j] = escrowOf'[k], settlementId'[k] # None, j \notin late'
                 PROVE  settlementId'[j] # None
      BY DEF OldestFirst
    <3>1. escrowOf[k] # None /\ k # n /\ escrowOf'[k] = escrowOf[k] /\ settlementId[k] # None
      BY <2>1, <2>2, <2>3 DEF OrderInv
    <3>2. j # n
      BY <2>2, <2>3, <2>5, <3>1 DEF Overtaken
    <3>3. QED
      BY <2>2, <2>3, <3>1, <3>2 DEF OrderInv, OldestFirst
  <2>7. ASSUME NEW t \in Tick, NEW c \in plan[t], NEW k \in c.ids, NEW j \in Receipt \ late',
               j < k, escrowOf'[j] = escrowOf'[k], settlementId[j] = None
        PROVE  \E d \in plan[t] : j \in d.ids /\ NotAfter(d, c)
    <3>1. k \in Receipt /\ k # n /\ escrowOf'[k] = escrowOf[k]
      BY <2>1, <2>3, <2>4
    <3>2. j # n
      BY <2>3, <2>5, <2>7, <3>1 DEF Overtaken
    <3>3. QED
      BY <2>3, <2>7, <3>1, <3>2 DEF OrderInv
  <2>8. \A k \in Receipt : settlementId[k] # None => escrowOf'[k] # None
    BY <2>1, <2>3, SchedulerAssumption DEF OrderInv
  <2>9. \A t \in Tick : \A c \in plan[t] : \A k \in c.ids : escrowOf'[k] # None
    BY <2>1, <2>3, <2>4
  <2>10. \A t \in Tick : pc'[t] = "attach" => IsNext(chunk'[t], plan'[t])
    BY <2>2 DEF OrderInv
  <2>11. QED
    BY <2>2, <2>6, <2>7, <2>8, <2>9, <2>10 DEF OrderInv
<1>4. ASSUME NEW i \in Instance, Crash(i) PROVE OrderInv'
  <2>1. \A t \in Tick : t \in {u \in Tick : Home[u] = i}
    BY SchedulerAssumption DEF Sole
  <2>2. /\ pc' = [t \in Tick |-> "idle"] /\ plan' = [t \in Tick |-> {}]
        /\ UNCHANGED <<escrowOf, settlementId, late>>
    BY <1>4, <2>1 DEF Crash, receiptVars
  <2>3. QED
    BY <2>2 DEF OrderInv, OldestFirst
<1>5. CASE WindowElapses \/ SetPause \/ UNCHANGED vars
  <2>1. UNCHANGED <<escrowOf, settlementId, late, pc, plan, chunk>>
    BY <1>5 DEF WindowElapses, SetPause, vars, receiptVars, tickVars
  <2>2. QED
    BY <2>1 DEF OrderInv, OldestFirst
<1>6. QED
  BY <1>1, <1>2, <1>3, <1>4, <1>5, AttachOrder DEF Next

\* The oldest receipts of an escrow are settled first: the chunks of a tick
\* are slices in the order of age, every slice before the last is full, and a
\* chunk that fails takes the later chunks of its escrow out of the tick.  Only
\* a receipt that became visible after one behind it was planned is excepted.
THEOREM SchedulerOldestFirst ==
    ASSUME Sole
    PROVE  Spec => []OldestFirst
<1> DEFINE Inv == TypeOK /\ TickInv /\ SchedInv /\ OrderInv
<1>1. Init => Inv
  <2> SUFFICES ASSUME Init PROVE Inv
    OBVIOUS
  <2>1. OrderInv
    BY DEF Init, OrderInv, OldestFirst
  <2>2. QED
    BY <2>1, InitTypes, InitSchedInv
<1>2. Inv /\ [Next]_vars => Inv'
  BY TypesStep, NextKeepsSchedInv, OrderStep
<1>3. Inv => OldestFirst
  BY DEF OrderInv
<1>4. QED
  BY <1>1, <1>2, <1>3, PTL DEF Spec

=============================================================================
