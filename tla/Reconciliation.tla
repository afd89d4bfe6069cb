--------------------------- MODULE Reconciliation ---------------------------
(***************************************************************************)
(* Reconciliation of the rail's escrow rows with the hub                   *)
(* (reconciliation.service.ts) while both keep moving.  A run reads the    *)
(* open sessions, the settled sums, every escrow on chain and the balance  *)
(* of the hub one after the other, and the rail books a settlement after   *)
(* the chain paid it and a release before, so a run may compare different  *)
(* moments.                                                                *)
(***************************************************************************)
EXTENDS Integers, Sequences, FiniteSets, FiniteSetsExt, SequencesExt

CONSTANTS
    MaxSession,  \* sessions are 1..MaxSession, in the order of createdAt
    Deposits,    \* deposits a session may be opened with
    ReconBatchSize,  \* RECONCILIATION_BATCH_SIZE
    MaxMoves,    \* bound on what happens on the rail and the chain
    MaxFailures  \* bound on failing reads and saves

ASSUME ReconciliationAssumption ==
    /\ MaxSession \in Nat /\ Deposits \subseteq Nat \ {0}
    /\ ReconBatchSize \in Nat \ {0} /\ MaxMoves \in Nat /\ MaxFailures \in Nat

VARIABLES
    session,   \* escrow_sessions, with the SETTLED sum and the number of releases
    escrow,    \* the escrows of the hub, and what of their spending was settlements
    running,   \* the flag of run()
    recon,     \* what the run at work has read
    gauge,     \* what the mismatch gauge says
    moves,     \* how much happened on the rail and the chain
    failures   \* how many bounded failures happened

reconVars == <<session, escrow, running, recon, gauge, moves, failures>>

Session == 1..MaxSession

Idle == [at |-> "idle", rows |-> <<>>, all |-> FALSE, locked |-> 0, found |-> FALSE]

NoSession == [open |-> FALSE, deposit |-> 0, settled |-> 0, released |-> 0, releases |-> 0]
NoEscrow == [created |-> FALSE, active |-> FALSE, deposit |-> 0, spent |-> 0, batches |-> 0]

ReconInit ==
    /\ session = [s \in Session |-> NoSession]
    /\ escrow = [s \in Session |-> NoEscrow]
    /\ running = FALSE /\ recon = Idle
    /\ gauge = "none" /\ moves = 0 /\ failures = 0

----------------------------------------------------------------------------
(* The rail and the chain move                                             *)

Moves ==
    /\ moves < MaxMoves /\ moves' = moves + 1
    /\ UNCHANGED <<running, recon, gauge, failures>>

createEscrow(s, d) ==
    /\ escrow[s] = NoEscrow
    /\ escrow' = [escrow EXCEPT ![s] =
         [NoEscrow EXCEPT !.created = TRUE, !.active = TRUE, !.deposit = d]]
    /\ UNCHANGED session /\ Moves

open(s, d) ==
    /\ session[s] = NoSession
    /\ session' = [session EXCEPT ![s] = [NoSession EXCEPT !.open = TRUE, !.deposit = d]]
    /\ UNCHANGED escrow /\ Moves

CanSpend(s) == escrow[s].active /\ escrow[s].spent < escrow[s].deposit

\* The batch of a settlement is mined, and later its row is SETTLED.
settleBatch(s) ==
    /\ CanSpend(s)
    /\ escrow' = [escrow EXCEPT ![s] = [@ EXCEPT !.spent = @ + 1, !.batches = @ + 1]]
    /\ UNCHANGED session /\ Moves

bookSettled(s) ==
    /\ session[s].open /\ session[s].settled < escrow[s].batches
    /\ session' = [session EXCEPT ![s] = [@ EXCEPT !.settled = @ + 1]]
    /\ UNCHANGED escrow /\ Moves

\* release() reserves the amount first; its payout is mined or not, and when
\* the wait for it fails the amount is given back, mined or not.
reserve(s) ==
    /\ session[s].open /\ session[s].released < session[s].deposit
    /\ session' = [session EXCEPT ![s] = [@ EXCEPT !.released = @ + 1, !.releases = @ + 1]]
    /\ UNCHANGED escrow /\ Moves

payOut(s) ==
    /\ CanSpend(s) /\ escrow[s].spent - escrow[s].batches < session[s].releases
    /\ escrow' = [escrow EXCEPT ![s] = [@ EXCEPT !.spent = @ + 1]]
    /\ UNCHANGED session /\ Moves

giveBack(s) ==
    /\ session[s].open /\ session[s].released > 0
    /\ session' = [session EXCEPT ![s] = [@ EXCEPT !.released = @ - 1]]
    /\ UNCHANGED escrow /\ Moves

refundOnChain(s) ==
    /\ escrow[s].active
    /\ escrow' = [escrow EXCEPT ![s] = [@ EXCEPT !.active = FALSE]]
    /\ UNCHANGED session /\ Moves

close(s) ==
    /\ session[s].open
    /\ session' = [session EXCEPT ![s] = [@ EXCEPT !.open = FALSE]]
    /\ UNCHANGED escrow /\ Moves

----------------------------------------------------------------------------
(* A run                                                                   *)

Rests == UNCHANGED <<session, escrow, moves>>

Open == {s \in Session : session[s].open}

\* sessions.findAndCount(): the oldest open ones.
Oldest ==
    LET sorted == SetToSortSeq(Open, <)
    IN  SubSeq(sorted, 1, IF Len(sorted) < ReconBatchSize THEN Len(sorted) ELSE ReconBatchSize)

\* run(), by the timer or by an operator; while one is at work, another is
\* saved as skipped and reads nothing.
run ==
    /\ ~running
    /\ running' = TRUE /\ recon' = [Idle EXCEPT !.at = "sessions"]
    /\ UNCHANGED <<gauge, failures>> /\ Rests

readSessions ==
    /\ recon.at = "sessions"
    /\ recon' = [recon EXCEPT
         !.at = "settled",
         !.rows = [k \in 1..Len(Oldest) |->
                     [id |-> Oldest[k], deposit |-> session[Oldest[k]].deposit,
                      spent |-> session[Oldest[k]].released]],
         !.all = Cardinality(Open) <= Len(Oldest)]
    /\ UNCHANGED <<running, gauge, failures>> /\ Rests

settledByEscrow ==
    /\ recon.at = "settled"
    /\ recon' = [recon EXCEPT
         !.at = "chain",
         !.rows = [k \in DOMAIN @ |->
                     [@[k] EXCEPT !.spent = @ + session[recon.rows[k].id].settled]]]
    /\ UNCHANGED <<running, gauge, failures>> /\ Rests

\* The loop of compare(): one escrow is read and compared.
Disagrees(row, e) ==
    \/ ~e.created
    \/ ~e.active \/ e.deposit # row.deposit \/ e.spent # row.spent

compareNext ==
    /\ recon.at = "chain" /\ recon.rows # <<>>
    /\ LET row == Head(recon.rows) IN
       recon' = [recon EXCEPT
         !.rows = Tail(@),
         !.locked = @ + IF row.deposit > row.spent THEN row.deposit - row.spent ELSE 0,
         !.found = @ \/ Disagrees(row, escrow[row.id])]
    /\ UNCHANGED <<running, gauge, failures>> /\ Rests

Balance ==
    MapThenSumSet(LAMBDA s : escrow[s].deposit - escrow[s].spent,
                  {s \in Session : escrow[s].active})

\* getBalance() and finish(): the balance only counts when every open session
\* was read.
finish ==
    /\ recon.at = "chain" /\ recon.rows = <<>>
    /\ gauge' = IF recon.found \/ (recon.all /\ Balance < recon.locked)
                THEN "mismatch" ELSE "ok"
    /\ running' = FALSE /\ recon' = Idle
    /\ UNCHANGED failures /\ Rests

\* Mutant: the flag stays set after a failure.
FailKeepsFlag ==
    /\ running
    /\ failures < MaxFailures /\ failures' = failures + 1
    /\ recon' = Idle
    /\ UNCHANGED <<running, gauge>> /\ Rests

\* A read or a save fails: the run ends as failed and leaves the gauge.
fail ==
    /\ running
    /\ failures < MaxFailures /\ failures' = failures + 1
    /\ running' = FALSE /\ recon' = Idle
    /\ UNCHANGED gauge /\ Rests

----------------------------------------------------------------------------

RunGoesOn == readSessions \/ settledByEscrow \/ compareNext \/ finish

ReconNext ==
    \/ \E s \in Session, d \in Deposits : createEscrow(s, d) \/ open(s, d)
    \/ \E s \in Session :
         \/ settleBatch(s) \/ bookSettled(s) \/ reserve(s) \/ payOut(s) \/ giveBack(s)
         \/ refundOnChain(s) \/ close(s)
    \/ run \/ RunGoesOn \/ fail

\* The timer ticks, and reads end.
ReconFairness == WF_reconVars(run) /\ WF_reconVars(RunGoesOn)

ReconSpec == ReconInit /\ [][ReconNext]_reconVars /\ ReconFairness

----------------------------------------------------------------------------
\* What the rail believes of an open session is what the hub holds.
Agree(s) ==
    /\ escrow[s].active /\ escrow[s].deposit = session[s].deposit
    /\ escrow[s].spent = session[s].settled + session[s].released

Drift == \E k \in 1..Len(Oldest) : ~Agree(Oldest[k])

\* Reconciliation tells the truth in the end: a difference between rail and
\* chain that stays, among the sessions a run covers, is on the gauge for good,
\* whatever runs failed, were skipped or saw half of a payment; and once they
\* agree for good the gauge shows no false alarm for good.
TruthTold ==
    /\ <>[]Drift => <>[](gauge = "mismatch")
    /\ <>[]~Drift => <>[](gauge # "mismatch")
============================================================================
