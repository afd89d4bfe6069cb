---------------------------- MODULE PauseService ----------------------------
(***************************************************************************)
(* The emergency pause (pause.service.ts): a row per scope in system_flags,*)
(* a copy of the rows in the memory of every node, and a consumer of the   *)
(* copy, the settlement retry loop (settlement-retry.service.ts).          *)
(*                                                                         *)
(* A refresh reads the rows and applies them later, so an answer may be    *)
(* older than the copy it replaces, and refreshes of one node may overlap. *)
(* pause() and resume() save a row, then set the copy, scope by scope.     *)
(***************************************************************************)
EXTENDS Integers, Sequences, FiniteSets

CONSTANTS
    Node,       \* instances of the rail
    Forced,     \* EMERGENCY_PAUSE: the scopes paused from the environment
    Asked,      \* the scope lists pause() and resume() are called with
    Retrying,   \* the nodes with settlement.retry.enabled
    PayBatch,   \* batch size of a node's retry loop
    MaxCalls,   \* bound on calls of pause() and resume()
    MaxReads,   \* bound on a node's overlapping refreshes
    MaxBlips    \* bound on restarts and failing database calls

PAUSE_SCOPES == {"settlement", "streaming"}

ASSUME PauseAssumption ==
    /\ Forced \subseteq PAUSE_SCOPES /\ PayBatch \in Nat
    /\ Asked \subseteq Seq(PAUSE_SCOPES) \ {<<>>}
    /\ MaxCalls \in Nat /\ MaxReads \in Nat /\ MaxBlips \in Nat

VARIABLES
    flag,      \* system_flags: the scopes whose row says paused
    copy,      \* the scopes paused in the memory of each node
    up,        \* nodes that finished onModuleInit()
    answers,   \* the rows refreshes have read and not applied yet
    call,      \* pause() or resume() at work on each node
    batch,     \* payouts the retry loop of each node has still to start
    drained,   \* payouts each node started since it is paused
    calls,     \* how many calls of pause() and resume() there were
    blips      \* how many bounded faults happened

pauseVars == <<flag, copy, up, answers, call, batch, drained, calls, blips>>

NoCall == [todo |-> <<>>, paused |-> FALSE, saved |-> FALSE]

PauseInit ==
    /\ flag = {} /\ up = {} /\ calls = 0 /\ blips = 0
    /\ copy = [n \in Node |-> {}]
    /\ answers = [n \in Node |-> {}]
    /\ call = [n \in Node |-> NoCall]
    /\ batch = [n \in Node |-> 0]
    /\ drained = [n \in Node |-> 0]

isPaused(n, s) == s \in Forced \cup copy[n]

Copies(n, scopes) ==
    /\ copy' = [copy EXCEPT ![n] = scopes]
    /\ drained' = [drained EXCEPT ![n] =
         IF "settlement" \in Forced \cup scopes THEN @ ELSE 0]

----------------------------------------------------------------------------
(* The switch                                                              *)

\* pause() and resume() begin; a forced scope cannot be resumed.
begins(n, scopes, paused) ==
    /\ n \in up /\ call[n] = NoCall
    /\ calls < MaxCalls /\ calls' = calls + 1
    /\ paused \/ \A k \in 1..Len(scopes) : scopes[k] \notin Forced
    /\ call' = [call EXCEPT ![n] = [todo |-> scopes, paused |-> paused, saved |-> FALSE]]
    /\ UNCHANGED <<flag, copy, up, answers, batch, drained, blips>>

\* The loop of pause() and resume(): the row of the next scope is saved.
saveFlag(n) ==
    /\ call[n] # NoCall /\ ~call[n].saved
    /\ LET s == Head(call[n].todo) IN
       flag' = IF call[n].paused THEN flag \cup {s} ELSE flag \ {s}
    /\ call' = [call EXCEPT ![n] = [@ EXCEPT !.saved = TRUE]]
    /\ UNCHANGED <<copy, up, answers, batch, drained, calls, blips>>

\* The loop of pause() and resume(): the copy follows.
setState(n) ==
    /\ call[n].saved
    /\ LET c == call[n]
           s == Head(c.todo)
       IN  /\ Copies(n, IF c.paused THEN copy[n] \cup {s} ELSE copy[n] \ {s})
           /\ call' = [call EXCEPT ![n] =
                IF Len(c.todo) = 1 THEN NoCall
                ELSE [c EXCEPT !.todo = Tail(c.todo), !.saved = FALSE]]
    /\ UNCHANGED <<flag, up, answers, batch, calls, blips>>

\* Mutant: only onModuleInit() reads the rows.
RefreshAtStart(n) ==
    /\ n \notin up /\ answers[n] = {}
    /\ answers' = [answers EXCEPT ![n] = @ \cup {flag}]
    /\ UNCHANGED <<flag, copy, up, call, batch, drained, calls, blips>>

\* refresh(): the read, by the timer or by onModuleInit(), and its use.
refresh(n) ==
    /\ Cardinality(answers[n]) < IF n \in up THEN MaxReads ELSE 1
    /\ answers' = [answers EXCEPT ![n] = @ \cup {flag}]
    /\ UNCHANGED <<flag, copy, up, call, batch, drained, calls, blips>>

apply(n, rows) ==
    /\ Copies(n, rows)
    /\ answers' = [answers EXCEPT ![n] = @ \ {rows}]
    /\ up' = up \cup {n}
    /\ UNCHANGED <<flag, call, batch, calls, blips>>

\* refresh(): on a database error the last known copy is kept, also at start.
refreshFails(n, rows) ==
    /\ blips < MaxBlips /\ blips' = blips + 1
    /\ answers' = [answers EXCEPT ![n] = @ \ {rows}]
    /\ up' = up \cup {n}
    /\ UNCHANGED <<flag, copy, call, batch, drained, calls>>

\* A save fails: pause() or resume() throws, the scopes before it stay set.
saveFails(n) ==
    /\ call[n] # NoCall /\ ~call[n].saved
    /\ blips < MaxBlips /\ blips' = blips + 1
    /\ call' = [call EXCEPT ![n] = NoCall]
    /\ UNCHANGED <<flag, copy, up, answers, batch, drained, calls>>

restart(n) ==
    /\ n \in up
    /\ blips < MaxBlips /\ blips' = blips + 1
    /\ up' = up \ {n}
    /\ Copies(n, {})
    /\ answers' = [answers EXCEPT ![n] = {}]
    /\ call' = [call EXCEPT ![n] = NoCall]
    /\ batch' = [batch EXCEPT ![n] = 0]
    /\ UNCHANGED <<flag, calls>>

----------------------------------------------------------------------------
(* The retry loop                                                          *)

\* Mutant: the retry loop looks for work while it is still at work on a batch.
TakeBatchAnytime(n) ==
    /\ n \in up \cap Retrying /\ ~isPaused(n, "settlement")
    /\ \E k \in 1..PayBatch : batch' = [batch EXCEPT ![n] = @ + k]
    /\ UNCHANGED <<flag, copy, up, answers, call, drained, calls, blips>>

\* processDue(): the pause is looked at once, before the batch is read.
takeBatch(n) ==
    /\ n \in up \cap Retrying /\ batch[n] = 0 /\ ~isPaused(n, "settlement")
    /\ \E k \in 1..PayBatch : batch' = [batch EXCEPT ![n] = k]
    /\ UNCHANGED <<flag, copy, up, answers, call, drained, calls, blips>>

payout(n) ==
    /\ batch[n] > 0
    /\ batch' = [batch EXCEPT ![n] = @ - 1]
    /\ drained' = [drained EXCEPT ![n] =
         IF isPaused(n, "settlement") THEN @ + 1 ELSE @]
    /\ UNCHANGED <<flag, copy, up, answers, call, calls, blips>>

----------------------------------------------------------------------------

Applies(n) == \E rows \in answers[n] : apply(n, rows)

PauseNext ==
    \E n \in Node :
      \/ \E scopes \in Asked, paused \in BOOLEAN : begins(n, scopes, paused)
      \/ saveFlag(n) \/ setState(n) \/ refresh(n) \/ Applies(n)
      \/ \E rows \in answers[n] : refreshFails(n, rows)
      \/ saveFails(n) \/ restart(n) \/ takeBatch(n) \/ payout(n)

\* setInterval ticks and the database answers.
PauseFairness == \A n \in Node : WF_pauseVars(refresh(n)) /\ WF_pauseVars(Applies(n))

PauseSpec == PauseInit /\ [][PauseNext]_pauseVars /\ PauseFairness

----------------------------------------------------------------------------
\* A pause that stays in the table reaches every node for good, although late
\* answers, restarts and failed reads may lift it on a node in between.
PauseReaches ==
    \A n \in Node, s \in PAUSE_SCOPES : <>[](s \in flag) => <>[]isPaused(n, s)

\* A node that is paused starts no more payouts than the rest of the batch its
\* retry loop had read before: processDue() does not look at the pause again.
PauseDrains == \A n \in Node : drained[n] + batch[n] <= PayBatch

\* "While paused the queue is left exactly as it is" (settlement-retry.service.ts):
\* a node that is paused starts no payout.  A batch that was read before is
\* started all the same.
PausedPaysNothing == \A n \in Node : drained[n] = 0
============================================================================
