------------------------------ MODULE Requests ------------------------------
(***************************************************************************)
(* API requests under the Idempotency-Key interceptor                      *)
(* (idempotency.interceptor.ts) that open escrows within the spending      *)
(* limit.  The interceptor is cut at its awaits, the handler is the module *)
(* SpendingLimit.                                                          *)
(*                                                                         *)
(* One route, so a key is a row of its own; the unique index allows one    *)
(* row per key, and a request inserts at most one, so the request is the   *)
(* row's id.  The amount stands for the body and its hash.  A request may  *)
(* be cut off at any await.                                                *)
(***************************************************************************)
EXTENDS Integers, FiniteSets

CONSTANTS
    Request, DefaultLimit, WindowHours, Limits, None,
    Key,      \* Idempotency-Key values; None is a request without the header
    Amounts,  \* the amounts requests carry
    Ttl,      \* IDEMPOTENCY_TTL_SECONDS
    MaxTime,  \* bound on the clock
    MaxAtOnce,    \* bound on the requests at work at the same time
    MaxCancelled  \* bound on the sessions that are cancelled

\* idempotency_records: a row of its key.
KeyRecord ==
    [id: Request, hash: Nat, status: {"in_progress", "completed"}, expiresAt: Nat]

\* escrow_sessions, as far as the spending limit reads them.
SessionRow ==
    [deposit: Nat, createdAt: Nat, limit: Nat \cup {None},
     status: {"open", "cancelled", "revived"}]

ASSUME RequestsAssumption ==
    /\ IsFiniteSet(Request) /\ None \notin Request
    /\ None \notin KeyRecord /\ None \notin SessionRow
    /\ DefaultLimit \in Nat /\ WindowHours \in Nat \ {0} /\ Limits \subseteq Nat
    /\ Ttl \in Nat \ {0} /\ MaxTime \in Nat /\ MaxAtOnce \in Nat /\ MaxCancelled \in Nat
    /\ Amounts \subseteq Nat \ {0} /\ None \notin Key

VARIABLES
    override, session, spendLock,
    records,    \* idempotency_records, by key
    unstored,   \* keys whose response could not be stored
    pc, job,    \* where each request stands and what it remembers
    now         \* the clock

Spend == INSTANCE SpendingLimit

spendVars == <<override, session, spendLock>>
keyVars == <<records, unstored>>
vars == <<spendVars, keyVars, pc, job, now>>

NoJob ==
    [key |-> None, amount |-> 0, seen |-> 0, stale |-> None,
     now |-> 0, limit |-> None, createdAt |-> 0, at |-> 0]

Executed(q) == session[q] # None

Init ==
    /\ override = None /\ spendLock = None
    /\ session = [q \in Request |-> None]
    /\ records = [k \in Key |-> None]
    /\ unstored = {}
    /\ pc = [q \in Request |-> "idle"]
    /\ job = [q \in Request |-> NoJob]
    /\ now = 0

\* Everything the interceptor leaves alone.
Handled == <<spendVars, now>>

Answered == {"idle", "done", "rejected", "replayed"}

Goto(q, label) == pc' = [pc EXCEPT ![q] = label]

\* The answer to a request; what the property needs of an execution is kept.
Answer(q, label) ==
    /\ Goto(q, label)
    /\ job' = [job EXCEPT ![q] =
         IF Executed(q) /\ @.key # None
         THEN [NoJob EXCEPT !.key = job[q].key, !.seen = job[q].seen, !.at = job[q].at] ELSE NoJob]

----------------------------------------------------------------------------
(* The interceptor                                                         *)

\* purgeExpired(), which is skipped while the last purge is recent.
purgeExpired ==
    \/ UNCHANGED records
    \/ records' = [k \in Key |->
         IF records[k] # None /\ records[k].expiresAt < now THEN None ELSE records[k]]

\* intercept() and the start of begin(): a request without a key goes through.
intercept(q) ==
    /\ pc[q] = "idle"
    /\ Cardinality({r \in Request : pc[r] \notin Answered}) < MaxAtOnce
    /\ \E key \in Key \cup {None}, a \in Amounts :
         /\ job' = [job EXCEPT ![q] = [@ EXCEPT !.key = key, !.amount = a, !.seen = now]]
         /\ IF key = None
            THEN Goto(q, "handler") /\ UNCHANGED records
            ELSE Goto(q, "find") /\ purgeExpired
    /\ UNCHANGED <<unstored, Handled>>

\* begin(): a live row answers the request (another body: 422, still running:
\* 409), an expired one is to be dropped.
find(q) ==
    LET row == records[job[q].key] IN
    /\ pc[q] = "find"
    /\ \/ /\ row = None
          /\ Goto(q, "insertKey") /\ UNCHANGED job
       \/ /\ row # None /\ row.expiresAt <= job[q].seen
          /\ Goto(q, "drop")
          /\ job' = [job EXCEPT ![q] = [@ EXCEPT !.stale = row.id]]
       \/ /\ row # None /\ row.expiresAt > job[q].seen
          /\ Answer(q, IF row.hash = job[q].amount /\ row.status = "completed"
                       THEN "replayed" ELSE "rejected")
    /\ UNCHANGED <<keyVars, Handled>>

\* Mutant: the expired row is deleted by its key.
DropByKey(q) ==
    /\ pc[q] = "drop"
    /\ records' = [records EXCEPT ![job[q].key] = None]
    /\ Goto(q, "insertKey")
    /\ job' = [job EXCEPT ![q] = [@ EXCEPT !.stale = None]]
    /\ UNCHANGED <<unstored, Handled>>

\* begin(): the expired row is deleted by its id.
drop(q) ==
    LET k == job[q].key IN
    /\ pc[q] = "drop"
    /\ records' = IF records[k] # None /\ records[k].id = job[q].stale
                  THEN [records EXCEPT ![k] = None] ELSE records
    /\ Goto(q, "insertKey")
    /\ job' = [job EXCEPT ![q] = [@ EXCEPT !.stale = None]]
    /\ UNCHANGED <<unstored, Handled>>

\* begin(): the insert; the unique index decides a race.
insertKey(q) ==
    LET k == job[q].key IN
    /\ pc[q] = "insertKey"
    /\ IF records[k] # None
       THEN Answer(q, "rejected") /\ UNCHANGED records
       ELSE /\ Goto(q, "handler") /\ UNCHANGED job
            /\ records' = [records EXCEPT ![k] =
                 [id |-> q, hash |-> job[q].amount, status |-> "in_progress",
                  expiresAt |-> job[q].seen + Ttl]]
    /\ UNCHANGED <<unstored, Handled>>

\* complete(): saved over the row of this request, which is inserted again if
\* it is gone, unless another request has taken the key.
complete(q) ==
    LET k == job[q].key IN
    /\ pc[q] = "ok"
    /\ \/ /\ k = None
          /\ Answer(q, "done") /\ UNCHANGED records
       \/ /\ k # None /\ records[k] # None /\ records[k].id # q
          /\ Goto(q, "refused") /\ UNCHANGED <<records, job>>
       \/ /\ k # None /\ (records[k] # None => records[k].id = q)
          /\ Answer(q, "done")
          /\ records' = [records EXCEPT ![k] =
               [id |-> q, hash |-> job[q].amount, status |-> "completed",
                expiresAt |-> job[q].seen + Ttl]]
    /\ UNCHANGED <<unstored, Handled>>

\* complete() fails: the handler's error path is taken although it committed.
completeFails(q) ==
    /\ pc[q] = "ok" /\ job[q].key # None
    /\ unstored' = unstored \cup {job[q].key}
    /\ Goto(q, "refused")
    /\ UNCHANGED <<records, job, Handled>>

\* catchError(): the key is released.
release(q) ==
    LET k == job[q].key IN
    /\ pc[q] = "refused"
    /\ records' = IF k # None /\ records[k] # None /\ records[k].id = q
                  THEN [records EXCEPT ![k] = None] ELSE records
    /\ Answer(q, "rejected")
    /\ UNCHANGED <<unstored, Handled>>

Intercepted(q) ==
    \/ intercept(q) \/ find(q) \/ drop(q) \/ insertKey(q)
    \/ complete(q) \/ completeFails(q) \/ release(q)

----------------------------------------------------------------------------
(* The system                                                              *)

Opens(q) == Spend!Open(q) /\ UNCHANGED keyVars

\* The process of a request dies: its transaction and its locks are gone.
Crash(q) ==
    /\ pc[q] \notin Answered
    /\ Answer(q, "rejected")
    /\ spendLock' = IF spendLock = q THEN None ELSE spendLock
    /\ UNCHANGED <<override, session, keyVars, now>>

Operator ==
    /\ \/ \E limit \in Limits : Spend!setLimit(limit)
       \/ Spend!clearLimit
       \/ /\ Cardinality({q \in Request : session[q] # None /\ session[q].status # "open"})
                < MaxCancelled
          /\ \E q \in Request : Spend!cancel(q)
       \/ \E q \in Request : Spend!close(q)
    /\ UNCHANGED keyVars

Tick ==
    /\ now < MaxTime /\ now' = now + 1
    /\ UNCHANGED <<spendVars, keyVars, pc, job>>

Next ==
    \/ \E q \in Request : Intercepted(q) \/ Opens(q) \/ Crash(q)
    \/ Operator \/ Tick

Spec == Init /\ [][Next]_vars

----------------------------------------------------------------------------
(* Properties                                                              *)

\* A key runs its handler to the end at most once until it expires, whichever
\* requests race with it, crash, or find it expired while the first one still
\* runs.  Excepted are keys whose response could not be stored: their row is
\* deleted although the handler committed.
ExecutedOnce ==
    \A q, r \in Request :
      /\ q # r /\ job[q].key = job[r].key /\ job[q].key \notin unstored \cup {None}
      /\ Executed(q) /\ Executed(r)
      => \/ job[q].at >= job[r].seen + Ttl
         \/ job[r].at >= job[q].seen + Ttl

\* What a payer opens in a window stays within the limit (SpendingLimit).
WithinLimit == Spend!WithinLimit

\* The same for what it has locked by now, which a revived session breaks.
LockedWithinLimit == Spend!LockedWithinLimit
============================================================================
