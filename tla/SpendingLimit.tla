--------------------------- MODULE SpendingLimit ---------------------------
(***************************************************************************)
(* The rolling spending limit (spending-limit.service.ts) of one payer, as *)
(* the handler of an open request q: EscrowService.open() has withinLimit()*)
(* store the session.                                                      *)
(*                                                                         *)
(* job[q] holds what q read: the clock, the limit.  createdAt is the start *)
(* of the inserting transaction, which may then wait for the advisory      *)
(* lock.  A session keeps the limit it was opened under for the property,  *)
(* and of its status what spentInWindow() tells apart: "open" stands for a *)
(* session that was never cancelled, "revived" for one that close() or     *)
(* emergencyClose() closed after it was cancelled.                         *)
(***************************************************************************)
EXTENDS Integers, Functions

CONSTANTS
    Request,       \* API requests
    DefaultLimit,  \* SPENDING_LIMIT_DAILY_DEFAULT, 0 for none
    WindowHours,   \* SPENDING_LIMIT_WINDOW_HOURS
    Limits,        \* the limits an admin may set
    None           \* null, and no limit

VARIABLES
    override,   \* spending_limits: the payer's row or None
    session,    \* escrow_sessions: the session each request opened or None
    spendLock,  \* holder of the payer's advisory lock or None
    pc, job,    \* where each request stands and what it remembers
    now         \* the clock

spendVars == <<override, session, spendLock>>

\* limitFor(): the override or the default, where 0 means not limited.
limitFor ==
    LET limit == IF override # None THEN override ELSE DefaultLimit
    IN  IF limit > 0 THEN limit ELSE None

\* SUM(depositAmount) over the sessions f of the requests S.
DepositsOf(f, S) == SumFunctionOnSet([q \in S |-> f[q].deposit], S)

\* spentInWindow(): what the sessions created after the start of the window,
\* cancelled ones excluded, have locked.
spentInWindow(at) ==
    LET counted == {q \in Request :
            /\ session[q] # None /\ session[q].status # "cancelled"
            /\ session[q].createdAt > at - WindowHours}
    IN  DepositsOf(session, counted)

\* open() up to the transaction of withinLimit(): its clock, then the limit.
readLimit(q) ==
    /\ pc[q] = "handler"
    /\ pc' = [pc EXCEPT ![q] = "limited"]
    /\ job' = [job EXCEPT ![q] = [@ EXCEPT !.now = now, !.limit = limitFor]]
    /\ UNCHANGED <<spendVars, now>>

\* withinLimit(): the session is stored at once, or in a transaction.
beginOpen(q) ==
    /\ pc[q] = "limited"
    /\ job' = [job EXCEPT ![q] = [@ EXCEPT !.createdAt = now]]
    /\ pc' = [pc EXCEPT ![q] = IF job[q].limit = None THEN "insert" ELSE "lock"]
    /\ UNCHANGED <<spendVars, now>>

\* Mutant: what is spent is read without the lock.
CheckLimitUnlocked(q) ==
    /\ pc[q] = "lock"
    /\ IF spentInWindow(job[q].now) + job[q].amount > job[q].limit
       THEN pc' = [pc EXCEPT ![q] = "refused"] /\ UNCHANGED spendLock
       ELSE pc' = [pc EXCEPT ![q] = "insert"] /\ spendLock' = q
    /\ UNCHANGED <<override, session, job, now>>

\* withinLimit(): under the lock, what is spent decides.
checkLimit(q) ==
    /\ pc[q] = "lock" /\ spendLock = None
    /\ IF spentInWindow(job[q].now) + job[q].amount > job[q].limit
       THEN pc' = [pc EXCEPT ![q] = "refused"] /\ UNCHANGED spendLock
       ELSE pc' = [pc EXCEPT ![q] = "insert"] /\ spendLock' = q
    /\ UNCHANGED <<override, session, job, now>>

\* withinLimit(): the insert and the commit, which ends the lock.
insertSession(q) ==
    /\ pc[q] = "insert"
    /\ session' = [session EXCEPT ![q] =
         [deposit |-> job[q].amount, createdAt |-> job[q].createdAt,
          limit |-> job[q].limit, status |-> "open"]]
    /\ spendLock' = IF spendLock = q THEN None ELSE spendLock
    /\ pc' = [pc EXCEPT ![q] = "ok"]
    /\ job' = [job EXCEPT ![q] =
         [@ EXCEPT !.at = now, !.now = 0, !.limit = None, !.createdAt = 0]]
    /\ UNCHANGED <<override, now>>

Open(q) == readLimit(q) \/ beginOpen(q) \/ checkLimit(q) \/ insertSession(q)

setLimit(limit) ==
    /\ override' = limit
    /\ UNCHANGED <<session, spendLock, pc, job, now>>

clearLimit == override # None /\ setLimit(None)

\* EscrowService.cancel(): the deposit no longer counts.
cancel(q) ==
    /\ session[q] # None /\ session[q].status = "open"
    /\ session' = [session EXCEPT ![q] = [@ EXCEPT !.status = "cancelled"]]
    /\ UNCHANGED <<override, spendLock, pc, job, now>>

\* EscrowService.close() and emergencyClose() do not look at the status: a
\* cancelled session is closed, and counts again.
close(q) ==
    /\ session[q] # None /\ session[q].status = "cancelled"
    /\ session' = [session EXCEPT ![q] = [@ EXCEPT !.status = "revived"]]
    /\ UNCHANGED <<override, spendLock, pc, job, now>>

----------------------------------------------------------------------------
\* The deposits of the sessions in S that were opened in the window before at
\* stay within the highest of their limits.
WithinAt(S, at) ==
    LET inside == {q \in S : session[q].createdAt \in (at - WindowHours + 1)..at}
    IN  inside # {} => \E r \in inside : DepositsOf(session, inside) <= session[r].limit

\* The sessions that were opened under a limit and never cancelled.
Limited == {q \in Request :
    session[q] # None /\ session[q].status = "open" /\ session[q].limit # None}

\* Rolling cap: whatever the order of concurrent opens, limit changes,
\* cancellations and closings, the deposits that were opened under a limit within
\* one window, and never cancelled, stay within the highest of these limits.
WithinLimit == \A at \in 0..now : WithinAt(Limited, at)

\* "Caps how much a payer may lock into escrow per rolling window"
\* (spending-limit.service.ts): the same for every session that counts.  A
\* cancelled session that is closed after others took its room counts again.
LockedWithinLimit ==
    \A at \in 0..now :
        WithinAt({q \in Request : /\ session[q] # None /\ session[q].limit # None
                                  /\ session[q].status # "cancelled"}, at)
============================================================================
