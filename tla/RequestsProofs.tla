--------------------------- MODULE RequestsProofs ---------------------------
(***************************************************************************)
(* What Requests keeps for any number of requests, keys and limits, any    *)
(* window and lifetime of a key: the rolling spending limit and the        *)
(* at-most-once promise of an Idempotency-Key.                             *)
(***************************************************************************)
EXTENDS Requests, SumTheorems

\* What a request remembers.
JobType ==
    [key: Key \cup {None}, amount: Nat, seen: Nat, stale: Request \cup {None},
     now: Nat, limit: Nat \cup {None}, createdAt: Nat, at: Nat]

\* Before the insert of the key row, and from there to the insert of the session.
Early == {"idle", "find", "drop", "insertKey"}
Inside == {"handler", "limited", "lock", "insert"}

RequestTypes ==
    /\ override \in Nat \cup {None}
    /\ session \in [Request -> SessionRow \cup {None}]
    /\ spendLock \in Request \cup {None}
    /\ records \in [Key -> KeyRecord \cup {None}]
    /\ unstored \in SUBSET Key
    /\ pc \in [Request -> Early \cup Inside \cup {"ok", "refused"} \cup Answered]
    /\ job \in [Request -> JobType]
    /\ now \in Nat

\* A request runs its handler once: it has no session before.  Only a request
\* with a key looks for its row.
NotYetExecuted ==
    \A q \in Request :
        /\ pc[q] \in Early \cup Inside => ~Executed(q)
        /\ pc[q] \in Early \ {"idle"} => job[q].key \in Key

\* No request remembers a time that is still to come.
SeenBefore == \A q \in Request : job[q].seen <= now

----------------------------------------------------------------------------
(* The spending limit                                                      *)

\* The window of a request begins before the transaction of its insert.
ReadBeforeInsert ==
    \A q \in Request :
        /\ job[q].now <= now /\ job[q].createdAt <= now
        /\ pc[q] \in {"lock", "insert"} => job[q].now <= job[q].createdAt

\* The sessions under a limit that a request whose window begins at from counts.
Counted(from) == {q \in Spend!Limited : session[q].createdAt > from - WindowHours}

\* Whoever is past the check holds the lock, and the limit still has room.
HolderHasRoom ==
    \A q \in Request : pc[q] = "insert" /\ job[q].limit # None =>
        /\ spendLock = q
        /\ Spend!DepositsOf(session, Counted(job[q].now)) + job[q].amount <= job[q].limit

\* Any sessions of one window, and not only all of them, stay within the limit
\* of one of them: the others may be cancelled one by one.
EveryPartWithin ==
    \A at \in Nat : \A S \in SUBSET Spend!Limited :
        /\ S # {}
        /\ \A q \in S : session[q].createdAt \in (at - WindowHours + 1)..at
        => \E r \in S : Spend!DepositsOf(session, S) <= session[r].limit

LimitInv ==
    RequestTypes /\ NotYetExecuted /\ ReadBeforeInsert /\ HolderHasRoom /\ EveryPartWithin

----------------------------------------------------------------------------
(* The idempotency key                                                     *)

\* q has the key: its handler runs or has committed.
Holding(q) ==
    /\ job[q].key \notin unstored \cup {None}
    /\ pc[q] \in Inside \/ Executed(q)

Late(q) == now >= job[q].seen + Ttl

\* Whoever has a key has its row until the key expires.
KeyHeld ==
    \A q \in Request : Holding(q) =>
        \/ records[job[q].key] # None /\ records[job[q].key].id = q
        \/ Late(q)

\* A row expires when its request says.
RowsAreDated ==
    \A k \in Key : records[k] # None =>
        LET q == records[k].id IN
        /\ pc[q] \notin Early
        /\ Holding(q) /\ job[q].key = k => records[k].expiresAt = job[q].seen + Ttl

\* The row a request is about to drop has expired.
StaleIsLate ==
    \A r \in Request : pc[r] = "drop" =>
        LET q == job[r].stale IN
        /\ q \in Request /\ pc[q] \notin Early
        /\ Holding(q) /\ job[q].key = job[r].key => Late(q)

\* A request that committed releases its key only after another has taken it.
RefusedIsLate == \A q \in Request : pc[q] = "refused" /\ Holding(q) => Late(q)

\* When the handler committed, or now while it runs.
End(q) == IF Executed(q) THEN job[q].at ELSE now

\* Of two requests that have the same key one came after the other's expired.
Apart ==
    \A q, r \in Request :
        q # r /\ job[q].key = job[r].key /\ Holding(q) /\ Holding(r) =>
            End(q) >= job[r].seen + Ttl \/ End(r) >= job[q].seen + Ttl

KeyInv ==
    /\ RequestTypes /\ NotYetExecuted
    /\ KeyHeld /\ RowsAreDated /\ StaleIsLate /\ RefusedIsLate /\ Apart

----------------------------------------------------------------------------
(* Types                                                                   *)

LEMMA RequestTypesInit == Init => RequestTypes /\ NotYetExecuted
<1> SUFFICES ASSUME Init PROVE RequestTypes /\ NotYetExecuted
  OBVIOUS
<1>1. NoJob \in JobType
  BY DEF NoJob, JobType
<1>2. QED
  BY <1>1 DEF Init, RequestTypes, NotYetExecuted, Executed, Early

\* What is left of a job when its request is answered.
LEMMA AnswerLeaves ==
    ASSUME RequestTypes, NEW q \in Request, NEW label \in Answered, Answer(q, label)
    PROVE  /\ pc' \in [Request -> Early \cup Inside \cup {"ok", "refused"} \cup Answered]
           /\ job' \in [Request -> JobType]
           /\ pc'[q] = label
           /\ \A r \in Request : r # q => pc'[r] = pc[r] /\ job'[r] = job[r]
           /\ \/ /\ Executed(q) /\ job[q].key # None
                 /\ job'[q].key = job[q].key /\ job'[q].seen = job[q].seen
                 /\ job'[q].at = job[q].at
              \/ ~(Executed(q) /\ job[q].key # None) /\ job'[q].key = None
           /\ job'[q].now = 0 /\ job'[q].createdAt = 0 /\ job'[q].seen \in {0, job[q].seen}
<1> DEFINE kept == IF Executed(q) /\ job[q].key # None
                   THEN [NoJob EXCEPT !.key = job[q].key, !.seen = job[q].seen, !.at = job[q].at]
                   ELSE NoJob
<1>1. job[q] \in JobType
  BY DEF RequestTypes
<1>2. kept \in JobType /\ kept.now = 0 /\ kept.createdAt = 0 /\ kept.seen \in {0, job[q].seen}
      /\ (Executed(q) /\ job[q].key # None =>
            kept.key = job[q].key /\ kept.seen = job[q].seen /\ kept.at = job[q].at)
      /\ (~(Executed(q) /\ job[q].key # None) => kept.key = None)
  BY <1>1 DEF NoJob, JobType
<1>3. job' = [job EXCEPT ![q] = kept] /\ pc' = [pc EXCEPT ![q] = label]
  BY DEF Answer, Goto
<1> HIDE DEF kept
<1>4. QED
  BY <1>2, <1>3 DEF RequestTypes

LEMMA InterceptedTypes ==
    ASSUME RequestTypes, NotYetExecuted, NEW q \in Request, Intercepted(q)
    PROVE  RequestTypes' /\ NotYetExecuted'
<1>0. job[q] \in JobType /\ UNCHANGED <<override, session, spendLock, now>>
  BY DEF RequestTypes, Intercepted, intercept, find, drop, insertKey, complete, completeFails,
         release, Handled, spendVars
<1>1. CASE intercept(q)
  <2>1. PICK key \in Key \cup {None}, a \in Amounts :
         /\ job' = [job EXCEPT ![q] = [@ EXCEPT !.key = key, !.amount = a, !.seen = now]]
         /\ IF key = None
            THEN Goto(q, "handler") /\ UNCHANGED records
            ELSE Goto(q, "find") /\ purgeExpired
    BY <1>1 DEF intercept
  <2>2. a \in Nat /\ now \in Nat
    BY RequestsAssumption DEF RequestTypes
  <2>3. /\ [job[q] EXCEPT !.key = key, !.amount = a, !.seen = now] \in JobType
        /\ [job[q] EXCEPT !.key = key, !.amount = a, !.seen = now].key = key
    BY <1>0, <2>2 DEF JobType
  <2>4. records' \in [Key -> KeyRecord \cup {None}]
    BY <2>1 DEF purgeExpired, RequestTypes
  <2>5. pc[q] = "idle" /\ UNCHANGED unstored
    BY <1>1 DEF intercept
  <2>6. QED
    BY <1>0, <2>1, <2>3, <2>4, <2>5 DEF RequestTypes, NotYetExecuted, Executed, Goto, Early, Inside
<1>2. CASE find(q)
  <2>0. UNCHANGED <<records, unstored>> /\ pc[q] = "find" /\ job[q].key \in Key
    BY <1>2 DEF find, keyVars, NotYetExecuted, Early
  <2>1. CASE Goto(q, "insertKey") /\ UNCHANGED job
    BY <1>0, <2>0, <2>1 DEF RequestTypes, NotYetExecuted, Executed, Goto, Early, Inside
  <2>2. CASE /\ Goto(q, "drop")
             /\ job' = [job EXCEPT ![q] = [@ EXCEPT !.stale = records[job[q].key].id]]
             /\ records[job[q].key] # None
    <3>1. records[job[q].key].id \in Request
      BY <2>0, <2>2 DEF RequestTypes, KeyRecord
    <3>2. /\ [job[q] EXCEPT !.stale = records[job[q].key].id] \in JobType
          /\ [job[q] EXCEPT !.stale = records[job[q].key].id].key = job[q].key
      BY <1>0, <3>1 DEF JobType
    <3>3. QED
      BY <1>0, <2>0, <2>2, <3>2 DEF RequestTypes, NotYetExecuted, Executed, Goto, Early, Inside
  <2>3. CASE \E label \in Answered : Answer(q, label)
    BY <1>0, <2>0, <2>3, AnswerLeaves DEF RequestTypes, NotYetExecuted, Executed, Early, Inside, Answered
  <2>4. QED
    BY <1>2, <2>1, <2>2, <2>3 DEF find, Answered
<1>3. CASE drop(q)
  <2>1. /\ pc[q] = "drop" /\ job[q].key \in Key /\ UNCHANGED unstored
        /\ records' \in [Key -> KeyRecord \cup {None}]
        /\ pc' = [pc EXCEPT ![q] = "insertKey"]
        /\ job' = [job EXCEPT ![q] = [job[q] EXCEPT !.stale = None]]
    BY <1>3 DEF drop, Goto, RequestTypes, NotYetExecuted, Early
  <2>2. /\ [job[q] EXCEPT !.stale = None] \in JobType
        /\ [job[q] EXCEPT !.stale = None].key = job[q].key
    BY <1>0 DEF JobType
  <2>3. QED
    BY <1>0, <2>1, <2>2 DEF RequestTypes, NotYetExecuted, Executed, Early, Inside
<1>4. CASE insertKey(q)
  <2>1. pc[q] = "insertKey" /\ job[q].key \in Key /\ UNCHANGED unstored
    BY <1>4 DEF insertKey, NotYetExecuted, Early
  <2>2. CASE Answer(q, "rejected") /\ UNCHANGED records
    BY <1>0, <2>1, <2>2, AnswerLeaves DEF RequestTypes, NotYetExecuted, Executed, Early, Inside, Answered
  <2>3. CASE /\ Goto(q, "handler") /\ UNCHANGED job
             /\ records' = [records EXCEPT ![job[q].key] =
                 [id |-> q, hash |-> job[q].amount, status |-> "in_progress",
                  expiresAt |-> job[q].seen + Ttl]]
    <3>1. [id |-> q, hash |-> job[q].amount, status |-> "in_progress",
           expiresAt |-> job[q].seen + Ttl] \in KeyRecord
      BY <1>0, RequestsAssumption DEF JobType, KeyRecord
    <3>2. QED
      BY <1>0, <2>1, <2>3, <3>1 DEF RequestTypes, NotYetExecuted, Executed, Goto, Early, Inside
  <2>4. QED
    BY <1>4, <2>2, <2>3 DEF insertKey
<1>5. CASE complete(q)
  <2>1. pc[q] = "ok" /\ UNCHANGED unstored /\ job[q].key \in Key \cup {None}
    BY <1>0, <1>5 DEF complete, JobType
  <2>2. CASE Goto(q, "refused") /\ UNCHANGED <<records, job>>
    BY <1>0, <2>1, <2>2 DEF RequestTypes, NotYetExecuted, Executed, Goto, Early, Inside
  <2>3. CASE Answer(q, "done") /\ records' \in [Key -> KeyRecord \cup {None}]
    BY <1>0, <2>1, <2>3, AnswerLeaves DEF RequestTypes, NotYetExecuted, Executed, Early, Inside, Answered
  <2>4. [id |-> q, hash |-> job[q].amount, status |-> "completed",
         expiresAt |-> job[q].seen + Ttl] \in KeyRecord
    BY <1>0, RequestsAssumption DEF JobType, KeyRecord
  <2>5. records \in [Key -> KeyRecord \cup {None}]
    BY DEF RequestTypes
  <2>6. QED
    BY <1>5, <2>1, <2>2, <2>3, <2>4, <2>5 DEF complete
<1>6. CASE completeFails(q)
  BY <1>0, <1>6 DEF completeFails, RequestTypes, NotYetExecuted, Executed, Goto, Early, Inside, JobType
<1>7. CASE release(q)
  <2>1. /\ pc[q] = "refused" /\ UNCHANGED unstored /\ job[q].key \in Key \cup {None}
        /\ records' \in [Key -> KeyRecord \cup {None}] /\ Answer(q, "rejected")
    BY <1>0, <1>7 DEF release, JobType, RequestTypes
  <2>2. QED
    BY <1>0, <2>1, AnswerLeaves DEF RequestTypes, NotYetExecuted, Executed, Early, Inside, Answered
<1>8. QED
  BY <1>1, <1>2, <1>3, <1>4, <1>5, <1>6, <1>7 DEF Intercepted

\* limitFor() answers null or a limit above zero.
LEMMA LimitForType == ASSUME RequestTypes PROVE Spend!limitFor \in (Nat \ {0}) \cup {None}
  BY RequestsAssumption DEF RequestTypes, Spend!limitFor

\* What the steps of the handler do to their request.
LEMMA OpensEffect ==
    ASSUME RequestTypes, NEW q \in Request, Opens(q)
    PROVE  /\ UNCHANGED <<override, records, unstored, now>>
           /\ pc[q] \in Inside /\ pc'[q] \in (Inside \ {"handler"}) \cup {"ok", "refused"}
           /\ pc' \in [Request -> Early \cup Inside \cup {"ok", "refused"} \cup Answered]
           /\ job' \in [Request -> JobType]
           /\ \A r \in Request : r # q => pc'[r] = pc[r] /\ job'[r] = job[r]
           /\ job'[q].key = job[q].key /\ job'[q].seen = job[q].seen
           /\ job'[q].amount = job[q].amount
           /\ \/ /\ pc'[q] \in Inside \cup {"refused"}
                 /\ UNCHANGED session /\ job'[q].at = job[q].at
              \/ pc'[q] = "ok" /\ job'[q].at = now /\ Spend!insertSession(q)
<1>1. job[q] \in JobType /\ UNCHANGED <<records, unstored>> /\ now \in Nat
  BY DEF RequestTypes, Opens, keyVars
<1>2. CASE Spend!readLimit(q)
  <2>1. /\ [job[q] EXCEPT !.now = now, !.limit = Spend!limitFor] \in JobType
        /\ [job[q] EXCEPT !.now = now, !.limit = Spend!limitFor].key = job[q].key
        /\ [job[q] EXCEPT !.now = now, !.limit = Spend!limitFor].seen = job[q].seen
        /\ [job[q] EXCEPT !.now = now, !.limit = Spend!limitFor].amount = job[q].amount
        /\ [job[q] EXCEPT !.now = now, !.limit = Spend!limitFor].at = job[q].at
    BY <1>1, LimitForType DEF JobType
  <2>2. QED
    BY <1>1, <1>2, <2>1 DEF Spend!readLimit, Spend!spendVars, RequestTypes, Inside
<1>3. CASE Spend!beginOpen(q)
  <2>1. /\ [job[q] EXCEPT !.createdAt = now] \in JobType
        /\ [job[q] EXCEPT !.createdAt = now].key = job[q].key
        /\ [job[q] EXCEPT !.createdAt = now].seen = job[q].seen
        /\ [job[q] EXCEPT !.createdAt = now].amount = job[q].amount
        /\ [job[q] EXCEPT !.createdAt = now].at = job[q].at
    BY <1>1 DEF JobType
  <2>2. QED
    BY <1>1, <1>3, <2>1 DEF Spend!beginOpen, Spend!spendVars, RequestTypes, Inside
<1>4. CASE Spend!checkLimit(q)
  BY <1>1, <1>4 DEF Spend!checkLimit, RequestTypes, Inside
<1>5. CASE Spend!insertSession(q)
  <2> DEFINE j == [job[q] EXCEPT !.at = now, !.now = 0, !.limit = None, !.createdAt = 0]
  <2>1. /\ j \in JobType /\ j.key = job[q].key /\ j.seen = job[q].seen
        /\ j.amount = job[q].amount /\ j.at = now
    BY <1>1 DEF JobType
  <2>2. job' = [job EXCEPT ![q] = j]
    BY <1>5 DEF Spend!insertSession
  <2> HIDE DEF j
  <2>3. QED
    BY <1>1, <1>5, <2>1, <2>2 DEF Spend!insertSession, RequestTypes, Inside
<1>6. QED
  BY <1>2, <1>3, <1>4, <1>5 DEF Opens, Spend!Open

LEMMA OpensTypes ==
    ASSUME RequestTypes, NotYetExecuted, NEW q \in Request, Opens(q)
    PROVE  RequestTypes' /\ NotYetExecuted'
<1>1. spendLock' \in Request \cup {None}
  BY DEF Opens, Spend!Open, Spend!readLimit, Spend!beginOpen, Spend!checkLimit, Spend!insertSession,
         Spend!spendVars, RequestTypes
<1>2. /\ session' \in [Request -> SessionRow \cup {None}]
      /\ \A r \in Request : r # q => session'[r] = session[r]
  <2>1. CASE UNCHANGED session
    BY <2>1 DEF RequestTypes
  <2>2. CASE Spend!insertSession(q)
    <3>1. [deposit |-> job[q].amount, createdAt |-> job[q].createdAt,
           limit |-> job[q].limit, status |-> "open"] \in SessionRow
      BY DEF RequestTypes, JobType, SessionRow
    <3>2. QED
      BY <2>2, <3>1 DEF Spend!insertSession, RequestTypes
  <2>3. QED
    BY <2>1, <2>2, OpensEffect
<1>3. QED
  BY <1>1, <1>2, OpensEffect DEF RequestTypes, NotYetExecuted, Executed, Early, Inside

LEMMA RequestTypesStep ==
    ASSUME RequestTypes, NotYetExecuted, [Next]_vars
    PROVE  RequestTypes' /\ NotYetExecuted'
<1>1. CASE \E q \in Request : Crash(q)
  <2>1. PICK q \in Request : Crash(q)
    BY <1>1
  <2>2. /\ UNCHANGED <<override, session, records, unstored, now>> /\ Answer(q, "rejected")
        /\ spendLock' \in Request \cup {None}
    BY <2>1 DEF Crash, keyVars, RequestTypes
  <2>3. QED
    BY <2>2, AnswerLeaves DEF RequestTypes, NotYetExecuted, Executed, Early, Inside, Answered
<1>2. CASE Operator
  <2>0. UNCHANGED <<records, unstored, pc, job, now, spendLock>>
    BY <1>2 DEF Operator, keyVars, Spend!setLimit, Spend!clearLimit, Spend!cancel, Spend!close
  <2>1. CASE UNCHANGED session /\ override' \in Nat \cup {None}
    BY <2>0, <2>1 DEF RequestTypes, NotYetExecuted, Executed
  <2>2. CASE \E q \in Request : Spend!cancel(q) \/ Spend!close(q)
    <3>1. PICK q \in Request : Spend!cancel(q) \/ Spend!close(q)
      BY <2>2
    <3>2. PICK s \in {"cancelled", "revived"} :
            session' = [session EXCEPT ![q] = [session[q] EXCEPT !.status = s]]
      BY <3>1 DEF Spend!cancel, Spend!close
    <3>3. session[q] \in SessionRow /\ session[q] # None /\ UNCHANGED override
      BY <3>1 DEF Spend!cancel, Spend!close, RequestTypes
    <3>4. [session[q] EXCEPT !.status = s] \in SessionRow
      BY <3>3 DEF SessionRow
    <3>5. QED
      BY <2>0, <3>2, <3>3, <3>4 DEF RequestTypes, NotYetExecuted, Executed
  <2>3. QED
    BY <1>2, <2>1, <2>2, RequestsAssumption DEF Operator, Spend!setLimit, Spend!clearLimit
<1>3. CASE Tick
  BY <1>3 DEF Tick, spendVars, keyVars, RequestTypes, NotYetExecuted, Executed
<1>4. CASE UNCHANGED vars
  BY <1>4 DEF vars, spendVars, keyVars, RequestTypes, NotYetExecuted, Executed
<1>5. QED
  BY <1>1, <1>2, <1>3, <1>4, InterceptedTypes, OpensTypes DEF Next

----------------------------------------------------------------------------
(* Sums of deposits                                                        *)

\* The sum that SpendingLimit instantiates is the one of SumTheorems.
LEMMA SameSum ==
    ASSUME NEW f, NEW S
    PROVE  Spend!SumFunctionOnSet(f, S) = SumFunctionOnSet(f, S)
  BY DEF Spend!SumFunctionOnSet, SumFunctionOnSet, Spend!FoldFunctionOnSet, FoldFunctionOnSet,
         Spend!MapThenFoldSet, MapThenFoldSet

Sessions == [Request -> SessionRow \cup {None}]

LEMMA DepositsFinite ==
    ASSUME NEW S \in SUBSET Request, NEW f \in Sessions, \A q \in S : f[q] # None
    PROVE  /\ IsFiniteSet(S)
           /\ \A q \in S : f[q] \in SessionRow /\ f[q].deposit \in Nat
  BY RequestsAssumption, FS_Subset DEF Sessions, SessionRow

\* A part of the sessions locks no more than all of them.
LEMMA DepositsPart ==
    ASSUME NEW S \in SUBSET Request, NEW f \in Sessions, \A q \in S : f[q] # None,
           NEW T \in SUBSET S
    PROVE  /\ Spend!DepositsOf(f, T) \in Nat /\ Spend!DepositsOf(f, S) \in Nat
           /\ Spend!DepositsOf(f, T) <= Spend!DepositsOf(f, S)
<1> DEFINE F == [q \in S |-> f[q].deposit]
           G == [q \in T |-> f[q].deposit]
<1>1. /\ IsFiniteSet(S) /\ IsFiniteSet(T) /\ \A q \in S : F[q] \in Nat
      /\ \A q \in T : F[q] \in Int /\ G[q] = F[q]
  BY DepositsFinite, FS_Subset
<1>2. S \in SUBSET S
  OBVIOUS
<1> HIDE DEF F, G
<1>3. /\ SumFunctionOnSet(F, T) \in Nat /\ SumFunctionOnSet(F, T) <= SumFunctionOnSet(F, S)
      /\ SumFunctionOnSet(F, S) \in Nat
  BY <1>1, <1>2, SumPart
<1>4. SumFunctionOnSet(G, T) = SumFunctionOnSet(F, T)
  BY <1>1, SumSame
<1>5. Spend!DepositsOf(f, S) = SumFunctionOnSet(F, S)
  BY SameSum DEF Spend!DepositsOf, F
<1>6. Spend!DepositsOf(f, T) = SumFunctionOnSet(G, T)
  BY SameSum DEF Spend!DepositsOf, G
<1>7. QED
  BY <1>3, <1>4, <1>5, <1>6

\* Only the deposits of the sessions in question matter.
LEMMA DepositsSame ==
    ASSUME NEW S \in SUBSET Request, NEW f \in Sessions, NEW g \in Sessions,
           \A q \in S : f[q] # None /\ g[q].deposit = f[q].deposit
    PROVE  Spend!DepositsOf(g, S) = Spend!DepositsOf(f, S)
<1> DEFINE F == [q \in S |-> f[q].deposit]
           G == [q \in S |-> g[q].deposit]
<1>1. IsFiniteSet(S) /\ \A q \in S : F[q] \in Int /\ G[q] = F[q]
  BY DepositsFinite
<1> HIDE DEF F, G
<1>2. SumFunctionOnSet(G, S) = SumFunctionOnSet(F, S)
  BY <1>1, SumSame
<1>3. QED
  BY <1>2, SameSum DEF Spend!DepositsOf, F, G

\* One session more locks its deposit.
LEMMA DepositsAdd ==
    ASSUME NEW S \in SUBSET Request, NEW f \in Sessions, \A q \in S : f[q] # None,
           NEW q \in S
    PROVE  Spend!DepositsOf(f, S) = Spend!DepositsOf(f, S \ {q}) + f[q].deposit
<1> DEFINE T == S \ {q}
           F == [p \in S |-> f[p].deposit]
           G == [p \in T |-> f[p].deposit]
<1>1. /\ IsFiniteSet(S) /\ IsFiniteSet(T) /\ \A p \in S : F[p] \in Int
      /\ \A p \in T : F[p] \in Int /\ G[p] = F[p]
      /\ F[q] = f[q].deposit
  BY DepositsFinite, FS_Subset
<1> HIDE DEF F, G
<1>2. SumFunctionOnSet(F, S) = F[q] + SumFunctionOnSet(F, T)
  BY <1>1, SumRemove
<1>3. SumFunctionOnSet(G, T) = SumFunctionOnSet(F, T)
  BY <1>1, SumSame
<1>4. SumFunctionOnSet(F, T) \in Int /\ F[q] \in Int
  BY <1>1, SumInt
<1>5. Spend!DepositsOf(f, S) = SumFunctionOnSet(F, S)
  BY SameSum DEF Spend!DepositsOf, F
<1>6. Spend!DepositsOf(f, T) = SumFunctionOnSet(G, T)
  BY SameSum DEF Spend!DepositsOf, G
<1>7. QED
  BY <1>1, <1>2, <1>3, <1>4, <1>5, <1>6

----------------------------------------------------------------------------
(* The spending limit holds                                                *)

\* A step that leaves the sessions alone and lets nobody past the check.
LEMMA NobodyPasses ==
    ASSUME LimitInv, RequestTypes', NotYetExecuted', ReadBeforeInsert', UNCHANGED session,
           \A q \in Request : pc'[q] = "insert" /\ job'[q].limit # None =>
               /\ pc[q] = "insert" /\ job'[q] = job[q]
               /\ spendLock = q => spendLock' = q
    PROVE  LimitInv'
<1>1. HolderHasRoom'
  BY DEF HolderHasRoom, Counted, LimitInv, Spend!Limited
<1>2. EveryPartWithin'
  BY DEF EveryPartWithin, LimitInv, Spend!Limited
<1>3. QED
  BY <1>1, <1>2 DEF LimitInv

\* The insert of a session under the limit: it is the last of its window, so the
\* others were counted when it was checked.  Without a limit it does not count.
LEMMA InsertKeepsLimit ==
    ASSUME LimitInv, RequestTypes', NotYetExecuted', NEW q \in Request, Spend!insertSession(q)
    PROVE  LimitInv'
<1> DEFINE new == [deposit |-> job[q].amount, createdAt |-> job[q].createdAt,
                   limit |-> job[q].limit, status |-> "open"]
<1>1. /\ pc[q] = "insert" /\ session' = [session EXCEPT ![q] = new]
      /\ spendLock' = IF spendLock = q THEN None ELSE spendLock
      /\ pc' = [pc EXCEPT ![q] = "ok"] /\ now' = now
      /\ job' = [job EXCEPT ![q] =
           [job[q] EXCEPT !.at = now, !.now = 0, !.limit = None, !.createdAt = 0]]
  BY DEF Spend!insertSession
<1>2. /\ session \in Sessions /\ session' \in Sessions /\ now \in Nat
      /\ job[q] \in JobType /\ session[q] = None
      /\ pc \in [Request -> Early \cup Inside \cup {"ok", "refused"} \cup Answered]
      /\ job \in [Request -> JobType]
  BY <1>1 DEF LimitInv, RequestTypes, NotYetExecuted, Executed, Sessions, Inside
<1>3. /\ session'[q] = new /\ pc'[q] = "ok"
      /\ \A r \in Request : r # q =>
            session'[r] = session[r] /\ pc'[r] = pc[r] /\ job'[r] = job[r]
      /\ job'[q].now = 0 /\ job'[q].createdAt = 0
      /\ new.deposit = job[q].amount /\ new.createdAt = job[q].createdAt
      /\ new.limit = job[q].limit
  BY <1>1, <1>2 DEF Sessions, JobType
<1> HIDE DEF new
<1>4. ReadBeforeInsert'
  BY <1>1, <1>2, <1>3 DEF LimitInv, ReadBeforeInsert
<1>5. /\ Spend!Limited \subseteq Request /\ Spend!Limited' \subseteq Request
      /\ q \notin Spend!Limited /\ Spend!Limited' \ {q} = Spend!Limited
      /\ \A r \in Spend!Limited : session[r] # None
      /\ \A r \in Spend!Limited' : session'[r] # None
  BY <1>2, <1>3 DEF Spend!Limited
<1>6. CASE job[q].limit = None
  <2>1. Spend!Limited' = Spend!Limited
    BY <1>3, <1>5, <1>6 DEF Spend!Limited
  <2>2. ASSUME NEW S \in SUBSET Spend!Limited
        PROVE  /\ Spend!DepositsOf(session', S) = Spend!DepositsOf(session, S)
               /\ \A r \in S : session'[r] = session[r]
    BY <1>2, <1>3, <1>5, DepositsSame
  <2>3. EveryPartWithin'
    BY <2>1, <2>2 DEF EveryPartWithin, LimitInv
  <2>4. HolderHasRoom'
    <3> SUFFICES ASSUME NEW r \in Request, pc'[r] = "insert", job'[r].limit # None
                 PROVE  /\ spendLock' = r
                        /\ Spend!DepositsOf(session', Counted(job[r].now)') + job'[r].amount <= job'[r].limit
      BY DEF HolderHasRoom
    <3>1. r # q /\ job'[r] = job[r] /\ pc[r] = "insert"
      BY <1>3
    <3>2. spendLock = r /\ Spend!DepositsOf(session, Counted(job[r].now)) + job[r].amount <= job[r].limit
      BY <3>1 DEF LimitInv, HolderHasRoom
    <3>3. Counted(job[r].now)' = Counted(job[r].now) /\ Counted(job[r].now) \in SUBSET Spend!Limited
      BY <1>3, <1>5, <2>1, <3>1 DEF Counted
    <3>4. Spend!DepositsOf(session', Counted(job[r].now)') = Spend!DepositsOf(session, Counted(job[r].now))
      BY <2>2, <3>3
    <3>5. QED
      BY <1>1, <3>1, <3>2, <3>4
  <2>5. QED
    BY <1>4, <2>3, <2>4 DEF LimitInv
<1>7. CASE job[q].limit # None
  <2>1. /\ spendLock = q
        /\ Spend!DepositsOf(session, Counted(job[q].now)) + job[q].amount <= job[q].limit
    BY <1>1, <1>7 DEF LimitInv, HolderHasRoom
  <2>2. HolderHasRoom'
    BY <1>3, <2>1 DEF HolderHasRoom, LimitInv
  <2>3. ASSUME NEW at \in Nat, NEW S \in SUBSET Spend!Limited', S # {},
               \A r \in S : session'[r].createdAt \in (at - WindowHours + 1)..at
        PROVE  \E r \in S : Spend!DepositsOf(session', S) <= session'[r].limit
    <3>1. CASE q \notin S
      <4>1. S \in SUBSET Spend!Limited /\ \A r \in S : session'[r] = session[r]
        BY <1>3, <1>5, <3>1
      <4>2. Spend!DepositsOf(session', S) = Spend!DepositsOf(session, S)
        BY <1>2, <1>5, <4>1, DepositsSame
      <4>3. \E r \in S : Spend!DepositsOf(session, S) <= session[r].limit
        BY <2>3, <4>1 DEF LimitInv, EveryPartWithin
      <4>4. QED
        BY <4>1, <4>2, <4>3
    <3>2. CASE q \in S
      <4> DEFINE T == S \ {q}
                 C == Counted(job[q].now)
      <4>1. /\ job[q].now \in Nat /\ job[q].createdAt \in Nat /\ job[q].now <= job[q].createdAt
            /\ WindowHours \in Nat /\ job[q].amount \in Nat /\ job[q].limit \in Nat
        BY <1>1, <1>2, <1>7, RequestsAssumption DEF LimitInv, ReadBeforeInsert, JobType
      <4>2. job[q].createdAt <= at
        BY <1>3, <2>3, <3>2, <4>1
      <4>3. T \in SUBSET Spend!Limited /\ \A r \in T : session'[r] = session[r]
        BY <1>3, <1>5
      <4>4. \A r \in T : session[r].createdAt \in Int /\ session[r].createdAt >= at - WindowHours + 1
        BY <2>3, <4>1, <4>3
      <4>5. T \in SUBSET C /\ C \in SUBSET Request /\ \A r \in C : session[r] # None
        BY <1>5, <4>1, <4>2, <4>3, <4>4 DEF Counted
      <4> HIDE DEF C
      <4>6. /\ Spend!DepositsOf(session, T) <= Spend!DepositsOf(session, C)
            /\ Spend!DepositsOf(session, T) \in Nat /\ Spend!DepositsOf(session, C) \in Nat
        BY <1>2, <4>5, DepositsPart
      <4>7. Spend!DepositsOf(session', T) = Spend!DepositsOf(session, T)
        BY <1>2, <1>5, <4>3, DepositsSame
      <4>8. Spend!DepositsOf(session', S) = Spend!DepositsOf(session', T) + job[q].amount
        <5>1. S \subseteq Spend!Limited'
          OBVIOUS
        <5>4. S \in SUBSET Request
          BY <1>5, <5>1
        <5>5. \A r \in S : session'[r] # None
          BY <1>5, <5>1
        <5>2. Spend!DepositsOf(session', S) = Spend!DepositsOf(session', T) + session'[q].deposit
          BY <1>2, <3>2, <5>4, <5>5, DepositsAdd
        <5>3. QED
          BY <1>3, <5>2
      <4>9. Spend!DepositsOf(session, C) + job[q].amount <= job[q].limit
        BY <2>1 DEF C
      <4>10. Spend!DepositsOf(session', S) <= session'[q].limit
        BY <1>3, <4>1, <4>6, <4>7, <4>8, <4>9
      <4>11. QED
        BY <3>2, <4>10
    <3>3. QED
      BY <3>1, <3>2
  <2>4. EveryPartWithin'
    BY <2>3 DEF EveryPartWithin
  <2>5. QED
    BY <1>4, <2>2, <2>4 DEF LimitInv
<1>8. QED
  BY <1>6, <1>7

\* A cancelled or revived session is none of those that were never cancelled:
\* what is left is a part of before.
LEMMA CancelKeepsLimit ==
    ASSUME LimitInv, RequestTypes', NotYetExecuted', NEW p \in Request,
           Spend!cancel(p) \/ Spend!close(p)
    PROVE  LimitInv'
<1>1. /\ session[p] # None /\ UNCHANGED <<spendLock, pc, job, now>>
      /\ \/ session' = [session EXCEPT ![p] = [session[p] EXCEPT !.status = "cancelled"]]
         \/ session' = [session EXCEPT ![p] = [session[p] EXCEPT !.status = "revived"]]
  BY DEF Spend!cancel, Spend!close
<1>2. /\ session \in Sessions /\ session' \in Sessions
      /\ session[p] \in SessionRow
  BY <1>1 DEF LimitInv, RequestTypes, Sessions
<1>3. /\ session'[p].status # "open"
      /\ \A r \in Request : r # p => session'[r] = session[r]
  BY <1>1, <1>2 DEF Sessions, SessionRow
<1>4. /\ Spend!Limited' = Spend!Limited \ {p} /\ Spend!Limited \subseteq Request
      /\ \A r \in Spend!Limited : session[r] # None
  BY <1>3 DEF Spend!Limited
<1>5. ASSUME NEW S \in SUBSET (Spend!Limited \ {p})
      PROVE  /\ Spend!DepositsOf(session', S) = Spend!DepositsOf(session, S)
             /\ \A r \in S : session'[r] = session[r]
  BY <1>2, <1>3, <1>4, DepositsSame
<1>6. EveryPartWithin'
  BY <1>4, <1>5 DEF EveryPartWithin, LimitInv
<1>7. HolderHasRoom'
  <2> SUFFICES ASSUME NEW r \in Request, pc[r] = "insert", job[r].limit # None
               PROVE  Spend!DepositsOf(session', Counted(job[r].now)') + job[r].amount <= job[r].limit
                      /\ spendLock = r
    BY <1>1 DEF HolderHasRoom
  <2> DEFINE C == Counted(job[r].now)
  <2>1. spendLock = r /\ Spend!DepositsOf(session, C) + job[r].amount <= job[r].limit
    BY DEF LimitInv, HolderHasRoom
  <2>2. /\ Counted(job[r].now)' = C \ {p} /\ C \subseteq Spend!Limited
        /\ job[r].amount \in Nat /\ job[r].limit \in Nat
    BY <1>1, <1>3, <1>4 DEF Counted, LimitInv, RequestTypes, JobType
  <2> HIDE DEF C
  <2>3. /\ Spend!DepositsOf(session, C \ {p}) <= Spend!DepositsOf(session, C)
        /\ Spend!DepositsOf(session, C \ {p}) \in Nat /\ Spend!DepositsOf(session, C) \in Nat
    BY <1>2, <1>4, <2>2, DepositsPart
  <2>4. Spend!DepositsOf(session', C \ {p}) = Spend!DepositsOf(session, C \ {p})
    BY <1>5, <2>2
  <2>5. Spend!DepositsOf(session', Counted(job[r].now)') = Spend!DepositsOf(session', C \ {p})
        /\ Spend!DepositsOf(session, C) = Spend!DepositsOf(session, C)
    BY <2>2
  <2>6. QED
    BY <2>1, <2>2, <2>3, <2>4, <2>5
<1>8. ReadBeforeInsert'
  BY <1>1 DEF ReadBeforeInsert, LimitInv
<1>9. QED
  BY <1>6, <1>7, <1>8 DEF LimitInv

\* What the steps of the interceptor leave alone.
LEMMA InterceptedEffect ==
    ASSUME RequestTypes, NotYetExecuted, NEW q \in Request, Intercepted(q)
    PROVE  /\ UNCHANGED <<override, session, spendLock, now>>
           /\ pc[q] \notin {"lock", "insert"} /\ pc'[q] \notin {"lock", "insert"}
           /\ \A r \in Request : r # q => pc'[r] = pc[r] /\ job'[r] = job[r]
           /\ job'[q].now \in {0, job[q].now} /\ job'[q].createdAt \in {0, job[q].createdAt}
           /\ job'[q].seen \in {0, job[q].seen, now}
<1>1. job[q] \in JobType /\ UNCHANGED <<override, session, spendLock, now>>
  BY DEF RequestTypes, Intercepted, intercept, find, drop, insertKey, complete, completeFails,
         release, Handled, spendVars
<1>2. /\ pc \in [Request -> Early \cup Inside \cup {"ok", "refused"} \cup Answered]
      /\ job \in [Request -> JobType]
  BY DEF RequestTypes
<1>3. CASE \E label \in Answered : pc[q] \notin {"lock", "insert"} /\ Answer(q, label)
  BY <1>1, <1>3, AnswerLeaves DEF Answered
<1>4. CASE /\ pc[q] \notin {"lock", "insert"}
           /\ \E label \in {"handler", "find", "drop", "insertKey", "refused"} : Goto(q, label)
           /\ \/ UNCHANGED job
              \/ \E key \in Key \cup {None}, a \in Amounts :
                   job' = [job EXCEPT ![q] = [@ EXCEPT !.key = key, !.amount = a, !.seen = now]]
              \/ \E x : job' = [job EXCEPT ![q] = [@ EXCEPT !.stale = x]]
  <2>1. /\ pc'[q] \notin {"lock", "insert"}
        /\ \A r \in Request : r # q => pc'[r] = pc[r] /\ job'[r] = job[r]
    BY <1>2, <1>4 DEF Goto
  <2>2. /\ job'[q].now = job[q].now /\ job'[q].createdAt = job[q].createdAt
        /\ job'[q].seen \in {job[q].seen, now}
    <3>1. CASE UNCHANGED job
      BY <3>1
    <3>2. CASE \E key \in Key \cup {None}, a \in Amounts :
                 job' = [job EXCEPT ![q] = [@ EXCEPT !.key = key, !.amount = a, !.seen = now]]
      BY <1>1, <1>2, <3>2 DEF JobType
    <3>3. CASE \E x : job' = [job EXCEPT ![q] = [@ EXCEPT !.stale = x]]
      BY <1>1, <1>2, <3>3 DEF JobType
    <3>4. QED
      BY <1>4, <3>1, <3>2, <3>3
  <2>3. QED
    BY <1>1, <1>4, <2>1, <2>2
<1>5. QED
  BY <1>3, <1>4 DEF Intercepted, intercept, find, drop, insertKey, complete, completeFails,
                    release, Answered

LEMMA LimitInvInductive ==
    (Init => LimitInv) /\ (LimitInv /\ [Next]_vars => LimitInv')
<1>1. ASSUME Init PROVE LimitInv
  <2>1. Spend!Limited = {} /\ \A q \in Request : pc[q] = "idle" /\ job[q] = NoJob
    BY <1>1 DEF Init, Spend!Limited
  <2>2. HolderHasRoom /\ EveryPartWithin
    BY <2>1 DEF HolderHasRoom, EveryPartWithin
  <2>3. ReadBeforeInsert
    BY <1>1, <2>1 DEF ReadBeforeInsert, NoJob, Init
  <2>4. QED
    BY <1>1, <2>2, <2>3, RequestTypesInit DEF LimitInv
<1>2. ASSUME LimitInv, [Next]_vars PROVE LimitInv'
  <2>1. RequestTypes' /\ NotYetExecuted'
    BY <1>2, RequestTypesStep DEF LimitInv
  <2>2. /\ now \in Nat /\ \A q \in Request : job[q] \in JobType
        /\ \A q \in Request : job[q].now \in Nat /\ job[q].createdAt \in Nat
    BY <1>2 DEF LimitInv, RequestTypes, JobType
  <2>3. CASE \E q \in Request : Intercepted(q)
    <3>1. PICK q \in Request : Intercepted(q)
      BY <2>3
    <3>2. /\ UNCHANGED <<override, session, spendLock, now>>
          /\ pc[q] \notin {"lock", "insert"} /\ pc'[q] \notin {"lock", "insert"}
          /\ \A r \in Request : r # q => pc'[r] = pc[r] /\ job'[r] = job[r]
          /\ job'[q].now \in {0, job[q].now} /\ job'[q].createdAt \in {0, job[q].createdAt}
      BY <1>2, <3>1, InterceptedEffect DEF LimitInv
    <3>3. ReadBeforeInsert'
      BY <1>2, <2>2, <3>2 DEF LimitInv, ReadBeforeInsert
    <3>4. QED
      BY <1>2, <2>1, <3>2, <3>3, NobodyPasses
  <2>4. CASE \E q \in Request : Opens(q)
    <3>1. PICK q \in Request : Opens(q)
      BY <2>4
    <3>2. job[q] \in JobType /\ UNCHANGED now
          /\ pc \in [Request -> Early \cup Inside \cup {"ok", "refused"} \cup Answered]
          /\ job \in [Request -> JobType]
      BY <1>2, <3>1, OpensEffect DEF LimitInv, RequestTypes
    <3>3. CASE Spend!readLimit(q)
      <4>1. /\ pc[q] = "handler" /\ pc'[q] = "limited" /\ UNCHANGED <<session, spendLock>>
            /\ \A r \in Request : r # q => pc'[r] = pc[r] /\ job'[r] = job[r]
            /\ job'[q].now = now /\ job'[q].createdAt = job[q].createdAt
        BY <3>2, <3>3 DEF Spend!readLimit, Spend!spendVars, JobType
      <4>2. ReadBeforeInsert'
        BY <1>2, <2>2, <3>2, <4>1 DEF LimitInv, ReadBeforeInsert
      <4>3. QED
        BY <1>2, <2>1, <4>1, <4>2, NobodyPasses
    <3>4. CASE Spend!beginOpen(q)
      <4>1. /\ pc[q] = "limited" /\ UNCHANGED <<session, spendLock>>
            /\ pc'[q] = IF job[q].limit = None THEN "insert" ELSE "lock"
            /\ \A r \in Request : r # q => pc'[r] = pc[r] /\ job'[r] = job[r]
            /\ job'[q].now = job[q].now /\ job'[q].createdAt = now
            /\ job'[q].limit = job[q].limit
        BY <3>2, <3>4 DEF Spend!beginOpen, Spend!spendVars, JobType
      <4>2. ReadBeforeInsert'
        BY <1>2, <2>2, <3>2, <4>1 DEF LimitInv, ReadBeforeInsert
      <4>3. QED
        BY <1>2, <2>1, <4>1, <4>2, NobodyPasses
    <3>5. CASE Spend!checkLimit(q)
      <4>1. /\ pc[q] = "lock" /\ spendLock = None /\ UNCHANGED <<session, job>>
            /\ \A r \in Request : r # q => pc'[r] = pc[r]
        BY <3>2, <3>5 DEF Spend!checkLimit
      <4>2. ReadBeforeInsert'
        BY <1>2, <3>2, <3>5, <4>1 DEF LimitInv, ReadBeforeInsert, Spend!checkLimit
      <4>3. \A r \in Request : r # q => ~(pc[r] = "insert" /\ job[r].limit # None)
        BY <1>2, <4>1, RequestsAssumption DEF LimitInv, HolderHasRoom
      <4>4. CASE pc'[q] = "refused"
        BY <1>2, <2>1, <4>1, <4>2, <4>3, <4>4, NobodyPasses
      <4>5. CASE /\ ~(Spend!spentInWindow(job[q].now) + job[q].amount > job[q].limit)
                 /\ pc'[q] = "insert" /\ spendLock' = q
        <5> DEFINE C == Counted(job[q].now)
                   D == {r \in Request : /\ session[r] # None /\ session[r].status # "cancelled"
                                         /\ session[r].createdAt > job[q].now - WindowHours}
        <5>1. /\ C \in SUBSET D /\ D \in SUBSET Request /\ \A r \in D : session[r] # None
              /\ Spend!spentInWindow(job[q].now) = Spend!DepositsOf(session, D)
              /\ session \in Sessions
          BY <1>2 DEF Counted, Spend!Limited, Spend!spentInWindow, LimitInv, RequestTypes, Sessions
        <5> HIDE DEF C, D
        <5>2. /\ Spend!DepositsOf(session, C) <= Spend!DepositsOf(session, D)
              /\ Spend!DepositsOf(session, C) \in Nat /\ Spend!DepositsOf(session, D) \in Nat
          BY <5>1, DepositsPart
        <5>3. job[q].limit # None => Spend!DepositsOf(session, C) + job[q].amount <= job[q].limit
          BY <3>2, <4>5, <5>1, <5>2 DEF JobType
        <5>4. HolderHasRoom'
          <6>1. Counted(job[q].now)' = C
            BY <4>1 DEF C, Counted, Spend!Limited
          <6>2. QED
            BY <4>1, <4>3, <4>5, <5>3, <6>1 DEF HolderHasRoom
        <5>5. EveryPartWithin'
          BY <1>2, <4>1 DEF EveryPartWithin, LimitInv, Spend!Limited
        <5>6. QED
          BY <2>1, <4>2, <5>4, <5>5 DEF LimitInv
      <4>6. QED
        BY <3>2, <3>5, <4>4, <4>5 DEF Spend!checkLimit
    <3>6. CASE Spend!insertSession(q)
      BY <1>2, <2>1, <3>6, InsertKeepsLimit
    <3>7. QED
      BY <3>1, <3>3, <3>4, <3>5, <3>6 DEF Opens, Spend!Open
  <2>5. CASE \E q \in Request : Crash(q)
    <3>1. PICK q \in Request : Crash(q)
      BY <2>5
    <3>2. /\ UNCHANGED <<session, now>> /\ Answer(q, "rejected")
          /\ spendLock' = IF spendLock = q THEN None ELSE spendLock
      BY <3>1 DEF Crash
    <3>3. /\ pc'[q] = "rejected" /\ job'[q].now = 0 /\ job'[q].createdAt = 0
          /\ \A r \in Request : r # q => pc'[r] = pc[r] /\ job'[r] = job[r]
      BY <1>2, <3>2, AnswerLeaves DEF LimitInv, Answered
    <3>4. ReadBeforeInsert'
      BY <1>2, <2>2, <3>2, <3>3 DEF LimitInv, ReadBeforeInsert
    <3>5. QED
      BY <1>2, <2>1, <3>2, <3>3, <3>4, NobodyPasses
  <2>6. CASE Operator
    <3>1. CASE \E p \in Request : Spend!cancel(p) \/ Spend!close(p)
      BY <1>2, <2>1, <3>1, CancelKeepsLimit
    <3>2. CASE UNCHANGED <<session, spendLock, pc, job, now>>
      <4>1. ReadBeforeInsert'
        BY <1>2, <3>2 DEF LimitInv, ReadBeforeInsert
      <4>2. QED
        BY <1>2, <2>1, <3>2, <4>1, NobodyPasses
    <3>3. QED
      BY <2>6, <3>1, <3>2 DEF Operator, Spend!setLimit, Spend!clearLimit
  <2>7. CASE Tick \/ UNCHANGED vars
    <3>1. UNCHANGED <<session, spendLock, pc, job>> /\ now' >= now /\ now' \in Nat
      BY <2>2, <2>7 DEF Tick, vars, spendVars
    <3>2. ReadBeforeInsert'
      BY <1>2, <2>2, <3>1 DEF LimitInv, ReadBeforeInsert
    <3>3. QED
      BY <1>2, <2>1, <3>1, <3>2, NobodyPasses
  <2>8. QED
    BY <1>2, <2>3, <2>4, <2>5, <2>6, <2>7 DEF Next
<1>3. QED
  BY <1>1, <1>2

\* spending-limit.service.ts: whatever the order of concurrent opens, changes of
\* the limit, cancellations, closings and crashes, the deposits opened under a
\* limit within one window, and never cancelled, stay within the highest of these
\* limits, for any number of requests and any window.
THEOREM OpensWithinLimit == Spec => []WithinLimit
<1>1. LimitInv => WithinLimit
  <2> SUFFICES ASSUME LimitInv, NEW at \in 0..now,
                      NEW S, S = {q \in Spend!Limited :
                                    session[q].createdAt \in (at - WindowHours + 1)..at},
                      S # {}
               PROVE  \E r \in S : Spend!DepositsOf(session, S) <= session[r].limit
    BY DEF WithinLimit, Spend!WithinLimit, Spend!WithinAt
  <2>1. at \in Nat /\ S \in SUBSET Spend!Limited
    BY DEF LimitInv, RequestTypes
  <2>2. QED
    BY <2>1 DEF LimitInv, EveryPartWithin
<1>2. QED
  BY <1>1, LimitInvInductive, PTL DEF Spec

----------------------------------------------------------------------------
(* An idempotency key runs once                                            *)

\* What a step may do without touching anybody's claim to a key: holders keep
\* their key and its date or stop being holders, rows of late holders go.
LEMMA ClaimsKept ==
    ASSUME KeyInv, RequestTypes', NotYetExecuted', now' >= now,
           \A r \in Request : Holding(r)' =>
               /\ Holding(r) /\ End(r)' >= End(r)
               /\ job'[r].key = job[r].key /\ job'[r].seen = job[r].seen,
           \A k \in Key : records'[k] # records[k] =>
               /\ records'[k] = None /\ records[k] # None
               /\ Holding(records[k].id) /\ job[records[k].id].key = k => Late(records[k].id),
           \A r \in Request : pc'[r] \in Early => pc[r] \in Early,
           \A r \in Request : pc'[r] = "drop" =>
               \/ pc[r] = "drop" /\ job'[r].stale = job[r].stale /\ job'[r].key = job[r].key
               \/ LET q == job'[r].stale IN
                  /\ q \in Request /\ pc[q] \notin Early
                  /\ Holding(q) /\ job[q].key = job'[r].key => Late(q),
           \A r \in Request : pc'[r] = "refused" /\ Holding(r)' => pc[r] = "refused" \/ Late(r)
    PROVE  KeyInv'
<1>1. \A r \in Request : /\ job[r].seen \in Nat /\ job'[r].seen \in Nat
                         /\ End(r) \in Nat /\ End(r)' \in Nat
  BY DEF KeyInv, RequestTypes, JobType, End
<1>2. now \in Nat /\ now' \in Nat /\ Ttl \in Nat
  BY RequestsAssumption DEF KeyInv, RequestTypes
<1>3. \A r \in Request : Holding(r)' /\ Late(r) => Late(r)'
  BY <1>1, <1>2 DEF Late
<1>4. \A r \in Request : Holding(r) => job[r].key \in Key
  BY DEF KeyInv, RequestTypes, JobType, Holding
<1>5. KeyHeld'
  BY <1>3, <1>4 DEF KeyInv, KeyHeld
<1>6. RowsAreDated'
  BY DEF KeyInv, RowsAreDated, RequestTypes, KeyRecord
<1>7. StaleIsLate'
  BY <1>3 DEF KeyInv, StaleIsLate
<1>8. RefusedIsLate'
  BY <1>3 DEF KeyInv, RefusedIsLate
<1>9. Apart'
  BY <1>1, <1>2 DEF KeyInv, Apart
<1>10. QED
  BY <1>5, <1>6, <1>7, <1>8, <1>9 DEF KeyInv

\* The facts about the other requests that a step of q leaves as they are.
LEMMA OthersHold ==
    ASSUME RequestTypes, NEW q \in Request, UNCHANGED now, unstored \subseteq unstored',
           \A r \in Request : r # q =>
               pc'[r] = pc[r] /\ job'[r] = job[r] /\ session'[r] = session[r]
    PROVE  \A r \in Request : r # q => (Holding(r)' => Holding(r)) /\ End(r)' = End(r)
  BY DEF Holding, End, Executed

\* A step of the handler keeps the row, the key and its date.
LEMMA OpensKeepsKey ==
    ASSUME KeyInv, NEW q \in Request, Opens(q)
    PROVE  KeyInv'
<1>1. RequestTypes' /\ NotYetExecuted'
  BY OpensTypes DEF KeyInv
<1>2. /\ UNCHANGED <<records, unstored, now>> /\ now \in Nat
      /\ pc[q] \in Inside /\ pc'[q] \in (Inside \ {"handler"}) \cup {"ok", "refused"}
      /\ \A r \in Request : r # q =>
            pc'[r] = pc[r] /\ job'[r] = job[r] /\ session'[r] = session[r]
      /\ job'[q].key = job[q].key /\ job'[q].seen = job[q].seen
  <2>1. RequestTypes /\ NotYetExecuted
    BY DEF KeyInv
  <2>2. \A r \in Request : r # q => session'[r] = session[r]
    <3>1. CASE UNCHANGED session
      BY <3>1
    <3>2. CASE Spend!insertSession(q)
      BY <2>1, <3>2 DEF Spend!insertSession, RequestTypes
    <3>3. QED
      BY <2>1, <3>1, <3>2, OpensEffect
  <2>3. now \in Nat
    BY <2>1 DEF RequestTypes
  <2>4. QED
    BY <2>1, <2>2, <2>3, OpensEffect
<1>3. \A r \in Request : r # q => (Holding(r)' => Holding(r)) /\ End(r)' = End(r)
  BY <1>2, OthersHold DEF KeyInv
<1>4. ~Executed(q)
  BY <1>2 DEF KeyInv, NotYetExecuted
<1>5. Holding(q)' => Holding(q) /\ End(q)' = End(q)
  BY <1>2, <1>4, OpensEffect DEF KeyInv, Holding, End, Executed
<1>6. pc'[q] = "refused" => ~Holding(q)'
  BY <1>2, <1>4, OpensEffect DEF KeyInv, Holding, Executed, Inside
<1>7. \A r \in Request : Holding(r)' =>
               /\ Holding(r) /\ End(r)' >= End(r)
               /\ job'[r].key = job[r].key /\ job'[r].seen = job[r].seen
  <2>1. \A r \in Request : End(r) \in Nat
    BY DEF KeyInv, RequestTypes, JobType, End
  <2>2. QED
    BY <1>2, <1>3, <1>5, <2>1
<1>8. \A r \in Request :
        /\ pc'[r] \in Early => pc[r] \in Early
        /\ pc'[r] = "drop" => pc[r] = "drop" /\ job'[r] = job[r]
        /\ pc'[r] = "refused" /\ Holding(r)' => pc[r] = "refused"
  BY <1>2, <1>6 DEF Early, Inside
<1>9. QED
  BY <1>1, <1>2, <1>7, <1>8, ClaimsKept

\* A step of the interceptor that takes no key.
LEMMA NoKeyTaken ==
    ASSUME KeyInv, RequestTypes', NotYetExecuted', NEW q \in Request,
           UNCHANGED <<session, now>>, unstored \subseteq unstored',
           \A r \in Request : r # q => pc'[r] = pc[r] /\ job'[r] = job[r],
           Holding(q)' => /\ Holding(q) /\ End(q)' = End(q)
                          /\ job'[q].key = job[q].key /\ job'[q].seen = job[q].seen,
           \A k \in Key : records'[k] # records[k] =>
               /\ records'[k] = None /\ records[k] # None
               /\ Holding(records[k].id) /\ job[records[k].id].key = k => Late(records[k].id),
           pc'[q] \in Early => pc[q] \in Early,
           pc'[q] = "drop" =>
               LET p == job'[q].stale IN
               /\ p \in Request /\ pc[p] \notin Early
               /\ Holding(p) /\ job[p].key = job'[q].key => Late(p),
           pc'[q] = "refused" /\ Holding(q)' => Late(q)
    PROVE  KeyInv'
<1>1. \A r \in Request : r # q => (Holding(r)' => Holding(r)) /\ End(r)' = End(r)
  BY OthersHold DEF KeyInv
<1>2. \A r \in Request : End(r) \in Nat
  BY DEF KeyInv, RequestTypes, JobType, End
<1>3. \A r \in Request : Holding(r)' =>
               /\ Holding(r) /\ End(r)' >= End(r)
               /\ job'[r].key = job[r].key /\ job'[r].seen = job[r].seen
  BY <1>1, <1>2
<1>4. now' >= now
  BY DEF KeyInv, RequestTypes
<1>5. \A r \in Request : pc'[r] = "drop" =>
               \/ pc[r] = "drop" /\ job'[r].stale = job[r].stale /\ job'[r].key = job[r].key
               \/ LET p == job'[r].stale IN
                  /\ p \in Request /\ pc[p] \notin Early
                  /\ Holding(p) /\ job[p].key = job'[r].key => Late(p)
  OBVIOUS
<1>6. \A r \in Request :
        /\ pc'[r] \in Early => pc[r] \in Early
        /\ pc'[r] = "refused" /\ Holding(r)' => pc[r] = "refused" \/ Late(r)
  OBVIOUS
<1>7. QED
  BY <1>3, <1>4, <1>5, <1>6, ClaimsKept

\* An answer ends the claim of a request that did not commit, and keeps that of
\* one that did.
LEMMA AnswerKeepsKey ==
    ASSUME KeyInv, RequestTypes', NotYetExecuted', NEW q \in Request,
           NEW label \in Answered \ {"idle"}, Answer(q, label), UNCHANGED <<session, unstored, now>>,
           \A k \in Key : records'[k] # records[k] =>
               /\ records'[k] = None /\ records[k] # None
               /\ Holding(records[k].id) /\ job[records[k].id].key = k => Late(records[k].id)
    PROVE  KeyInv'
<1>1. /\ pc'[q] = label
      /\ \A r \in Request : r # q => pc'[r] = pc[r] /\ job'[r] = job[r]
      /\ \/ /\ Executed(q) /\ job[q].key # None
            /\ job'[q].key = job[q].key /\ job'[q].seen = job[q].seen /\ job'[q].at = job[q].at
         \/ job'[q].key = None
  BY AnswerLeaves DEF KeyInv
<1>2. Holding(q)' => /\ Holding(q) /\ End(q)' = End(q)
                     /\ job'[q].key = job[q].key /\ job'[q].seen = job[q].seen
  BY <1>1 DEF Holding, End, Executed
<1>3. pc'[q] \notin Early /\ pc'[q] # "drop" /\ pc'[q] # "refused"
  BY <1>1 DEF Answered, Early
<1>4. QED
  BY <1>1, <1>2, <1>3, NoKeyTaken

LEMMA InterceptKeepsKey ==
    ASSUME KeyInv, NEW q \in Request, intercept(q)
    PROVE  KeyInv'
<1>1. RequestTypes' /\ NotYetExecuted'
  BY InterceptedTypes DEF KeyInv, Intercepted
<1>2. PICK key \in Key \cup {None}, a \in Amounts :
         /\ job' = [job EXCEPT ![q] = [@ EXCEPT !.key = key, !.amount = a, !.seen = now]]
         /\ IF key = None
            THEN Goto(q, "handler") /\ UNCHANGED records
            ELSE Goto(q, "find") /\ purgeExpired
  BY DEF intercept
<1>3. /\ pc[q] = "idle" /\ UNCHANGED <<session, now, unstored>> /\ ~Executed(q)
      /\ pc'[q] = IF key = None THEN "handler" ELSE "find"
      /\ job'[q].key = key
      /\ \A r \in Request : r # q => pc'[r] = pc[r] /\ job'[r] = job[r]
  BY <1>2 DEF intercept, Goto, Handled, spendVars, KeyInv, RequestTypes, JobType, NotYetExecuted, Early
<1>4. ~Holding(q)'
  BY <1>3 DEF Holding, Executed, Inside
<1>5. \A k \in Key : records'[k] # records[k] =>
               /\ records'[k] = None /\ records[k] # None
               /\ Holding(records[k].id) /\ job[records[k].id].key = k => Late(records[k].id)
  <2> SUFFICES ASSUME NEW k \in Key, records'[k] # records[k]
               PROVE  /\ records'[k] = None /\ records[k] # None
                      /\ Holding(records[k].id) /\ job[records[k].id].key = k => Late(records[k].id)
    OBVIOUS
  <2>1. records'[k] = None /\ records[k] # None /\ records[k].expiresAt < now
    BY <1>2 DEF purgeExpired
  <2>2. /\ Holding(records[k].id) /\ job[records[k].id].key = k =>
             records[k].expiresAt = job[records[k].id].seen + Ttl
        /\ records[k].expiresAt \in Nat /\ now \in Nat
    BY <2>1 DEF KeyInv, RowsAreDated, RequestTypes, KeyRecord
  <2>3. QED
    BY <2>1, <2>2 DEF Late
<1>6. (pc'[q] \in Early => pc[q] \in Early) /\ pc'[q] # "drop" /\ pc'[q] # "refused"
  BY <1>3 DEF Early
<1>7. QED
  BY <1>1, <1>3, <1>4, <1>5, <1>6, NoKeyTaken

LEMMA FindKeepsKey ==
    ASSUME KeyInv, SeenBefore, NEW q \in Request, find(q)
    PROVE  KeyInv'
<1>1. RequestTypes' /\ NotYetExecuted'
  BY InterceptedTypes DEF KeyInv, Intercepted
<1>2. /\ pc[q] = "find" /\ UNCHANGED <<session, now, unstored, records>> /\ ~Executed(q)
      /\ job[q].key \in Key /\ job[q] \in JobType
  BY DEF find, keyVars, Handled, spendVars, KeyInv, NotYetExecuted, RequestTypes, Early
<1> DEFINE row == records[job[q].key]
<1>3. CASE Goto(q, "insertKey") /\ UNCHANGED job
  <2>1. /\ pc'[q] = "insertKey" /\ \A r \in Request : r # q => pc'[r] = pc[r] /\ job'[r] = job[r]
    BY <1>3 DEF Goto, KeyInv, RequestTypes
  <2>2. ~Holding(q)'
    BY <1>2, <2>1 DEF Holding, Executed, Inside
  <2>3. pc[q] \in Early
    BY <1>2 DEF Early
  <2>4. QED
    BY <1>1, <1>2, <2>1, <2>2, <2>3, NoKeyTaken
<1>4. CASE /\ row # None /\ row.expiresAt <= job[q].seen /\ Goto(q, "drop")
           /\ job' = [job EXCEPT ![q] = [@ EXCEPT !.stale = row.id]]
  <2>1. /\ pc'[q] = "drop" /\ job'[q].stale = row.id /\ job'[q].key = job[q].key
        /\ \A r \in Request : r # q => pc'[r] = pc[r] /\ job'[r] = job[r]
    BY <1>2, <1>4 DEF Goto, KeyInv, RequestTypes, JobType
  <2>2. ~Holding(q)' /\ pc[q] \in Early
    BY <1>2, <2>1 DEF Holding, Executed, Inside, Early
  <2>3. row \in KeyRecord /\ row.id \in Request /\ row.expiresAt \in Nat /\ job[q].seen \in Nat
    BY <1>2, <1>4 DEF KeyInv, RequestTypes, KeyRecord, JobType
  <2>4. pc[row.id] \notin Early
        /\ (Holding(row.id) /\ job[row.id].key = job[q].key =>
              row.expiresAt = job[row.id].seen + Ttl)
    BY <1>2, <1>4 DEF KeyInv, RowsAreDated
  <2>5. job[q].seen <= now
    BY DEF SeenBefore
  <2>6. Holding(row.id) /\ job[row.id].key = job'[q].key => Late(row.id)
    <3>1. now \in Nat
      BY DEF KeyInv, RequestTypes
    <3>2. QED
      BY <1>4, <2>1, <2>3, <2>4, <2>5, <3>1 DEF Late
  <2>7. QED
    BY <1>1, <1>2, <2>1, <2>2, <2>3, <2>4, <2>6, NoKeyTaken
<1>5. CASE \E label \in Answered \ {"idle"} : Answer(q, label)
  BY <1>1, <1>2, <1>5, AnswerKeepsKey
<1>6. QED
  BY <1>3, <1>4, <1>5 DEF find, Answered

\* The row that is dropped is the expired one that find() saw, or none.
LEMMA DropKeepsKey ==
    ASSUME KeyInv, NEW q \in Request, drop(q)
    PROVE  KeyInv'
<1>1. RequestTypes' /\ NotYetExecuted'
  BY InterceptedTypes DEF KeyInv, Intercepted
<1>2. /\ pc[q] = "drop" /\ UNCHANGED <<session, now, unstored>> /\ ~Executed(q)
      /\ job[q].key \in Key /\ pc'[q] = "insertKey" /\ pc[q] \in Early
      /\ \A r \in Request : r # q => pc'[r] = pc[r] /\ job'[r] = job[r]
  BY DEF drop, Handled, spendVars, Goto, KeyInv, NotYetExecuted, RequestTypes, Early
<1>3. ~Holding(q)'
  BY <1>2 DEF Holding, Executed, Inside
<1>4. \A k \in Key : records'[k] # records[k] =>
         k = job[q].key /\ records'[k] = None /\ records[k] # None /\ records[k].id = job[q].stale
  BY <1>2 DEF drop, KeyInv, RequestTypes
<1>5. \A k \in Key : records'[k] # records[k] =>
               /\ records'[k] = None /\ records[k] # None
               /\ Holding(records[k].id) /\ job[records[k].id].key = k => Late(records[k].id)
  BY <1>2, <1>4 DEF KeyInv, StaleIsLate
<1>6. QED
  BY <1>1, <1>2, <1>3, <1>5, NoKeyTaken

\* The insert finds no row: every earlier holder of the key is late.
LEMMA InsertKeepsKey ==
    ASSUME KeyInv, NEW q \in Request, insertKey(q)
    PROVE  KeyInv'
<1>1. RequestTypes' /\ NotYetExecuted'
  BY InterceptedTypes DEF KeyInv, Intercepted
<1>2. /\ pc[q] = "insertKey" /\ UNCHANGED <<session, now, unstored>> /\ ~Executed(q)
      /\ job[q].key \in Key
  BY DEF insertKey, Handled, spendVars, KeyInv, NotYetExecuted, Early
<1>3. CASE Answer(q, "rejected") /\ UNCHANGED records
  BY <1>1, <1>2, <1>3, AnswerKeepsKey DEF Answered
<1> DEFINE k == job[q].key
           new == [id |-> q, hash |-> job[q].amount, status |-> "in_progress",
                   expiresAt |-> job[q].seen + Ttl]
<1>4. CASE /\ records[k] = None /\ Goto(q, "handler") /\ UNCHANGED job
           /\ records' = [records EXCEPT ![k] = new]
  <2>1. /\ records'[k] = new /\ new.id = q /\ new.expiresAt = job[q].seen + Ttl
        /\ \A c \in Key : c # k => records'[c] = records[c]
        /\ pc'[q] = "handler" /\ \A r \in Request : r # q => pc'[r] = pc[r]
        /\ UNCHANGED job
    BY <1>2, <1>4 DEF KeyInv, RequestTypes, Goto
  <2>2. new # None
    BY <1>2, RequestsAssumption DEF KeyInv, RequestTypes, JobType, KeyRecord
  <2> HIDE DEF new, k
  <2>3. /\ \A r \in Request : r # q => (Holding(r)' <=> Holding(r))
        /\ \A r \in Request : Late(r)' <=> Late(r)
        /\ \A r \in Request : End(r)' = End(r)
    BY <1>2, <2>1 DEF Holding, Late, End, Executed
  <2>4. \A r \in Request : r # q /\ Holding(r) /\ job[r].key = k => Late(r)
    BY <1>4 DEF KeyInv, KeyHeld
  <2>5. k \in Key /\ k = job[q].key /\ End(q) = now /\ pc'[q] \notin Early /\ pc[q] \in Early
    BY <1>2, <2>1 DEF k, End, Early
  <2>6. \A r \in Request : Holding(r) => job[r].key \in Key
    BY DEF KeyInv, RequestTypes, JobType, Holding
  <2>7. KeyHeld'
    BY <2>1, <2>2, <2>3, <2>4, <2>5, <2>6 DEF KeyInv, KeyHeld
  <2>8. RowsAreDated'
    BY <2>1, <2>3, <2>5 DEF KeyInv, RowsAreDated, RequestTypes, KeyRecord
  <2>9. StaleIsLate'
    BY <2>1, <2>3, <2>5 DEF KeyInv, StaleIsLate, Early
  <2>10. RefusedIsLate'
    BY <2>1, <2>3 DEF KeyInv, RefusedIsLate
  <2>11. Apart'
    <3>1. \A r \in Request : r # q /\ Holding(r) /\ job[r].key = k => End(q) >= job[r].seen + Ttl
      BY <2>4, <2>5 DEF Late
    <3>2. QED
      BY <2>1, <2>3, <2>5, <3>1 DEF KeyInv, Apart
  <2>12. QED
    BY <1>1, <2>7, <2>8, <2>9, <2>10, <2>11 DEF KeyInv
<1>5. QED
  BY <1>3, <1>4 DEF insertKey

\* complete() writes the row of its own request, with the old date, or finds that
\* another one has the key.
LEMMA CompleteKeepsKey ==
    ASSUME KeyInv, NEW q \in Request, complete(q)
    PROVE  KeyInv'
<1>1. RequestTypes' /\ NotYetExecuted'
  BY InterceptedTypes DEF KeyInv, Intercepted
<1>2. /\ pc[q] = "ok" /\ UNCHANGED <<session, now, unstored>> /\ job[q] \in JobType
  BY DEF complete, Handled, spendVars, KeyInv, RequestTypes
<1> DEFINE k == job[q].key
           new == [id |-> q, hash |-> job[q].amount, status |-> "completed",
                   expiresAt |-> job[q].seen + Ttl]
<1>3. CASE k = None /\ Answer(q, "done") /\ UNCHANGED records
  BY <1>1, <1>2, <1>3, AnswerKeepsKey DEF Answered
<1>4. CASE /\ k # None /\ records[k] # None /\ records[k].id # q
           /\ Goto(q, "refused") /\ UNCHANGED <<records, job>>
  <2>1. /\ pc'[q] = "refused" /\ \A r \in Request : r # q => pc'[r] = pc[r] /\ job'[r] = job[r]
    BY <1>4 DEF Goto, KeyInv, RequestTypes
  <2>2. Holding(q)' => Holding(q) /\ End(q)' = End(q)
    BY <1>2, <1>4, <2>1 DEF Holding, End, Executed, Inside
  <2>3. Holding(q) => Late(q)
    BY <1>4 DEF KeyInv, KeyHeld
  <2>4. pc'[q] \notin Early /\ pc'[q] # "drop"
    BY <2>1 DEF Early
  <2>5. QED
    BY <1>1, <1>2, <1>4, <2>1, <2>2, <2>3, <2>4, NoKeyTaken
<1>5. CASE /\ k # None /\ (records[k] # None => records[k].id = q)
           /\ Answer(q, "done") /\ records' = [records EXCEPT ![k] = new]
  <2>1. k \in Key
    BY <1>2, <1>5 DEF JobType
  <2>2. /\ pc'[q] = "done"
        /\ \A r \in Request : r # q => pc'[r] = pc[r] /\ job'[r] = job[r]
        /\ \/ /\ Executed(q) /\ job[q].key # None
              /\ job'[q].key = job[q].key /\ job'[q].seen = job[q].seen /\ job'[q].at = job[q].at
           \/ ~(Executed(q) /\ job[q].key # None) /\ job'[q].key = None
    BY <1>5, AnswerLeaves DEF KeyInv, Answered
  <2>3. /\ records'[k] = new /\ new.id = q /\ new.expiresAt = job[q].seen + Ttl
        /\ \A c \in Key : c # k => records'[c] = records[c]
    BY <1>5, <2>1 DEF KeyInv, RequestTypes
  <2>4. new # None
    BY <1>2, RequestsAssumption DEF JobType, KeyRecord
  <2> HIDE DEF new, k
  <2>5. Holding(q)' => /\ Holding(q) /\ End(q)' = End(q) /\ (Late(q)' <=> Late(q))
                       /\ job'[q].key = k /\ job'[q].seen = job[q].seen
    BY <1>2, <2>2 DEF Holding, End, Executed, Late, k
  <2>6. \A r \in Request : r # q =>
           (Holding(r)' <=> Holding(r)) /\ (Late(r)' <=> Late(r)) /\ End(r)' = End(r)
    BY <1>2, <2>2 DEF Holding, End, Executed, Late
  <2>7. \A r \in Request : Holding(r) => job[r].key \in Key
    BY DEF KeyInv, RequestTypes, JobType, Holding
  <2>8. k = job[q].key /\ pc'[q] \notin Early
    BY <2>2 DEF k, Early
  <2>9. KeyHeld'
    BY <1>5, <2>2, <2>3, <2>4, <2>5, <2>6, <2>7, <2>8 DEF KeyInv, KeyHeld
  <2>10. RowsAreDated'
    BY <2>2, <2>3, <2>5, <2>6, <2>8 DEF KeyInv, RowsAreDated, RequestTypes, KeyRecord
  <2>11. StaleIsLate'
    BY <2>2, <2>5, <2>6, <2>8 DEF KeyInv, StaleIsLate
  <2>12. RefusedIsLate'
    BY <2>2, <2>6 DEF KeyInv, RefusedIsLate
  <2>13. Apart'
    BY <2>2, <2>5, <2>6, <2>8 DEF KeyInv, Apart
  <2>14. QED
    BY <1>1, <2>9, <2>10, <2>11, <2>12, <2>13 DEF KeyInv
<1>6. QED
  BY <1>3, <1>4, <1>5 DEF complete

\* A response that could not be stored: the key is excepted from now on.
LEMMA FailKeepsKey ==
    ASSUME KeyInv, NEW q \in Request, completeFails(q)
    PROVE  KeyInv'
<1>1. RequestTypes' /\ NotYetExecuted'
  BY InterceptedTypes DEF KeyInv, Intercepted
<1>2. /\ UNCHANGED <<session, now, records, job>> /\ pc'[q] = "refused"
      /\ unstored' = unstored \cup {job[q].key}
      /\ \A r \in Request : r # q => pc'[r] = pc[r] /\ job'[r] = job[r]
  BY DEF completeFails, Handled, spendVars, Goto, KeyInv, RequestTypes
<1>3. ~Holding(q)' /\ pc'[q] \notin Early /\ pc'[q] # "drop"
  BY <1>2 DEF Holding, Early
<1>4. QED
  BY <1>1, <1>2, <1>3, NoKeyTaken

\* The key is released by a request that did not commit, or is late.
LEMMA ReleaseKeepsKey ==
    ASSUME KeyInv, NEW q \in Request, release(q)
    PROVE  KeyInv'
<1>1. RequestTypes' /\ NotYetExecuted'
  BY InterceptedTypes DEF KeyInv, Intercepted
<1>2. /\ UNCHANGED <<session, now, unstored>> /\ pc[q] = "refused" /\ Answer(q, "rejected")
      /\ \A k \in Key : records'[k] # records[k] =>
           k = job[q].key /\ records'[k] = None /\ records[k] # None /\ records[k].id = q
  BY DEF release, Handled, spendVars, KeyInv, RequestTypes
<1>3. Holding(q) => Late(q)
  BY <1>2 DEF KeyInv, RefusedIsLate
<1>4. QED
  BY <1>1, <1>2, <1>3, AnswerKeepsKey DEF Answered

LEMMA KeyInvInductive ==
    (Init => KeyInv /\ SeenBefore) /\ (KeyInv /\ SeenBefore /\ [Next]_vars => KeyInv' /\ SeenBefore')
<1>1. ASSUME Init PROVE KeyInv /\ SeenBefore
  <2>1. \A q \in Request : pc[q] = "idle" /\ job[q].key = None /\ job[q].seen = 0 /\ ~Executed(q)
    BY <1>1 DEF Init, NoJob, Executed
  <2>2. \A q \in Request : ~Holding(q)
    BY <2>1 DEF Holding
  <2>3. KeyHeld /\ RowsAreDated /\ StaleIsLate /\ RefusedIsLate /\ Apart
    BY <1>1, <2>1, <2>2 DEF KeyHeld, RowsAreDated, StaleIsLate, RefusedIsLate, Apart, Init
  <2>4. QED
    BY <1>1, <2>1, <2>3, RequestTypesInit DEF KeyInv, SeenBefore, Init
<1>2. ASSUME KeyInv, SeenBefore, [Next]_vars PROVE KeyInv' /\ SeenBefore'
  <2>1. RequestTypes' /\ NotYetExecuted'
    BY <1>2, RequestTypesStep DEF KeyInv
  <2>2. now \in Nat /\ \A q \in Request : job[q].seen \in Nat
    BY <1>2 DEF KeyInv, RequestTypes, JobType
  <2>3. CASE \E q \in Request : Intercepted(q)
    <3>1. SeenBefore'
      BY <1>2, <2>2, <2>3, InterceptedEffect DEF KeyInv, SeenBefore
    <3>2. QED
      BY <1>2, <2>3, <3>1, InterceptKeepsKey, FindKeepsKey, DropKeepsKey, InsertKeepsKey,
         CompleteKeepsKey, FailKeepsKey, ReleaseKeepsKey DEF Intercepted
  <2>4. CASE \E q \in Request : Opens(q)
    <3>1. PICK q \in Request : Opens(q)
      BY <2>4
    <3>2. SeenBefore'
      BY <1>2, <2>2, <3>1, OpensEffect DEF KeyInv, SeenBefore
    <3>3. QED
      BY <1>2, <3>1, <3>2, OpensKeepsKey
  <2>5. CASE \E q \in Request : Crash(q)
    <3>1. PICK q \in Request : Crash(q)
      BY <2>5
    <3>2. UNCHANGED <<session, now, records, unstored>> /\ Answer(q, "rejected")
      BY <3>1 DEF Crash, keyVars
    <3>3. SeenBefore'
      BY <1>2, <2>2, <3>2, AnswerLeaves DEF KeyInv, SeenBefore, Answered
    <3>4. QED
      BY <1>2, <2>1, <3>2, <3>3, AnswerKeepsKey DEF Answered
  <2>6. CASE Operator \/ Tick \/ UNCHANGED vars
    <3>1. UNCHANGED <<records, unstored, pc, job>> /\ now' >= now /\ now' \in Nat
      BY <2>2, <2>6 DEF Operator, Tick, vars, spendVars, keyVars, Spend!setLimit, Spend!clearLimit,
         Spend!cancel, Spend!close
    <3>2. \A r \in Request : Executed(r)' <=> Executed(r)
      <4>1. CASE UNCHANGED session
        BY <4>1 DEF Executed
      <4>2. CASE \E p \in Request : Spend!cancel(p) \/ Spend!close(p)
        <5>1. PICK p \in Request : Spend!cancel(p) \/ Spend!close(p)
          BY <4>2
        <5>2. /\ session[p] \in SessionRow /\ session[p] # None
              /\ \E s \in {"cancelled", "revived"} :
                    session' = [session EXCEPT ![p] = [session[p] EXCEPT !.status = s]]
          BY <1>2, <5>1 DEF Spend!cancel, Spend!close, KeyInv, RequestTypes
        <5>3. \A s \in {"cancelled", "revived"} : [session[p] EXCEPT !.status = s] \in SessionRow
          BY <5>2 DEF SessionRow
        <5>4. QED
          BY <1>2, <5>2, <5>3, RequestsAssumption DEF Executed, KeyInv, RequestTypes
      <4>3. QED
        BY <2>6, <4>1, <4>2 DEF Operator, Tick, vars, spendVars, Spend!setLimit, Spend!clearLimit
    <3>3. \A r \in Request : (Holding(r)' <=> Holding(r)) /\ End(r)' >= End(r)
      <4>1. \A r \in Request : job[r].at \in Nat
        BY <1>2 DEF KeyInv, RequestTypes, JobType
      <4>2. QED
        BY <2>2, <3>1, <3>2, <4>1 DEF Holding, End
    <3>4. SeenBefore'
      BY <1>2, <2>2, <3>1 DEF SeenBefore
    <3>5. \A r \in Request : Holding(r)' =>
               /\ Holding(r) /\ End(r)' >= End(r)
               /\ job'[r].key = job[r].key /\ job'[r].seen = job[r].seen
      BY <3>1, <3>3
    <3>6. QED
      BY <1>2, <2>1, <3>1, <3>4, <3>5, ClaimsKept
  <2>7. QED
    BY <1>2, <2>3, <2>4, <2>5, <2>6 DEF Next
<1>3. QED
  BY <1>1, <1>2

\* idempotency.interceptor.ts: a key runs its handler to the end at most once
\* until it expires, for any number of requests, keys and any lifetime of a key,
\* whoever crashes or finds the key expired while its request still runs; only
\* keys whose response could not be stored are excepted.
THEOREM KeyExecutedOnce == Spec => []ExecutedOnce
<1>1. KeyInv => ExecutedOnce
  <2> SUFFICES ASSUME KeyInv, NEW q \in Request, NEW r \in Request,
                      q # r, job[q].key = job[r].key, job[q].key \notin unstored \cup {None},
                      Executed(q), Executed(r)
               PROVE  job[q].at >= job[r].seen + Ttl \/ job[r].at >= job[q].seen + Ttl
    BY DEF ExecutedOnce
  <2>1. Holding(q) /\ Holding(r) /\ End(q) = job[q].at /\ End(r) = job[r].at
    BY DEF Holding, End
  <2>2. QED
    BY <2>1 DEF KeyInv, Apart
<1>2. QED
  BY <1>1, KeyInvInductive, PTL DEF Spec
=============================================================================
