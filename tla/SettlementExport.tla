-------------------------- MODULE SettlementExport --------------------------
(***************************************************************************)
(* The settlement export (settlement-export.service.ts): a client walks    *)
(* the settlements page by page with a cursor over (createdAt, id) while   *)
(* settlements are created and change their status.                        *)
(*                                                                         *)
(* createdAt is the time the inserting transaction began; the row is       *)
(* visible from its commit on.  Time is in microseconds and ids are        *)
(* numbers, ordered like the database orders them.                         *)
(***************************************************************************)
EXTENDS Integers, FiniteSets

CONSTANTS
    MaxId,      \* settlement ids are 1..MaxId
    MaxStamp,   \* createdAt is in 0..MaxStamp
    Queries,    \* the filters of an export: [status, from, to]
    Limit,      \* rows of a page
    AnyStatus   \* no filter on the status

ASSUME ExportAssumption ==
    /\ MaxId \in Nat /\ MaxStamp \in Nat /\ Limit \in Nat \ {0}
    /\ \A q \in Queries : q.from \in Nat /\ q.to \in Nat

VARIABLES
    stamp,     \* the time
    settlement,       \* settlements: status ("none", "begun" or a status), createdAt
    export,    \* the client: filters, cursor, how often it got each row and the header
    steady     \* the rows that matched in every page read so far

exportVars == <<stamp, settlement, export, steady>>

Id == 1..MaxId

FirstCursor == [at |-> -1, id |-> 0]

ExportInit ==
    /\ stamp = 0
    /\ settlement = [i \in Id |-> [status |-> "none", createdAt |-> 0]]
    /\ \E q \in Queries :
         export = [query |-> q, cursor |-> FirstCursor, got |-> [i \in Id |-> 0],
                   headers |-> 0, over |-> FALSE]
    /\ steady = Id

----------------------------------------------------------------------------
(* The settlements                                                         *)

tick ==
    /\ stamp < MaxStamp /\ stamp' = stamp + 1
    /\ UNCHANGED <<settlement, export, steady>>

Becomes(i, from, to) ==
    /\ settlement[i].status = from
    /\ settlement' = [settlement EXCEPT ![i].status = to]
    /\ UNCHANGED <<stamp, export, steady>>

\* submit(): the inserting transaction begins, and commits.
beginInsert(i) ==
    /\ settlement[i].status = "none"
    /\ settlement' = [settlement EXCEPT ![i] = [status |-> "begun", createdAt |-> stamp]]
    /\ UNCHANGED <<stamp, export, steady>>

commitInsert(i) == Becomes(i, "begun", "pending")

\* The settlement service ends a settlement.
ends(i) == Becomes(i, "pending", "settled") \/ Becomes(i, "pending", "failed")

----------------------------------------------------------------------------
(* The export                                                              *)

\* The WHERE of exportPage(), but for the cursor.
Matches(i) ==
    LET q == export.query IN
    /\ settlement[i].status \notin {"none", "begun"}
    /\ q.status \in {AnyStatus, settlement[i].status}
    /\ settlement[i].createdAt >= q.from /\ settlement[i].createdAt < q.to

\* ORDER BY createdAt, id
Key(i) == [at |-> settlement[i].createdAt, id |-> i]

After(key, other) ==
    key.at > other.at \/ (key.at = other.at /\ key.id > other.id)

\* Mutant: rows are compared by createdAt alone.
PastCursorTime(i) == Key(i).at > export.cursor.at

\* (createdAt, id) > (cursorAt, cursorId)
PastCursor(i) == After(Key(i), export.cursor)

\* encodeCursor() and decodeCursor(): the timestamp goes out as text with its
\* microseconds and comes back as it was.
encodeCursor(key) == [t |-> <<key.at \div 2, key.at % 2>>, id |-> key.id]

decodeCursor(text) == [at |-> 2 * text.t[1] + text.t[2], id |-> text.id]

\* The first n of the rows s, in the order of the export.
FirstOf(n, s) == {i \in s : Cardinality({j \in s : After(Key(i), Key(j))}) < n}

LastOf(s) == CHOOSE i \in s : \A j \in s : i = j \/ After(Key(i), Key(j))

\* One row more than the page is read, to see whether there is a next page.
exportPage ==
    /\ ~export.over
    /\ LET rows == FirstOf(Limit + 1, {i \in Id : Matches(i) /\ PastCursor(i)})
           page == FirstOf(Limit, rows)
           more == Cardinality(rows) > Limit
       IN  export' = [export EXCEPT
             !.got = [i \in Id |-> IF i \in page THEN @[i] + 1 ELSE @[i]],
             !.headers = IF export.cursor = FirstCursor THEN @ + 1 ELSE @,
             !.over = ~more,
             !.cursor = IF more THEN decodeCursor(encodeCursor(Key(LastOf(page)))) ELSE @]
    /\ steady' = {i \in steady : Matches(i)}
    /\ UNCHANGED <<stamp, settlement>>

----------------------------------------------------------------------------

ExportNext ==
    \/ tick \/ exportPage
    \/ \E i \in Id : beginInsert(i) \/ commitInsert(i) \/ ends(i)

ExportSpec == ExportInit /\ [][ExportNext]_exportVars

----------------------------------------------------------------------------
\* An export is complete and free of doubles although the table moves under
\* it: no row comes twice, the file has one header, and every row that matched
\* in all of its pages is in it.
ExportComplete ==
    /\ \A i \in Id : export.got[i] <= 1
    /\ export.headers <= 1
    /\ export.over => (\A i \in steady : export.got[i] = 1) /\ export.headers = 1
============================================================================
