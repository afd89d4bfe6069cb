---------------------------- MODULE PaymentLedger ----------------------------
(***************************************************************************)
(* What the settlement service promises to whoever submits a batch, with   *)
(* nothing of how: a settlement is paid at most once; its fee is booked    *)
(* once, after the payment; it is recorded as settled after the payment    *)
(* and for good; and it is announced after it was recorded, at most once.  *)
(* That a settled one is announced is no part of the promise.              *)
(***************************************************************************)
EXTENDS Naturals

CONSTANT Row   \* settlement ids

VARIABLES
    payment,    \* "none", "moving" (the chain may still pay it) or "paid"
    booked,     \* fee entries
    recorded,   \* the row says settled
    announced   \* settlement.settled events

vars == <<payment, booked, recorded, announced>>

Init ==
    /\ payment = [r \in Row |-> "none"]
    /\ booked = [r \in Row |-> 0]
    /\ recorded = [r \in Row |-> FALSE]
    /\ announced = [r \in Row |-> 0]

\* A payment goes out only while none is on its way or done.  It may come to
\* nothing, and then it may be sent anew.
Moves(r, from, to) ==
    /\ payment[r] = from
    /\ payment' = [payment EXCEPT ![r] = to]
    /\ UNCHANGED <<booked, recorded, announced>>

BookFee(r) ==
    /\ payment[r] = "paid" /\ booked[r] = 0
    /\ booked' = [booked EXCEPT ![r] = 1]
    /\ UNCHANGED <<payment, recorded, announced>>

Record(r) ==
    /\ payment[r] = "paid" /\ ~recorded[r]
    /\ recorded' = [recorded EXCEPT ![r] = TRUE]
    /\ UNCHANGED <<payment, booked, announced>>

Announce(r) ==
    /\ recorded[r] /\ announced[r] = 0
    /\ announced' = [announced EXCEPT ![r] = 1]
    /\ UNCHANGED <<payment, booked, recorded>>

Next ==
    \E r \in Row :
        \/ Moves(r, "none", "moving")
        \/ Moves(r, "moving", "none")
        \/ Moves(r, "moving", "paid")
        \/ BookFee(r)
        \/ Record(r)
        \/ Announce(r)

Spec == Init /\ [][Next]_vars
=============================================================================
