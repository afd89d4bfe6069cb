---------------------------- MODULE MCSettlement ----------------------------
(***************************************************************************)
(* Settlement for TLC.  Retry loops are named after their instance.        *)
(***************************************************************************)
EXTENDS Settlement

CONSTANTS l1, l2, a1, a2, i1, i2   \* loops, API requests, instances

\* Loop and requests of instance i1, and a second instance i2 with its loop.
MCHome == [w \in Worker |-> IF w = l2 THEN i2 ELSE i1]
=============================================================================
