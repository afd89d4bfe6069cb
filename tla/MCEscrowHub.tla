---------------------------- MODULE MCEscrowHub ----------------------------
(***************************************************************************)
(* EscrowHub for TLC: two interchangeable sessions, amounts whose fee is   *)
(* rounded down (150 * 50 bps is 0.75 wei, 300 * 50 bps is 1.5 wei).       *)
(***************************************************************************)
EXTENDS EscrowHub, TLC

Symmetry == Permutations(Escrow)
=============================================================================
