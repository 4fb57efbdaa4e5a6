----------------------------- MODULE MCPayouts ------------------------------
(***************************************************************************)
(* Instances of Payouts for TLC.                                           *)
(***************************************************************************)
EXTENDS Payouts, TLC

Symmetry == Permutations(Requests) \cup Permutations(Utrs)
=============================================================================
