------------------------------ MODULE MCPayments ------------------------------
(***************************************************************************)
(* Instances of Payments for TLC.                                          *)
(***************************************************************************)
EXTENDS Payments, TLC

CONSTANTS t1, n1, n2, n3

Symmetry == Permutations(Nodes)
=============================================================================
