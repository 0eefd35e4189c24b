-------------------------------- MODULE MCRows --------------------------------
(***************************************************************************)
(* Instances of Rows for TLC.                                              *)
(***************************************************************************)
EXTENDS Rows, TLC

CONSTANTS t1, t2, n1

Symmetry == Permutations(Tasks) \union Permutations(Nodes)
=============================================================================
