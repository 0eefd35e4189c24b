------------------------------ MODULE MCSessions ------------------------------
(***************************************************************************)
(* Instances of Sessions for TLC.                                          *)
(***************************************************************************)
EXTENDS Sessions, TLC

CONSTANTS e1, a1, a2, r1, r2, r3

Symmetry == Permutations(Requests) \union Permutations(Addresses)
=============================================================================
