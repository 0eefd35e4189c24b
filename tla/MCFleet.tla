------------------------------- MODULE MCFleet -------------------------------
(***************************************************************************)
(* Instances of Fleet for TLC.                                             *)
(***************************************************************************)
EXTENDS Fleet

CONSTANTS n1, n2, s1, s2, c1, c2
=============================================================================
