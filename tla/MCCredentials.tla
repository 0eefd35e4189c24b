---------------------------- MODULE MCCredentials ----------------------------
(***************************************************************************)
(* Instances of Credentials for TLC.                                       *)
(***************************************************************************)
EXTENDS Credentials, TLC

CONSTANTS u1, u2, u3, k1, k2, n1, n2, c1, c2, r1, r2

Symmetry == Permutations(Providers) \union Permutations(Keys) \union Permutations(Nodes)
              \union Permutations(Codes) \union Permutations(Requests)
=============================================================================
