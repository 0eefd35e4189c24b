----------------------------- MODULE MCConsensus -----------------------------
(***************************************************************************)
(* Instances of Consensus for TLC.  The unit of numbers is half of the     *)
(* tolerance.                                                              *)
(***************************************************************************)
EXTENDS Consensus

CONSTANTS
  zero, half, one,   \* JSON numbers in a chain
  quoted,            \* a JSON string that is the number `zero'
  date1, date2,      \* 2024-01-01 and 2024-06-30, the number 2024 to parseFloat
  list,              \* [0], JSON without a number
  infinity,          \* Infinity, no JSON, but a number to parseFloat
  empty

Numbers == {zero, half, one}

Kinds == [o \in Outputs |->
  IF o \in Numbers THEN "number"
  ELSE IF o = quoted THEN "string"
  ELSE IF o = list THEN "other"
  ELSE "not JSON"]

Values == [o \in Outputs |->
  CASE o \in {zero, quoted} -> 0
    [] o = half -> 1
    [] o = one -> 2
    [] o \in {date1, date2} -> 2024
    [] o = infinity -> Infinite
    [] OTHER -> NoNumber]
=============================================================================
