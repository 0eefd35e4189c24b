------------------------------ MODULE Consensus ------------------------------
(***************************************************************************)
(* The decision of the consensus engine on the results of one task.        *)
(*                                                                         *)
(* Module Orchestrator says when the results are counted and read, and     *)
(* leaves open which of several majorities is accepted.  Here the results  *)
(* stand in the order in which they arrived, which is the order of the     *)
(* store's Map, and the choice is the one the code makes: numbers that are *)
(* close first, equal hashes after that.                                   *)
(*                                                                         *)
(* An output is what the two comparisons see of its bytes: its hash, which *)
(* is the output itself, and the number that is read from it.              *)
(***************************************************************************)
EXTENDS Integers, Sequences, FiniteSets

CONSTANTS
  Outputs,
  Empty,              \* the output of no bytes
  Json,               \* what JSON.parse makes of each output
  Prefix,             \* the number parseFloat finds at its beginning
  NoNumber, Infinite, \* parseFloat gave NaN; Infinity
  Tolerance,          \* 0.00001 in the unit of Prefix
  ClonesPerTask, ConsensusMajority

ASSUME OutputAssumption ==
  /\ Empty \in Outputs
  /\ Json \in [Outputs -> {"number", "string", "other", "not JSON"}]
  /\ Prefix \in [Outputs -> Int \union {NoNumber, Infinite}]
  /\ NoNumber \notin Int /\ Infinite \notin Int /\ NoNumber # Infinite
  /\ Prefix[Empty] = NoNumber
  /\ \A o \in Outputs : Json[o] = "number" => Prefix[o] # NoNumber

ASSUME MajorityAssumption ==
  /\ Tolerance \in Nat \ {0}
  /\ ClonesPerTask \in Nat /\ ConsensusMajority \in Nat
  /\ 2 * ConsensusMajority > ClonesPerTask

VARIABLES
  results,   \* the outputs in TaskState.results, in order of arrival
  status,    \* of the task: it is CLONED, or the engine decided
  paid,      \* majorityNodeIds, as positions in results
  slashed    \* dissenterNodeIds

vars == <<results, status, paid, slashed>>

Arrived == 1 .. Len(results)

TypeOK ==
  /\ results \in Seq(Outputs) /\ Len(results) <= ClonesPerTask
  /\ status \in {"CLONED", "COMPLETED", "FAILED"}
  /\ paid \subseteq Arrived /\ slashed \subseteq Arrived
  /\ paid \intersect slashed = {}

Init ==
  /\ results = <<>>
  /\ status = "CLONED"
  /\ paid = {} /\ slashed = {}

-----------------------------------------------------------------------------
(* The choice *)

(* numVal: a number, or a string or other text that starts with one; true, *)
(* null, objects and arrays are parsed and have none.                      *)
NumVal(o) == IF Json[o] = "other" THEN NoNumber ELSE Prefix[o]

Out(i) == results[i]

ValidNumbers == {i \in Arrived : NumVal(Out(i)) # NoNumber}

(* Infinity minus Infinity is NaN, and so not below the tolerance. *)
Close(o, p) ==
  /\ NumVal(o) \in Int /\ NumVal(p) \in Int
  /\ NumVal(o) - NumVal(p) < Tolerance /\ NumVal(p) - NumVal(o) < Tolerance

(* Mutant: a result is not compared with itself. *)
OtherMatches(i) == {j \in ValidNumbers \ {i} : Close(Out(j), Out(i))}

(* The entries with the hash of i, and the numbers close to i's *)
HashGroup(i) == {j \in Arrived : Out(j) = Out(i)}
FuzzyMatches(i) == {j \in ValidNumbers : Close(Out(j), Out(i))}

Enough(S) == Cardinality(S) >= ConsensusMajority
Earliest(S) == CHOOSE i \in S : \A j \in S : i <= j

Targets == {i \in ValidNumbers : Enough(FuzzyMatches(i))}
HashTargets == {i \in Arrived : Enough(HashGroup(i))}

(* Mutant: hashes are only compared where there are not enough numbers. *)
NumbersOnly ==
  IF Enough(ValidNumbers)
  THEN IF Targets # {} THEN FuzzyMatches(Earliest(Targets)) ELSE {}
  ELSE IF HashTargets # {} THEN HashGroup(Earliest(HashTargets)) ELSE {}

(* Mutant: hashes are compared first. *)
HashFirst ==
  CASE HashTargets # {} -> HashGroup(Earliest(HashTargets))
    [] HashTargets = {} /\ Targets # {} -> FuzzyMatches(Earliest(Targets))
    [] OTHER -> {}

(* Mutant: a majority of the numbers, not of the clones, is enough. *)
MostNumbers ==
  LET most == {i \in ValidNumbers : 2 * Cardinality(FuzzyMatches(i)) > Cardinality(ValidNumbers)}
  IN  CASE most # {} -> FuzzyMatches(Earliest(most))
        [] most = {} /\ HashTargets # {} -> HashGroup(Earliest(HashTargets))
        [] OTHER -> {}

(* The first number that enough numbers are close to, itself among them,   *)
(* decides; failing that the first hash that enough results have.          *)
MajorityEntries ==
  CASE Targets # {} -> FuzzyMatches(Earliest(Targets))
    [] Targets = {} /\ HashTargets # {} -> HashGroup(Earliest(HashTargets))
    [] OTHER -> {}

-----------------------------------------------------------------------------
(* A node reports a clone.  A failed execution is reported with no output  *)
(* and its hash, and the status it carries is not read.  No clone is       *)
(* reported twice (Orchestrator).                                          *)
Report(o) ==
  /\ Len(results) < ClonesPerTask
  /\ results' = Append(results, o)
  /\ UNCHANGED <<status, paid, slashed>>

(* runConsensus: whoever is not in the majority dissents, and without a    *)
(* majority nobody is paid or slashed.                                     *)
RunConsensus ==
  /\ status = "CLONED"
  /\ Len(results) = ClonesPerTask
  /\ paid' = MajorityEntries
  /\ IF MajorityEntries # {}
     THEN status' = "COMPLETED" /\ slashed' = Arrived \ MajorityEntries
     ELSE status' = "FAILED" /\ UNCHANGED slashed
  /\ UNCHANGED results

Next == RunConsensus \/ \E o \in Outputs : Report(o)

Spec == Init /\ [][Next]_vars

-----------------------------------------------------------------------------
(* What the decision is measured against *)

(* The relation `Agree' of module Orchestrator, and its majorities *)
Agrees(o, p) == o = p \/ Close(o, p)
Matches(i) == {j \in Arrived : Agrees(Out(j), Out(i))}
Majorities == {M \in {Matches(i) : i \in Arrived} : Enough(M)}

(* processConsensus of database/queries.ts, which nobody calls: the first  *)
(* hash that two results have, when three are there                        *)
QueryMajority ==
  IF HashTargets # {} THEN HashGroup(Earliest(HashTargets)) ELSE {}

(* The engine makes a choice that module Orchestrator allows: what it pays *)
(* are all the results that agree with one of them, enough of them, and it *)
(* fails only where there is no such majority (engine.ts:145, 162).        *)
ChoiceAllowed ==
  /\ status = "COMPLETED" => paid \in Majorities
  /\ status = "FAILED" => Majorities = {}

(* No node is slashed that the comparison of hashes in the database would  *)
(* have paid, although close numbers are looked for first, under another   *)
(* hash, and infinite ones match nothing there (queries.ts:378).           *)
HashMajorityPaid == status # "CLONED" => QueryMajority \subseteq paid

(* The order of arrival decides nothing unless outputs form a chain: then  *)
(* exactly those are paid that enough results agree with.                  *)
NoChain == \A i, j, k \in Arrived :
  Agrees(Out(i), Out(j)) /\ Agrees(Out(j), Out(k)) => Agrees(Out(i), Out(k))

OrderIrrelevant ==
  status # "CLONED" /\ NoChain => paid = {i \in Arrived : Enough(Matches(i))}

(* In a chain the order decides which end is slashed, but never against a  *)
(* result all others agree with.                                           *)
MiddleIsPaid ==
  \A i \in slashed : Matches(i) # Arrived

=============================================================================
