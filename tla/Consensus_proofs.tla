--------------------------- MODULE Consensus_proofs ---------------------------
(***************************************************************************)
(* Theorems about module Consensus, for any number of clones, any majority *)
(* of more than half of them, and any outputs.                             *)
(***************************************************************************)
EXTENDS Consensus, FiniteSetTheorems, WellFoundedInduction, TLAPS

(* The engine has decided on a full set of results. *)
DecidedInv ==
  /\ status = "CLONED" => paid = {} /\ slashed = {}
  /\ status # "CLONED" =>
       /\ Len(results) = ClonesPerTask
       /\ paid = MajorityEntries
       /\ status = IF paid # {} THEN "COMPLETED" ELSE "FAILED"
       /\ slashed = IF paid # {} THEN Arrived \ paid ELSE {}

IInv == TypeOK /\ DecidedInv

-----------------------------------------------------------------------------
(* Lemmas on positions and their numbers *)

LEMMA EarliestIn ==
  ASSUME NEW S \in SUBSET Nat, S # {} PROVE Earliest(S) \in S
<1>1. \E i \in S : \A j \in S : ~(<<j, i>> \in OpToRel(<, Nat))
  BY NatLessThanWellFounded, WFMin, Zenon
<1>2. PICK i \in S : \A j \in S : ~(<<j, i>> \in OpToRel(<, Nat))
  BY <1>1
<1>3. ASSUME NEW j \in S PROVE ~(j < i)
  <2>1. i \in Nat /\ j \in Nat
    OBVIOUS
  <2>2. QED
    BY <1>2, <2>1, Zenon DEF OpToRel
<1>4. \A j \in S : i <= j
  BY <1>3
<1>5. QED
  BY <1>4 DEF Earliest

LEMMA EnoughGrows ==
  ASSUME TypeOK, NEW S, NEW T, S \subseteq T, T \subseteq Arrived, Enough(S)
  PROVE  Enough(T) /\ S # {}
<1>1. IsFiniteSet(Arrived)
  BY FS_Interval DEF TypeOK, Arrived
<1>2. IsFiniteSet(T) /\ IsFiniteSet(S)
  BY <1>1, FS_Subset
<1>3. Cardinality(S) <= Cardinality(T) /\ Cardinality(S) \in Nat /\ Cardinality(T) \in Nat
  BY <1>2, FS_Subset, FS_CardinalityType
<1>4. Cardinality({}) = 0
  BY FS_EmptySet
<1>5. Cardinality(S) >= ConsensusMajority /\ ConsensusMajority > 0
  BY MajorityAssumption DEF Enough
<1>6. S # {}
  BY <1>4, <1>5, MajorityAssumption
<1>7. QED
  BY <1>3, <1>5, <1>6, MajorityAssumption DEF Enough

LEMMA OutputsAre ==
  ASSUME TypeOK, NEW i \in Arrived PROVE Out(i) \in Outputs
  BY DEF TypeOK, Arrived, Out

(* Two sets of enough results have one in common. *)
LEMMA MajoritiesMeet ==
  ASSUME TypeOK, NEW S, NEW T, S \subseteq Arrived, T \subseteq Arrived, Enough(S), Enough(T)
  PROVE  S \intersect T # {}
<1>1. IsFiniteSet(Arrived) /\ Cardinality(Arrived) = Len(results)
  <2>1. Len(results) \in Nat /\ Len(results) \in Int /\ 1 \in Int
    BY DEF TypeOK
  <2>2. IsFiniteSet(1 .. Len(results))
        /\ Cardinality(1 .. Len(results)) = IF 1 > Len(results) THEN 0 ELSE Len(results) - 1 + 1
    BY <2>1, FS_Interval, Zenon
  <2>3. QED
    BY <2>1, <2>2 DEF Arrived
<1>2. IsFiniteSet(S) /\ IsFiniteSet(T)
  BY <1>1, FS_Subset
<1>3. Cardinality(S \union T) = Cardinality(S) + Cardinality(T) - Cardinality(S \intersect T)
  BY <1>2, FS_Union
<1>4. Cardinality(S \union T) <= Len(results)
  BY <1>1, FS_Subset
<1>5. /\ Cardinality(S) \in Nat /\ Cardinality(T) \in Nat
      /\ Cardinality(S) >= ConsensusMajority /\ Cardinality(T) >= ConsensusMajority
  BY <1>2, FS_CardinalityType DEF Enough
<1>6. Cardinality(S \intersect T) # 0
  BY <1>3, <1>4, <1>5, MajorityAssumption DEF TypeOK
<1>7. QED
  BY <1>6, FS_EmptySet

(* What agrees with a number is what is close to it, and with anything     *)
(* else what equals it.                                                    *)
LEMMA MatchesAre ==
  ASSUME TypeOK, NEW i \in Arrived
  PROVE  /\ HashGroup(i) \subseteq Matches(i) /\ Matches(i) \subseteq Arrived
         /\ NumVal(Out(i)) \in Int => Matches(i) = FuzzyMatches(i) /\ i \in ValidNumbers
         /\ NumVal(Out(i)) \notin Int => Matches(i) = HashGroup(i) /\ FuzzyMatches(i) = {}
<1>1. HashGroup(i) \subseteq Matches(i) /\ Matches(i) \subseteq Arrived
  BY DEF HashGroup, Matches, Agrees
<1>2. ASSUME NumVal(Out(i)) \in Int
      PROVE  Matches(i) = FuzzyMatches(i) /\ i \in ValidNumbers
  <2>1. Close(Out(i), Out(i))
    BY <1>2, MajorityAssumption DEF Close
  <2>2. \A j \in Arrived : NumVal(Out(j)) \in Int => j \in ValidNumbers
    BY OutputAssumption DEF ValidNumbers
  <2>3. \A j \in Arrived : Agrees(Out(j), Out(i)) => j \in ValidNumbers /\ Close(Out(j), Out(i))
    BY <2>1, <2>2 DEF Agrees, Close
  <2>4. QED
    BY <1>2, <2>2, <2>3 DEF Matches, FuzzyMatches, ValidNumbers, Agrees
<1>3. ASSUME NumVal(Out(i)) \notin Int
      PROVE  Matches(i) = HashGroup(i) /\ FuzzyMatches(i) = {}
  BY <1>3 DEF Matches, HashGroup, FuzzyMatches, Agrees, Close
<1>4. QED
  BY <1>1, <1>2, <1>3

LEMMA AgreesSymmetric == \A o, p \in Outputs : Agrees(o, p) => Agrees(p, o)
  BY DEF Agrees, Close

-----------------------------------------------------------------------------
(* The engine's choice is one of the majorities, if there is any. *)
LEMMA Choice ==
  ASSUME TypeOK
  PROVE  /\ MajorityEntries # {} => MajorityEntries \in Majorities
         /\ MajorityEntries = {} => Majorities = {}
<1>0. Arrived \subseteq Nat /\ ValidNumbers \subseteq Arrived
      /\ Targets \subseteq ValidNumbers /\ HashTargets \subseteq Arrived
  BY DEF TypeOK, Arrived, ValidNumbers, Targets, HashTargets
<1>1. \A i \in Targets : NumVal(Out(i)) \in Int
  <2>1. ASSUME NEW i \in Targets PROVE NumVal(Out(i)) \in Int
    <3>1. FuzzyMatches(i) # {}
      <4>1. Enough(FuzzyMatches(i)) /\ FuzzyMatches(i) \subseteq Arrived
        BY <1>0 DEF Targets, FuzzyMatches
      <4>2. QED
        BY <4>1, EnoughGrows
    <3>2. QED
      BY <3>1 DEF FuzzyMatches, Close
  <2>2. QED
    BY <2>1
<1>2. CASE Targets # {}
  <2> DEFINE i == Earliest(Targets)
  <2>1. i \in Targets /\ i \in Arrived
    BY <1>0, <1>2, EarliestIn
  <2>2. MajorityEntries = FuzzyMatches(i)
    BY <1>2 DEF MajorityEntries
  <2> HIDE DEF i
  <2>3. FuzzyMatches(i) = Matches(i) /\ Enough(FuzzyMatches(i))
    BY <1>1, <2>1, MatchesAre DEF Targets
  <2>4. Matches(i) # {}
    BY <2>1, <2>3, EnoughGrows, MatchesAre
  <2>5. QED
    BY <2>1, <2>2, <2>3, <2>4 DEF Majorities
<1>3. CASE Targets = {} /\ HashTargets # {}
  <2> DEFINE i == Earliest(HashTargets)
  <2>1. i \in HashTargets /\ i \in Arrived
    BY <1>0, <1>3, EarliestIn
  <2>2. MajorityEntries = HashGroup(i)
    BY <1>3 DEF MajorityEntries
  <2> HIDE DEF i
  <2>3. Enough(HashGroup(i))
    BY <2>1 DEF HashTargets
  <2>4. Enough(Matches(i)) /\ HashGroup(i) # {}
    BY <2>1, <2>3, EnoughGrows, MatchesAre
  <2>5. NumVal(Out(i)) \notin Int
    BY <1>3, <2>1, <2>4, MatchesAre DEF Targets
  <2>6. HashGroup(i) = Matches(i)
    BY <2>1, <2>5, MatchesAre
  <2>7. QED
    BY <2>1, <2>2, <2>4, <2>6 DEF Majorities
<1>4. CASE Targets = {} /\ HashTargets = {}
  <2>1. MajorityEntries = {}
    BY <1>4 DEF MajorityEntries
  <2>2. ASSUME NEW i \in Arrived PROVE ~Enough(Matches(i))
    BY <1>4, MatchesAre DEF Targets, HashTargets
  <2>3. QED
    BY <2>1, <2>2 DEF Majorities
<1>5. QED
  BY <1>2, <1>3, <1>4

(* What has been decided, in terms of agreement: the results that agree    *)
(* with one of them are paid, or no result has enough that agree with it.  *)
LEMMA PaidAgree ==
  ASSUME IInv, status # "CLONED"
  PROVE  \/ paid = {} /\ slashed = {} /\ \A i \in Arrived : ~Enough(Matches(i))
         \/ /\ slashed = Arrived \ paid
            /\ \E d \in Arrived : paid = Matches(d) /\ Enough(Matches(d))
<1>1. CASE paid = {}
  BY <1>1, Choice DEF IInv, DecidedInv, Majorities
<1>2. CASE paid # {}
  BY <1>2, Choice DEF IInv, DecidedInv, Majorities
<1>3. QED
  BY <1>1, <1>2

-----------------------------------------------------------------------------
LEMMA InitIInv == Init => IInv
  BY MajorityAssumption DEF Init, IInv, TypeOK, DecidedInv, Arrived

LEMMA EntriesArrived == TypeOK => MajorityEntries \subseteq Arrived
<1> SUFFICES ASSUME TypeOK PROVE MajorityEntries \subseteq Arrived
  OBVIOUS
<1>1. QED
  BY DEF MajorityEntries, FuzzyMatches, HashGroup, ValidNumbers

LEMMA NextIInv == IInv /\ [Next]_vars => IInv'
<1> SUFFICES ASSUME IInv, [Next]_vars PROVE IInv'
  OBVIOUS
<1>0. TypeOK /\ DecidedInv
  BY DEF IInv
<1>1. ASSUME NEW o \in Outputs, Report(o) PROVE IInv'
  <2>1. status = "CLONED" /\ paid = {} /\ slashed = {}
    BY <1>0, <1>1 DEF Report, DecidedInv
  <2>2. results' \in Seq(Outputs) /\ Len(results') <= ClonesPerTask
    BY <1>0, <1>1, MajorityAssumption DEF Report, TypeOK
  <2>3. QED
    BY <1>1, <2>1, <2>2 DEF Report, IInv, TypeOK, DecidedInv
<1>2. ASSUME RunConsensus PROVE IInv'
  <2>1. UNCHANGED results /\ paid' = MajorityEntries /\ slashed = {}
    BY <1>0, <1>2 DEF RunConsensus, DecidedInv
  <2>2. Arrived' = Arrived /\ MajorityEntries' = MajorityEntries
    BY <2>1 DEF Arrived, MajorityEntries, Targets, HashTargets, FuzzyMatches, HashGroup,
                ValidNumbers, Out
  <2>3. MajorityEntries \subseteq Arrived
    BY <1>0, EntriesArrived
  <2>4. QED
    BY <1>0, <1>2, <2>1, <2>2, <2>3 DEF RunConsensus, IInv, TypeOK, DecidedInv
<1>3. ASSUME UNCHANGED vars PROVE IInv'
  <2>1. Arrived' = Arrived /\ MajorityEntries' = MajorityEntries
    BY <1>3 DEF vars, Arrived, MajorityEntries, Targets, HashTargets, FuzzyMatches, HashGroup,
                ValidNumbers, Out
  <2>2. QED
    BY <1>0, <1>3, <2>1 DEF vars, IInv, TypeOK, DecidedInv
<1>4. QED
  BY <1>1, <1>2, <1>3 DEF Next

(* Whatever arrives, the majority and the dissenters are results of the    *)
(* task, and no result is both.                                            *)
THEOREM TypeCorrect == Spec => []TypeOK
<1>1. IInv => TypeOK
  BY DEF IInv
<1>2. QED
  BY <1>1, InitIInv, NextIInv, PTL DEF Spec

(* The choice among several majorities is one that module Orchestrator     *)
(* leaves open, and a task fails only without a majority.                  *)
THEOREM ChoiceAlwaysAllowed == Spec => []ChoiceAllowed
<1>1. IInv => ChoiceAllowed
  BY Choice DEF IInv, DecidedInv, ChoiceAllowed
<1>2. QED
  BY <1>1, InitIInv, NextIInv, PTL DEF Spec

(* The preference for close numbers never turns against a majority of      *)
(* equal hashes.                                                           *)
THEOREM HashMajorityAlwaysPaid == Spec => []HashMajorityPaid
<1>1. IInv => HashMajorityPaid
  <2> SUFFICES ASSUME IInv, status # "CLONED", HashTargets # {} PROVE QueryMajority \subseteq paid
    BY DEF HashMajorityPaid, QueryMajority
  <2> DEFINE h == Earliest(HashTargets)
  <2>1. h \in HashTargets /\ h \in Arrived
    BY EarliestIn DEF IInv, TypeOK, HashTargets, Arrived
  <2>2. QueryMajority = HashGroup(h)
    BY DEF QueryMajority
  <2> HIDE DEF h
  <2>3. Enough(HashGroup(h)) /\ HashGroup(h) \subseteq Arrived /\ Enough(Matches(h))
    BY <2>1, EnoughGrows, MatchesAre DEF HashTargets, HashGroup, IInv
  <2>4. PICK d \in Arrived : paid = Matches(d) /\ Enough(Matches(d))
    BY <2>1, <2>3, PaidAgree
  <2>5. PICK k \in HashGroup(h) : k \in Matches(d)
    BY <2>3, <2>4, MajoritiesMeet, MatchesAre DEF IInv
  <2>6. QED
    BY <2>2, <2>4, <2>5 DEF HashGroup, Matches
<1>2. QED
  BY <1>1, InitIInv, NextIInv, PTL DEF Spec

(* Without a chain of close numbers the order of arrival does not matter.  *)
THEOREM OrderNeverMatters == Spec => []OrderIrrelevant
<1>1. IInv => OrderIrrelevant
  <2> SUFFICES ASSUME IInv, status # "CLONED", NoChain
               PROVE  paid = {i \in Arrived : Enough(Matches(i))}
    BY DEF OrderIrrelevant
  <2>1. \A i \in Arrived : Out(i) \in Outputs
    BY OutputsAre DEF IInv
  <2>2. CASE paid = {} /\ \A i \in Arrived : ~Enough(Matches(i))
    BY <2>2
  <2>3. ASSUME NEW d \in Arrived, paid = Matches(d), Enough(Matches(d))
        PROVE  paid = {i \in Arrived : Enough(Matches(i))}
    <3>1. ASSUME NEW i \in Matches(d) PROVE Enough(Matches(i))
      <4>1. i \in Arrived /\ Agrees(Out(i), Out(d)) /\ Agrees(Out(d), Out(i))
        BY <2>1, AgreesSymmetric DEF Matches
      <4>2. Matches(d) \subseteq Matches(i)
        BY <4>1 DEF Matches, NoChain
      <4>3. QED
        BY <2>3, <4>1, <4>2, EnoughGrows, MatchesAre DEF IInv
    <3>2. ASSUME NEW i \in Arrived, Enough(Matches(i)) PROVE i \in Matches(d)
      <4>1. PICK k \in Matches(i) : k \in Matches(d)
        BY <2>3, <3>2, MajoritiesMeet, MatchesAre DEF IInv
      <4>2. Agrees(Out(k), Out(d)) /\ Agrees(Out(i), Out(k)) /\ k \in Arrived
        BY <2>1, <4>1, AgreesSymmetric DEF Matches
      <4>3. QED
        BY <4>2 DEF Matches, NoChain
    <3>3. Matches(d) \subseteq Arrived
      BY DEF Matches
    <3>4. QED
      BY <2>3, <3>1, <3>2, <3>3
  <2>4. QED
    BY <2>2, <2>3, PaidAgree
<1>2. QED
  BY <1>1, InitIInv, NextIInv, PTL DEF Spec

(* A result that all the others agree with is never slashed. *)
THEOREM MiddleAlwaysPaid == Spec => []MiddleIsPaid
<1>1. IInv => MiddleIsPaid
  <2> SUFFICES ASSUME IInv, NEW i \in slashed, Matches(i) = Arrived PROVE FALSE
    BY DEF MiddleIsPaid
  <2>1. status # "CLONED" /\ \A j \in Arrived : Out(j) \in Outputs
    BY OutputsAre DEF IInv, DecidedInv
  <2>2. PICK d \in Arrived : slashed = Arrived \ paid /\ paid = Matches(d)
    BY <2>1, PaidAgree
  <2>3. Agrees(Out(d), Out(i)) /\ i \in Arrived
    BY <2>2 DEF Matches
  <2>4. QED
    BY <2>1, <2>2, <2>3, AgreesSymmetric DEF Matches
<1>2. QED
  BY <1>1, InitIInv, NextIInv, PTL DEF Spec
=============================================================================
