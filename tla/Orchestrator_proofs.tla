------------------------- MODULE Orchestrator_proofs -------------------------
(***************************************************************************)
(* Theorems about module Orchestrator, for any number of tasks, nodes,     *)
(* tiers, outputs and copies, and any depth of the queues.                 *)
(*                                                                         *)
(* The first part is about the operators of module TierQueue: for every    *)
(* queue, the type of the queue an operation returns, which clones it      *)
(* holds, and that it holds a clone at most once.                          *)
(***************************************************************************)
EXTENDS Orchestrator, SequenceTheorems, FiniteSetTheorems, WellFoundedInduction, TLAPS

-----------------------------------------------------------------------------
(* Filter is a recursive function over the prefixes of its sequence.  The  *)
(* induction that shows it well defined, and every fact about it, is the   *)
(* choice of a least counterexample.                                       *)

LEMMA LeastNatural ==
  ASSUME NEW T, T \subseteq Nat, T # {}
  PROVE  \E x \in T : \A y \in T : x <= y
<1>1. PICK x \in T : \A y \in T : ~(<<y, x>> \in OpToRel(<, Nat))
  BY NatLessThanWellFounded, WFMin, Zenon
<1>2. \A y \in T : ~(y < x)
  <2> TAKE y \in T
  <2>1. y \in Nat /\ x \in Nat
    OBVIOUS
  <2>2. QED
    BY <1>1, <2>1, Zenon DEF OpToRel
<1>3. QED
  BY <1>2

(* One step of the recursion, from the table of the shorter prefixes *)
FilterStep(s, Keep, g, k) ==
  IF k = 0 THEN << >>
  ELSE IF s[k] \in Keep THEN Append(g[k - 1], s[k]) ELSE g[k - 1]

IsFilterTable(s, Keep, g, m) == g = [k \in 0..m |-> FilterStep(s, Keep, g, k)]

LEMMA FilterTableExists ==
  ASSUME NEW S, NEW s \in Seq(S), NEW Keep, NEW m \in Nat
  PROVE  \E g : IsFilterTable(s, Keep, g, m)
<1> DEFINE Bad == {k \in Nat : ~ \E g : IsFilterTable(s, Keep, g, k)}
<1>1. SUFFICES ASSUME Bad # {} PROVE FALSE
  OBVIOUS
<1>2. PICK k \in Bad : \A j \in Bad : k <= j
  <2>1. Bad \subseteq Nat
    OBVIOUS
  <2> HIDE DEF Bad
  <2>2. QED
    BY <1>1, <2>1, LeastNatural
<1>3. k # 0
  <2>1. IsFilterTable(s, Keep, [i \in 0..0 |-> << >>], 0)
    BY DEF IsFilterTable, FilterStep
  <2>2. QED
    BY <2>1
<1>4. k - 1 \in Nat /\ k - 1 \notin Bad
  BY <1>2, <1>3
<1>5. PICK g : IsFilterTable(s, Keep, g, k - 1)
  BY <1>4
<1> DEFINE h == [i \in 0..k |-> IF i < k THEN g[i] ELSE FilterStep(s, Keep, g, k)]
<1>6. ASSUME NEW i \in 0..k PROVE h[i] = FilterStep(s, Keep, h, i)
  <2>1. CASE i = k
    BY <2>1, <1>3 DEF FilterStep
  <2>2. CASE i < k
    <3>1. g[i] = FilterStep(s, Keep, g, i)
      BY <1>5, <2>2 DEF IsFilterTable
    <3>2. QED
      BY <3>1, <2>2 DEF FilterStep
  <2>3. QED
    BY <2>1, <2>2
<1>7. IsFilterTable(s, Keep, h, k)
  BY <1>6 DEF IsFilterTable
<1>8. QED
  BY <1>7

LEMMA FilterUnfolds ==
  ASSUME NEW S, NEW s \in Seq(S), NEW Keep
  PROVE  \E g : IsFilterTable(s, Keep, g, Len(s)) /\ Filter(s, Keep) = g[Len(s)]
<1> DEFINE f == CHOOSE f : f = [k \in 0..Len(s) |->
                  IF k = 0 THEN << >>
                  ELSE IF s[k] \in Keep THEN Append(f[k - 1], s[k])
                  ELSE f[k - 1]]
<1>1. PICK g : g = [k \in 0..Len(s) |->
                  IF k = 0 THEN << >>
                  ELSE IF s[k] \in Keep THEN Append(g[k - 1], s[k])
                  ELSE g[k - 1]]
  <2>1. \E g : IsFilterTable(s, Keep, g, Len(s))
    BY FilterTableExists
  <2>2. QED
    BY <2>1, Zenon DEF IsFilterTable, FilterStep
<1>2. f = [k \in 0..Len(s) |->
             IF k = 0 THEN << >>
             ELSE IF s[k] \in Keep THEN Append(f[k - 1], s[k])
             ELSE f[k - 1]]
  BY <1>1, Zenon
<1>3. Filter(s, Keep) = f[Len(s)]
  BY Zenon DEF Filter
<1>4. IsFilterTable(s, Keep, f, Len(s))
  BY <1>2, Zenon DEF IsFilterTable, FilterStep
<1>5. QED
  BY <1>3, <1>4

LEMMA AppendFacts ==
  ASSUME NEW S, NEW q \in Seq(S), NEW x \in S
  PROVE  /\ Append(q, x) \in Seq(S)
         /\ \A y : Contains(Append(q, x), y) <=> Contains(q, y) \/ y = x
         /\ IsInjective(q) /\ ~Contains(q, x) => IsInjective(Append(q, x))
<1>1. /\ Append(q, x) \in Seq(S)
      /\ Len(Append(q, x)) = Len(q) + 1
      /\ \A i \in 1..Len(q) : Append(q, x)[i] = q[i]
      /\ Append(q, x)[Len(q) + 1] = x
  OBVIOUS
<1>2. ASSUME NEW y PROVE Contains(Append(q, x), y) <=> Contains(q, y) \/ y = x
  BY <1>1 DEF Contains
<1>3. ASSUME IsInjective(q), ~Contains(q, x) PROVE IsInjective(Append(q, x))
  BY <1>1, <1>3 DEF IsInjective, Contains
<1>4. QED
  BY <1>1, <1>2, <1>3

(* Filter keeps the type, keeps what is wanted and was there and nothing   *)
(* else, and duplicates nothing.                                           *)
LEMMA FilterFacts ==
  ASSUME NEW S, NEW s \in Seq(S), NEW Keep
  PROVE  /\ Filter(s, Keep) \in Seq(S)
         /\ \A x : Contains(Filter(s, Keep), x) <=> x \in Keep /\ Contains(s, x)
         /\ IsInjective(s) => IsInjective(Filter(s, Keep))
<1>1. PICK g : IsFilterTable(s, Keep, g, Len(s)) /\ Filter(s, Keep) = g[Len(s)]
  BY FilterUnfolds
<1> DEFINE Good(k) ==
      /\ g[k] \in Seq(S)
      /\ \A x : Contains(g[k], x) <=> x \in Keep /\ \E j \in 1..k : s[j] = x
      /\ IsInjective(s) => IsInjective(g[k])
<1> DEFINE Bad == {k \in 0..Len(s) : ~Good(k)}
<1>2. \A k \in 0..Len(s) : g[k] = FilterStep(s, Keep, g, k)
  BY <1>1 DEF IsFilterTable
<1> HIDE DEF Good
<1>3. Bad = {}
  <2>1. SUFFICES ASSUME Bad # {} PROVE FALSE
    OBVIOUS
  <2>2. PICK k \in Bad : \A j \in Bad : k <= j
    <3>1. Bad \subseteq Nat
      OBVIOUS
    <3> HIDE DEF Bad
    <3>2. QED
      BY <2>1, <3>1, LeastNatural
  <2>3. k # 0
    <3>1. g[0] = << >>
      <4>1. Len(s) \in Nat
        OBVIOUS
      <4>2. 0 \in 0..Len(s)
        BY <4>1
      <4>3. g[0] = FilterStep(s, Keep, g, 0)
        BY <1>2, <4>2, Zenon
      <4>4. QED
        BY <4>3, Zenon DEF FilterStep
    <3>2. Good(0)
      BY <3>1 DEF Contains, IsInjective, Good
    <3>3. QED
      BY <3>2, <2>2
  <2>4. k \in 1..Len(s) /\ k - 1 \in 0..Len(s) /\ Good(k - 1)
    BY <2>2, <2>3
  <2>5. CASE s[k] \in Keep
    <3>1. g[k] = Append(g[k - 1], s[k]) /\ s[k] \in S
      <4>1. s[k] \in S
        BY <2>4, ElementOfSeq
      <4>2. k \in 0..Len(s) /\ k # 0
        BY <2>4, <2>3
      <4>3. g[k] = FilterStep(s, Keep, g, k)
        BY <1>2, <4>2
      <4>4. QED
        BY <4>1, <4>2, <4>3, <2>5, Zenon DEF FilterStep
    <3>2. IsInjective(s) => ~Contains(g[k - 1], s[k])
      <4>1. ASSUME IsInjective(s), NEW j \in 1..(k - 1) PROVE s[j] # s[k]
        BY <4>1, <2>4 DEF IsInjective
      <4>2. QED
        BY <4>1, <2>4 DEF Good
    <3>3. Good(k)
      <4>1. /\ Append(g[k - 1], s[k]) \in Seq(S)
            /\ \A y : Contains(Append(g[k - 1], s[k]), y)
                       <=> Contains(g[k - 1], y) \/ y = s[k]
            /\ IsInjective(g[k - 1]) /\ ~Contains(g[k - 1], s[k])
                 => IsInjective(Append(g[k - 1], s[k]))
        BY <2>4, <3>1, AppendFacts DEF Good
      <4>2. QED
        BY <3>1, <3>2, <4>1, <2>4, <2>5 DEF Good
    <3>4. QED
      BY <3>3, <2>2
  <2>6. CASE s[k] \notin Keep
    <3>1. g[k] = g[k - 1]
      BY <1>2, <2>4, <2>6 DEF FilterStep
    <3>2. \A x : x \in Keep /\ (\E j \in 1..k : s[j] = x)
                  <=> x \in Keep /\ \E j \in 1..(k - 1) : s[j] = x
      BY <2>4, <2>6
    <3>4. Good(k)
      BY <3>1, <3>2, <2>4, Zenon DEF Good
    <3>5. QED
      BY <3>4, <2>2
  <2>7. QED
    BY <2>5, <2>6
<1>4. Good(Len(s))
  BY <1>3
<1>5. QED
  BY <1>1, <1>4 DEF Contains, Good
-----------------------------------------------------------------------------
(* The clones, and the operations of the queue *)

LEMMA ClonesFacts ==
  /\ \A t \in Tasks : \A i \in 1..ClonesPerTask : <<t, i>> \in ClonesOf(t)
  /\ \A t \in Tasks : ClonesOf(t) \subseteq Clones
  /\ \A t \in Tasks : \A c \in ClonesOf(t) : TaskOf(c) = t
  /\ \A c \in Clones : TaskOf(c) \in Tasks /\ c \in ClonesOf(TaskOf(c))
  BY DEF ClonesOf, Clones, TaskOf

LEMMA ClonesFinite ==
  ASSUME NEW S \in SUBSET Clones
  PROVE  IsFiniteSet(S) /\ Cardinality(S) \in Nat
<1>1. IsFiniteSet(1..ClonesPerTask)
  BY FS_Interval, ClonesAssumption
<1>2. IsFiniteSet(Clones)
  BY <1>1, TasksAssumption, FS_Product DEF Clones
<1>3. QED
  BY <1>2, FS_Subset, FS_CardinalityType

(* Concatenation without repetition *)
LEMMA ConcatFacts ==
  ASSUME NEW S, NEW p \in Seq(S), NEW q \in Seq(S)
  PROVE  /\ p \o q \in Seq(S)
         /\ \A x : Contains(p \o q, x) <=> Contains(p, x) \/ Contains(q, x)
         /\ IsInjective(p) /\ IsInjective(q)
              /\ (\A x : ~(Contains(p, x) /\ Contains(q, x)))
            => IsInjective(p \o q)
<1> DEFINE r == p \o q
<1>1. /\ r \in Seq(S)
      /\ Len(r) = Len(p) + Len(q)
      /\ \A i \in 1..Len(p) + Len(q) :
           r[i] = IF i <= Len(p) THEN p[i] ELSE q[i - Len(p)]
  BY ConcatProperties
<1>2. Len(p) \in Nat /\ Len(q) \in Nat
  OBVIOUS
<1> HIDE DEF r
<1>3. ASSUME NEW x PROVE Contains(r, x) <=> Contains(p, x) \/ Contains(q, x)
  <2>1. ASSUME Contains(r, x) PROVE Contains(p, x) \/ Contains(q, x)
    BY <1>1, <1>2, <2>1 DEF Contains
  <2>2. ASSUME Contains(p, x) PROVE Contains(r, x)
    BY <1>1, <1>2, <2>2 DEF Contains
  <2>3. ASSUME Contains(q, x) PROVE Contains(r, x)
    <3>1. PICK i \in 1..Len(q) : q[i] = x
      BY <2>3 DEF Contains
    <3>2. i + Len(p) \in 1..Len(r) /\ r[i + Len(p)] = x
      BY <1>1, <1>2, <3>1
    <3>3. QED
      BY <3>2 DEF Contains
  <2>4. QED
    BY <2>1, <2>2, <2>3
<1>4. ASSUME IsInjective(p), IsInjective(q),
             \A x : ~(Contains(p, x) /\ Contains(q, x))
      PROVE  IsInjective(r)
  <2>1. SUFFICES ASSUME NEW i \in 1..Len(r), NEW j \in 1..Len(r), r[i] = r[j], i < j
                 PROVE  FALSE
    BY <1>1 DEF IsInjective
  <2>2. CASE j <= Len(p)
    BY <1>1, <1>2, <1>4, <2>1, <2>2 DEF IsInjective
  <2>3. CASE i > Len(p)
    <3>1. i - Len(p) \in 1..Len(q) /\ j - Len(p) \in 1..Len(q)
          /\ q[i - Len(p)] = q[j - Len(p)]
      BY <1>1, <1>2, <2>1, <2>3
    <3>2. QED
      BY <1>4, <2>1, <3>1, <1>2 DEF IsInjective
  <2>4. CASE i <= Len(p) /\ j > Len(p)
    <3>1. i \in 1..Len(p) /\ j - Len(p) \in 1..Len(q) /\ p[i] = q[j - Len(p)]
      BY <1>1, <1>2, <2>1, <2>4
    <3>2. QED
      BY <1>4, <3>1 DEF Contains
  <2>5. QED
    BY <2>2, <2>3, <2>4, <1>1, <1>2
<1>5. QED
  BY <1>1, <1>3, <1>4 DEF r

(* A submission adds clones of its own task only, and all of them when     *)
(* there is room.                                                          *)
LEMMA EnqueueClonesFacts ==
  ASSUME NEW q \in Seq(Clones), NEW t \in Tasks
  PROVE  LET r == EnqueueClones(q, t)
         IN  /\ r \in Seq(Clones)
             /\ \A c : Contains(q, c) => Contains(r, c)
             /\ \A c : Contains(r, c) => Contains(q, c) \/ c \in ClonesOf(t)
             /\ Len(q) + ClonesPerTask <= MaxDepth
                  => \A c \in ClonesOf(t) : Contains(r, c)
             /\ IsInjective(q) /\ (\A c \in ClonesOf(t) : ~Contains(q, c))
                  => IsInjective(r)
<1> DEFINE room  == IF IsFull(q) THEN 0 ELSE MaxDepth - Len(q)
           taken == IF room < ClonesPerTask THEN room ELSE ClonesPerTask
           new   == [i \in 1..taken |-> <<t, i>>]
<1>1. taken \in Nat /\ taken <= ClonesPerTask
  BY MaxDepthAssumption, ClonesAssumption DEF IsFull
<1>2. EnqueueClones(q, t) = q \o new
  BY DEF EnqueueClones
<1>0. Len(q) + ClonesPerTask <= MaxDepth => taken = ClonesPerTask
  BY MaxDepthAssumption, ClonesAssumption DEF IsFull
<1> HIDE DEF room, taken
<1>3. \A i \in 1..taken : <<t, i>> \in ClonesOf(t) /\ <<t, i>> \in Clones
  BY <1>1, ClonesFacts, ClonesAssumption
<1>4. new \in Seq(Clones) /\ Len(new) = taken
  BY <1>1, <1>3
<1>5. \A c : Contains(new, c) => c \in ClonesOf(t)
  BY <1>3, <1>4 DEF Contains
<1>6. IsInjective(new)
  BY DEF IsInjective
<1>7. taken = ClonesPerTask => \A c \in ClonesOf(t) : Contains(new, c)
  <2>1. ASSUME taken = ClonesPerTask, NEW c \in ClonesOf(t) PROVE Contains(new, c)
    <3>1. PICK i \in 1..ClonesPerTask : c = <<t, i>>
      BY DEF ClonesOf
    <3>2. i \in 1..taken /\ new[i] = c
      BY <2>1, <3>1
    <3>3. QED
      BY <1>4, <3>2 DEF Contains
  <2>2. QED
    BY <2>1
<1> HIDE DEF new
<1>8. QED
  BY <1>0, <1>2, <1>4, <1>5, <1>6, <1>7, ConcatFacts

(* Evicted clones put at the front, all of them when there is room *)
LEMMA PriorityQueuesFacts ==
  ASSUME NEW q \in Seq(Clones), NEW S \in SUBSET Clones,
         NEW r \in PriorityQueues(q, S)
  PROVE  /\ r \in Seq(Clones)
         /\ \A c : Contains(q, c) => Contains(r, c)
         /\ \A c : Contains(r, c) => Contains(q, c) \/ c \in S
         /\ Len(q) + Cardinality(S) <= MaxDepth => \A c \in S : Contains(r, c)
         /\ IsInjective(q) /\ (\A c \in S : ~Contains(q, c)) => IsInjective(r)
<1> DEFINE room == IF IsFull(q) THEN 0 ELSE MaxDepth - Len(q)
           size == Cardinality(S)
           fit  == IF room < size THEN room ELSE size
<1>1. fit \in Nat
  BY MaxDepthAssumption, ClonesFinite DEF IsFull
<1>2. PICK R \in SUBSET S :
        Cardinality(R) = fit /\ \E f \in Bijection(1..fit, R) : r = f \o q
  BY DEF PriorityQueues
<1>3. PICK front \in Bijection(1..fit, R) : r = front \o q
  BY <1>2
<1>0. Len(q) + Cardinality(S) <= MaxDepth => fit = Cardinality(S)
  <2>1. Len(q) \in Nat /\ Cardinality(S) \in Nat
    BY ClonesFinite
  <2>2. QED
    BY <2>1, MaxDepthAssumption DEF IsFull
<1> HIDE DEF room, size, fit
<1>4. front \in [1..fit -> Clones] /\ IsInjective(front)
      /\ \A i \in 1..fit : front[i] \in S
  BY <1>3 DEF Bijection, Injection
<1>5. front \in Seq(Clones) /\ DOMAIN front = 1..fit /\ Len(front) = fit
  BY <1>1, <1>4
<1>6. \A c : Contains(front, c) => c \in S
  BY <1>4, <1>5 DEF Contains
<1>7. \A c \in R : Contains(front, c)
  BY <1>3, <1>5 DEF Contains, Bijection, Surjection
<1>8. fit = Cardinality(S) => R = S
  BY <1>2, ClonesFinite, FS_Subset
<1>9. QED
  BY <1>0, <1>3, <1>4, <1>5, <1>6, <1>7, <1>8, ConcatFacts

LEMMA EnqueuePriorityFacts ==
  ASSUME NEW q \in Seq(Clones), NEW c \in Clones
  PROVE  LET r == EnqueuePriority(q, c)
         IN  /\ r \in Seq(Clones)
             /\ \A d : Contains(q, d) => Contains(r, d)
             /\ \A d : Contains(r, d) => Contains(q, d) \/ d = c
             /\ Len(q) < MaxDepth => Contains(r, c)
             /\ IsInjective(q) /\ ~Contains(q, c) => IsInjective(r)
<1>1. CASE IsFull(q)
  BY <1>1, MaxDepthAssumption DEF EnqueuePriority, IsFull
<1>2. CASE ~IsFull(q)
  <2>1. /\ <<c>> \in Seq(Clones) /\ IsInjective(<<c>>)
        /\ \A d : Contains(<<c>>, d) <=> d = c
    BY DEF IsInjective, Contains
  <2>2. EnqueuePriority(q, c) = <<c>> \o q
    BY <1>2 DEF EnqueuePriority
  <2>3. /\ <<c>> \o q \in Seq(Clones)
        /\ \A d : Contains(<<c>> \o q, d) <=> Contains(<<c>>, d) \/ Contains(q, d)
        /\ IsInjective(q) /\ (\A d : ~(Contains(<<c>>, d) /\ Contains(q, d)))
             => IsInjective(<<c>> \o q)
    BY <2>1, ConcatFacts
  <2>4. QED
    BY <2>1, <2>2, <2>3
<1>3. QED
  BY <1>1, <1>2

(* The clone stolen from position i leaves the queue. *)
LEMMA RemoveAtFacts ==
  ASSUME NEW q \in Seq(Clones), NEW i \in DOMAIN q
  PROVE  LET r == RemoveAt(q, i)
         IN  /\ r \in Seq(Clones)
             /\ \A c : Contains(r, c) => Contains(q, c)
             /\ \A c : Contains(q, c) /\ c # q[i] => Contains(r, c)
             /\ IsInjective(q) => IsInjective(r) /\ ~Contains(r, q[i])
<1> DEFINE p == SubSeq(q, 1, i - 1)
           s == SubSeq(q, i + 1, Len(q))
<1>1. i \in 1..Len(q) /\ Len(q) \in Nat
  OBVIOUS
<1>2. /\ p \in Seq(Clones)
      /\ Len(p) = i - 1
      /\ \A j \in 1..(i - 1) : p[j] = q[j]
  BY <1>1, SubSeqProperties
<1>3. /\ s \in Seq(Clones)
      /\ Len(s) = Len(q) - i
      /\ \A j \in 1..(Len(q) - i) : s[j] = q[j + i]
  BY <1>1, SubSeqProperties
<1> HIDE DEF p, s
<1>4. \A c : Contains(p, c) <=> \E j \in 1..(i - 1) : q[j] = c
  BY <1>2 DEF Contains
<1>5. \A c : Contains(s, c) <=> \E j \in (i + 1)..Len(q) : q[j] = c
  <2>1. ASSUME NEW c, NEW j \in 1..Len(s), s[j] = c
        PROVE  j + i \in (i + 1)..Len(q) /\ q[j + i] = c
    BY <1>1, <1>3, <2>1
  <2>2. ASSUME NEW c, NEW j \in (i + 1)..Len(q), q[j] = c
        PROVE  j - i \in 1..Len(s) /\ s[j - i] = c
    BY <1>1, <1>3, <2>2
  <2>3. QED
    BY <2>1, <2>2 DEF Contains
<1>6. RemoveAt(q, i) = p \o s
  BY DEF RemoveAt, p, s
<1>7. \A c : Contains(p, c) \/ Contains(s, c) => Contains(q, c)
  <2>1. ASSUME NEW c, Contains(p, c) PROVE Contains(q, c)
    BY <1>1, <1>4, <2>1 DEF Contains
  <2>2. ASSUME NEW c, Contains(s, c) PROVE Contains(q, c)
    BY <1>1, <1>5, <2>2 DEF Contains
  <2>3. QED
    BY <2>1, <2>2
<1>8. ASSUME IsInjective(q)
      PROVE  /\ IsInjective(p) /\ IsInjective(s)
             /\ \A c : ~(Contains(p, c) /\ Contains(s, c))
             /\ ~Contains(p, q[i]) /\ ~Contains(s, q[i])
  <2>1. \A j, k \in 1..Len(q) : q[j] = q[k] => j = k
    BY <1>8 DEF IsInjective
  <2>2. IsInjective(p)
    BY <1>1, <1>2, <2>1 DEF IsInjective
  <2>3. IsInjective(s)
    <3>1. ASSUME NEW j \in 1..Len(s), NEW k \in 1..Len(s), s[j] = s[k] PROVE j = k
      <4>1. j + i \in 1..Len(q) /\ k + i \in 1..Len(q) /\ q[j + i] = q[k + i]
        BY <1>1, <1>3, <3>1
      <4>2. QED
        BY <2>1, <4>1, <1>1
    <3>2. QED
      BY <3>1, <1>3 DEF IsInjective
  <2>4. QED
    BY <1>1, <1>4, <1>5, <2>1, <2>2, <2>3
<1>9. ASSUME NEW c, Contains(q, c), c # q[i] PROVE Contains(p, c) \/ Contains(s, c)
  <2>1. PICK j \in 1..Len(q) : q[j] = c
    BY <1>9 DEF Contains
  <2>2. j \in 1..(i - 1) \/ j \in (i + 1)..Len(q)
    BY <1>1, <1>9, <2>1
  <2>3. QED
    BY <1>4, <1>5, <2>1, <2>2
<1>10. QED
  BY <1>2, <1>3, <1>6, <1>7, <1>8, <1>9, ConcatFacts

(* A breached task has no clone left in the queue. *)
LEMMA RemoveByTaskIdFacts ==
  ASSUME NEW q \in Seq(Clones), NEW t \in Tasks
  PROVE  LET r == RemoveByTaskId(q, t)
         IN  /\ r \in Seq(Clones)
             /\ \A c \in Clones : Contains(r, c) <=> Contains(q, c) /\ c \notin ClonesOf(t)
             /\ \A c : Contains(r, c) => Contains(q, c) /\ c \notin ClonesOf(t)
             /\ IsInjective(q) => IsInjective(r)
  BY FilterFacts DEF RemoveByTaskId

-----------------------------------------------------------------------------
(* The family map: each operation gives a family map again, and changes    *)
(* the recorded nodes of its own families only.                            *)

LEMMA InitFamilyFacts ==
  ASSUME NEW fm, IsFamilyMap(fm), NEW t \in Tasks
  PROVE  /\ IsFamilyMap(InitFamily(fm, t))
         /\ \A u : FamilyNodes(InitFamily(fm, t), u) = FamilyNodes(fm, u)
  BY DEF IsFamilyMap, InitFamily, SetFamily, FamilyNodes

LEMMA RecordThiefFacts ==
  ASSUME NEW fm, IsFamilyMap(fm), NEW t \in Tasks, NEW n \in Nodes
  PROVE  /\ IsFamilyMap(RecordThief(fm, t, n))
         /\ \A u : FamilyNodes(RecordThief(fm, t, n), u)
                    = IF u = t THEN FamilyNodes(fm, t) \union {n} ELSE FamilyNodes(fm, u)
  BY DEF IsFamilyMap, RecordThief, SetFamily, FamilyNodes

LEMMA ReleaseAntiAffinityFacts ==
  ASSUME NEW fm, IsFamilyMap(fm), NEW T, NEW n \in Nodes
  PROVE  /\ IsFamilyMap(ReleaseAntiAffinity(fm, T, n))
         /\ \A u : FamilyNodes(ReleaseAntiAffinity(fm, T, n), u)
                    = IF u \in T THEN FamilyNodes(fm, u) \ {n} ELSE FamilyNodes(fm, u)
  BY DEF IsFamilyMap, ReleaseAntiAffinity, FamilyNodes

LEMMA CleanupFamilyFacts ==
  ASSUME NEW fm, IsFamilyMap(fm), NEW t \in Tasks
  PROVE  /\ IsFamilyMap(CleanupFamily(fm, t))
         /\ \A u : FamilyNodes(CleanupFamily(fm, t), u)
                    = IF u = t THEN {} ELSE FamilyNodes(fm, u)
  BY DEF IsFamilyMap, CleanupFamily, FamilyNodes

-----------------------------------------------------------------------------
(* Types *)

LEMMA ReportFacts ==
  /\ NoReport \notin Reports
  /\ \A r \in Reports : r.node \in Nodes
  /\ \A n \in Nodes, v \in Values : [node |-> n, value |-> v] \in Reports
  BY UndefinedAssumption DEF Reports

LEMMA InitTypeOK == Init => TypeOK
<1> SUFFICES ASSUME Init PROVE TypeOK
  OBVIOUS
<1>1. IsFamilyMap(familyNodeMap)
  BY DEF Init, IsFamilyMap
<1>2. queue \in [Tiers -> Seq(Clones)]
  BY DEF Init
<1>3. payouts \in [Tasks -> [Nodes -> Nat]] /\ slashes \in [Tasks -> [Nodes -> Nat]]
  BY DEF Init
<1>4. QED
  BY <1>1, <1>2, <1>3 DEF Init, TypeOK, Statuses

LEMMA AddResultTypes ==
  ASSUME TypeOK, NEW c \in Clones, NEW r \in Reports, AddResult(c, r)
  PROVE  /\ results' \in [Clones -> Reports \union {NoReport}]
         /\ consensus' \in [Clones -> {"idle", "recording", "paying", "closing"}]
<1>1. results' = [results EXCEPT ![c] = r] \/ results' = results
  BY Zenon DEF AddResult
<1>2. consensus' = [consensus EXCEPT ![c] = "recording"] \/ consensus' = consensus
  BY Zenon DEF AddResult
<1>3. results' \in [Clones -> Reports \union {NoReport}]
  <2>1. CASE results' = [results EXCEPT ![c] = r]
    BY <2>1 DEF TypeOK
  <2>2. CASE results' = results
    BY <2>2 DEF TypeOK
  <2>3. QED
    BY <1>1, <2>1, <2>2
<1>4. consensus' \in [Clones -> {"idle", "recording", "paying", "closing"}]
  <2>1. CASE consensus' = [consensus EXCEPT ![c] = "recording"]
    BY <2>1 DEF TypeOK
  <2>2. CASE consensus' = consensus
    BY <2>2 DEF TypeOK
  <2>3. QED
    BY <1>2, <2>1, <2>2
<1>5. QED
  BY <1>3, <1>4

(* What the close of one connection does to the types                      *)
LEMMA CloseConnectionTypes ==
  ASSUME TypeOK, NEW n \in Nodes, NEW S \in SUBSET Clones, CloseConnection(n, S)
  PROVE  /\ nodeIpMap' = nodeIpMap \ {n}
         /\ queue' \in [Tiers -> Seq(Clones)]
         /\ assignedNodes' \in [Clones -> Nodes \union {NoNode}]
         /\ results' \in [Clones -> Reports \union {NoReport}]
         /\ IsFamilyMap(familyNodeMap')
         /\ activeClones' \in [Nodes -> SUBSET Clones]
         /\ executing' \in [Nodes -> SUBSET Clones]
<1> DEFINE R == Requeueable(n, S)
<1>1. R \in SUBSET Clones
  BY DEF Requeueable
<1>2. NodeTier[n] \in Tiers
  BY TierAssumption
<1>3. PICK q \in PriorityQueues(queue[NodeTier[n]], R) :
        queue' = [queue EXCEPT ![NodeTier[n]] = q]
  BY DEF CloseConnection
<1>4. q \in Seq(Clones)
  <2>1. queue[NodeTier[n]] \in Seq(Clones)
    BY <1>2 DEF TypeOK
  <2>2. QED
    BY <1>1, <1>3, <2>1, PriorityQueuesFacts
<1>5. queue' \in [Tiers -> Seq(Clones)]
  BY <1>2, <1>3, <1>4 DEF TypeOK
<1>6. /\ assignedNodes' \in [Clones -> Nodes \union {NoNode}]
      /\ results' \in [Clones -> Reports \union {NoReport}]
      /\ IsFamilyMap(familyNodeMap')
  BY ReleaseAntiAffinityFacts DEF CloseConnection, Unassign, TypeOK
<1>7. /\ nodeIpMap' = nodeIpMap \ {n}
      /\ activeClones' \in [Nodes -> SUBSET Clones]
      /\ executing' \in [Nodes -> SUBSET Clones]
  BY DEF CloseConnection, TypeOK
<1>8. QED
  BY <1>5, <1>6, <1>7

LEMMA DropCloneTypes ==
  ASSUME TypeOK, NEW n \in Nodes, NEW c \in Clones, DropClone(n, c)
  PROVE  /\ activeClones' \in [Nodes -> SUBSET Clones]
         /\ stale' \in [Nodes -> SUBSET Clones]
         /\ executing' \in [Nodes -> SUBSET Clones]
  BY DEF DropClone, TypeOK

LEMMA RestartTypes ==
  ASSUME TypeOK, Restart
  PROVE  TypeOK'
<1>1. IsFamilyMap(familyNodeMap')
  BY DEF Restart, IsFamilyMap
<1>2. queue' \in [Tiers -> Seq(Clones)]
  BY DEF Restart
<1>3. status' \in [Tasks -> Statuses]
  BY DEF Restart, TypeOK, Statuses
<1>4. QED
  BY <1>1, <1>2, <1>3 DEF Restart, TypeOK, moneyVars

LEMMA NextTypeOK == TypeOK /\ [Next]_vars => TypeOK'
<1> SUFFICES ASSUME TypeOK, [Next]_vars PROVE TypeOK'
  OBVIOUS
<1> USE ClonesFacts, ReportFacts
<1>1. ASSUME NEW t \in Tasks, Submit(t) PROVE TypeOK'
  <2>1. /\ EnqueueClones(queue[TaskTier[t]], t) \in Seq(Clones)
        /\ queue' \in [Tiers -> Seq(Clones)]
    BY <1>1, TierAssumption, EnqueueClonesFacts DEF Submit, TypeOK
  <2>2. IsFamilyMap(familyNodeMap')
    BY <1>1, InitFamilyFacts DEF Submit, TypeOK
  <2>3. QED
    BY <1>1, <2>1, <2>2
    DEF Submit, TypeOK, Statuses, connVars, registryVars, cloneVars, runVars, payVars,
        moneyVars
<1>2. ASSUME NEW t \in Tasks, TrackTaskSla(t) PROVE TypeOK'
  BY <1>2
  DEF TrackTaskSla, TypeOK, taskVars, queueVars, connVars, registryVars, cloneVars, runVars,
      payVars, moneyVars
<1>2r. ASSUME NEW t \in Tasks, Refuse(t) PROVE TypeOK'
  BY <1>2r
  DEF Refuse, TypeOK, taskVars, queueVars, connVars, registryVars, cloneVars, runVars,
      payVars, moneyVars
<1>3. ASSUME NEW t \in Tasks, SlaTimer(t) PROVE TypeOK'
  <2>1. queue' \in [Tiers -> Seq(Clones)]
    BY <1>3, RemoveByTaskIdFacts DEF SlaTimer, TypeOK
  <2>2. status' \in [Tasks -> Statuses]
    <3>1. status' = [status EXCEPT ![t] = "SLA_BREACHED"] \/ status' = status
      BY <1>3, Zenon DEF SlaTimer
    <3>2. CASE status' = [status EXCEPT ![t] = "SLA_BREACHED"]
      BY <3>2 DEF TypeOK, Statuses
    <3>3. QED
      BY <3>1, <3>2 DEF TypeOK
  <2>3. sla' \in [Tasks -> {"off", "persisting", "armed", "cloud", "answered", "done",
                           "refused"}]
    <3>1. PICK next \in {"cloud", "done"} : sla' = [sla EXCEPT ![t] = next]
      BY <1>3 DEF SlaTimer
    <3>2. QED
      BY <3>1 DEF TypeOK
  <2>4. UNCHANGED <<usedCloudFallback, assignedNodes, results, familyNodeMap,
                    connVars, runVars, moneyVars>>
    BY <1>3, Zenon DEF SlaTimer
  <2>5. QED
    BY <2>1, <2>2, <2>3, <2>4
    DEF TypeOK, connVars, registryVars, cloneVars, runVars, payVars, moneyVars
<1>4. ASSUME NEW t \in Tasks, CloudAnswer(t) PROVE TypeOK'
  <2>1. status' \in [Tasks -> Statuses] /\ usedCloudFallback' \in [Tasks -> BOOLEAN]
    <3>1. \/ /\ status' = [status EXCEPT ![t] = "CLOUD_FALLBACK"]
             /\ usedCloudFallback' = [usedCloudFallback EXCEPT ![t] = TRUE]
          \/ UNCHANGED <<status, usedCloudFallback>>
      BY <1>4, Zenon DEF CloudAnswer
    <3>2. CASE UNCHANGED <<status, usedCloudFallback>>
      BY <3>2 DEF TypeOK
    <3>3. CASE /\ status' = [status EXCEPT ![t] = "CLOUD_FALLBACK"]
               /\ usedCloudFallback' = [usedCloudFallback EXCEPT ![t] = TRUE]
      BY <3>3 DEF TypeOK, Statuses
    <3>4. QED
      BY <3>1, <3>2, <3>3
  <2>2. QED
    BY <1>4, <2>1
    DEF CloudAnswer, TypeOK, queueVars, connVars, registryVars, cloneVars, runVars, payVars,
        moneyVars
<1>5. ASSUME NEW t \in Tasks, Purge(t) PROVE TypeOK'
  BY <1>5
  DEF Purge, TypeOK, Statuses, queueVars, connVars, registryVars, cloneVars, runVars,
      payVars, moneyVars
<1>6. ASSUME NEW n \in Nodes, Register(n) PROVE TypeOK'
  BY <1>6 DEF Register, TypeOK, taskVars, queueVars, cloneVars, runVars, payVars, moneyVars
<1>6r. ASSUME NEW n \in Nodes, Reconnect(n) PROVE TypeOK'
  <2>1. stale' \in [Nodes -> SUBSET Clones]
    <3>1. stale' = stale \/ stale' = [stale EXCEPT ![n] = activeClones[n]]
      BY <1>6r DEF Reconnect
    <3>2. QED
      BY <3>1 DEF TypeOK
  <2>2. QED
    BY <1>6r, <2>1 DEF Reconnect, TypeOK, taskVars, queueVars, runVars, payVars, moneyVars
<1>7. ASSUME NEW n \in Nodes, CloseWhileRegistering(n) PROVE TypeOK'
  BY <1>7 DEF CloseWhileRegistering, TypeOK, taskVars, queueVars, registryVars, cloneVars,
     runVars, payVars, moneyVars
<1>8. ASSUME NEW n \in Nodes, Disconnect(n) PROVE TypeOK'
  <2>1. CloseConnection(n, Current(n)) /\ Current(n) \in SUBSET Clones
    BY <1>8 DEF Disconnect, Current, TypeOK
  <2>2. /\ nodeIpMap' = nodeIpMap \ {n}
        /\ queue' \in [Tiers -> Seq(Clones)]
        /\ assignedNodes' \in [Clones -> Nodes \union {NoNode}]
        /\ results' \in [Clones -> Reports \union {NoReport}]
        /\ IsFamilyMap(familyNodeMap')
        /\ activeClones' \in [Nodes -> SUBSET Clones]
        /\ executing' \in [Nodes -> SUBSET Clones]
    BY <2>1, CloseConnectionTypes
  <2>3. /\ connected' = connected \ {n}
        /\ sendOnClosed' \in BOOLEAN
        /\ acking' = [acking EXCEPT ![n] = {}]
        /\ UNCHANGED <<status, usedCloudFallback, sla, replaced, stale, runVars, moneyVars>>
    BY <1>8 DEF Disconnect
  <2>4. QED
    BY <2>2, <2>3 DEF TypeOK, runVars, payVars, moneyVars
<1>8r. ASSUME NEW n \in Nodes, CloseReplaced(n) PROVE TypeOK'
  <2>1. PICK S \in SUBSET stale[n] :
          /\ CloseConnection(n, S)
          /\ stale' = [stale EXCEPT ![n] = @ \ S]
          /\ replaced' = replaced \/ replaced' = replaced \ {n}
          /\ sendOnClosed' = sendOnClosed \/ sendOnClosed' = TRUE
    BY <1>8r DEF CloseReplaced
  <2>2. S \in SUBSET Clones
    BY <2>1 DEF TypeOK
  <2>3. /\ nodeIpMap' = nodeIpMap \ {n}
        /\ queue' \in [Tiers -> Seq(Clones)]
        /\ assignedNodes' \in [Clones -> Nodes \union {NoNode}]
        /\ results' \in [Clones -> Reports \union {NoReport}]
        /\ IsFamilyMap(familyNodeMap')
        /\ activeClones' \in [Nodes -> SUBSET Clones]
        /\ executing' \in [Nodes -> SUBSET Clones]
    BY <2>1, <2>2, CloseConnectionTypes
  <2>4. /\ stale' \in [Nodes -> SUBSET Clones]
        /\ replaced' \subseteq Nodes
        /\ sendOnClosed' \in BOOLEAN
    BY <2>1 DEF TypeOK
  <2>5. UNCHANGED <<status, usedCloudFallback, sla, connected, acking, runVars, moneyVars>>
    BY <1>8r DEF CloseReplaced
  <2>6. QED
    BY <2>3, <2>4, <2>5 DEF TypeOK, runVars, payVars, moneyVars
<1>9. ASSUME NEW n \in Nodes, Steal(n) PROVE TypeOK'
  <2>1. PICK i \in DOMAIN queue[NodeTier[n]] :
          LET c == queue[NodeTier[n]][i]
          IN  /\ queue' = [queue EXCEPT ![NodeTier[n]] = RemoveAt(@, i)]
              /\ familyNodeMap' = RecordThief(familyNodeMap, TaskOf(c), n)
              /\ assignedNodes' = IF InStore(TaskOf(c))
                                  THEN [assignedNodes EXCEPT ![c] = n]
                                  ELSE assignedNodes
              /\ activeClones' = [activeClones EXCEPT ![n] = @ \union {c}]
              /\ stale' = stale \/ stale' = [stale EXCEPT ![n] = @ \union {c}]
    BY <1>9 DEF Steal
  <2> DEFINE c == queue[NodeTier[n]][i]
  <2>2. NodeTier[n] \in Tiers /\ queue[NodeTier[n]] \in Seq(Clones)
    BY TierAssumption DEF TypeOK
  <2>3. c \in Clones /\ RemoveAt(queue[NodeTier[n]], i) \in Seq(Clones)
    BY <2>2, RemoveAtFacts
  <2>4. IsFamilyMap(familyNodeMap')
    BY <2>1, <2>3, RecordThiefFacts DEF TypeOK
  <2>5. queue' \in [Tiers -> Seq(Clones)]
    BY <2>1, <2>2, <2>3 DEF TypeOK
  <2>6. assignedNodes' \in [Clones -> Nodes \union {NoNode}]
    BY <2>1, <2>3 DEF TypeOK
  <2>7. /\ activeClones' \in [Nodes -> SUBSET Clones]
        /\ stale' \in [Nodes -> SUBSET Clones]
    <3>1. activeClones' \in [Nodes -> SUBSET Clones]
      BY <2>1, <2>3 DEF TypeOK
    <3>2. CASE stale' = stale
      BY <3>1, <3>2 DEF TypeOK
    <3>3. CASE stale' = [stale EXCEPT ![n] = @ \union {c}]
      BY <2>3, <3>1, <3>3 DEF TypeOK
    <3>4. QED
      BY <2>1, <3>2, <3>3
  <2>8. /\ UNCHANGED <<status, usedCloudFallback, results, sla, registryVars>>
        /\ UNCHANGED <<executing, acking, sendOnClosed, runVars, moneyVars>>
    BY <1>9, Zenon DEF Steal
  <2> HIDE DEF c
  <2>9. QED
    BY <2>4, <2>5, <2>6, <2>7, <2>8 DEF TypeOK, registryVars, runVars, payVars, moneyVars
<1>10. ASSUME NEW n \in Nodes, NEW c \in Clones, SendAssignment(n, c) PROVE TypeOK'
  BY <1>10 DEF SendAssignment, TypeOK, taskVars, queueVars, registryVars, runVars, payVars,
     moneyVars
<1>11. ASSUME NEW n \in Nodes, NEW c \in Clones, TaskResult(n, c) PROVE TypeOK'
  <2>1. /\ arriving' \in [Clones -> Reports \union {NoReport}]
        /\ results' \in [Clones -> Reports \union {NoReport}]
        /\ consensus' \in [Clones -> {"idle", "recording", "paying", "closing"}]
    <3>1. PICK v \in Values, S \in OnConnectionOf(n, c) :
            LET r == [node |-> n, value |-> v]
            IN  IF S = {c}
                THEN /\ arriving' = [arriving EXCEPT ![c] = r]
                     /\ UNCHANGED <<results, consensus>>
                ELSE AddResult(c, r) /\ UNCHANGED arriving
      BY <1>11 DEF TaskResult
    <3> DEFINE r == [node |-> n, value |-> v]
    <3>2. r \in Reports
      OBVIOUS
    <3>3. \/ arriving' = [arriving EXCEPT ![c] = r] /\ results' = results /\ consensus' = consensus
          \/ AddResult(c, r) /\ arriving' = arriving
      BY <3>1, Zenon
    <3> HIDE DEF r
    <3>4. CASE arriving' = [arriving EXCEPT ![c] = r] /\ results' = results /\ consensus' = consensus
      BY <3>2, <3>4 DEF TypeOK
    <3>5. CASE AddResult(c, r) /\ arriving' = arriving
      BY <3>2, <3>5, AddResultTypes DEF TypeOK
    <3>6. QED
      BY <3>3, <3>4, <3>5
  <2>2. DropClone(n, c)
    BY <1>11 DEF TaskResult
  <2>3. QED
    BY <1>11, <2>1, <2>2, DropCloneTypes
    DEF TaskResult, TypeOK, queueVars, registryVars, payVars, moneyVars
<1>12. ASSUME NEW n \in Nodes, NEW c \in Clones, TaskEviction(n, c) PROVE TypeOK'
  <2>1. TaskTier[TaskOf(c)] \in Tiers
    BY TierAssumption
  <2>2. queue' \in [Tiers -> Seq(Clones)]
    <3>1. EnqueuePriority(queue[TaskTier[TaskOf(c)]], c) \in Seq(Clones)
      BY <2>1, EnqueuePriorityFacts DEF TypeOK
    <3> DEFINE tier == TaskTier[TaskOf(c)]
               q    == EnqueuePriority(queue[tier], c)
    <3>2. queue' = [queue EXCEPT ![tier] = q] \/ queue' = queue
      BY <1>12, Zenon DEF TaskEviction, queueVars
    <3>3. tier \in Tiers /\ q \in Seq(Clones) /\ queue \in [Tiers -> Seq(Clones)]
      BY <2>1, <3>1 DEF TypeOK
    <3> HIDE DEF tier, q
    <3>4. CASE queue' = [queue EXCEPT ![tier] = q]
      BY <3>3, <3>4
    <3>5. QED
      BY <3>2, <3>3, <3>4
  <2>3. /\ assignedNodes' \in [Clones -> Nodes \union {NoNode}]
        /\ results' \in [Clones -> Reports \union {NoReport}]
        /\ IsFamilyMap(familyNodeMap')
    BY <1>12, ReleaseAntiAffinityFacts DEF TaskEviction, Unassign, TypeOK, queueVars
  <2>4. acking' \in [Nodes -> SUBSET Clones]
    <3>1. \/ acking' = [acking EXCEPT ![n] = @ \union {c}]
          \/ acking' = acking
      BY <1>12, Zenon DEF TaskEviction, InStore
    <3>2. CASE acking' = [acking EXCEPT ![n] = @ \union {c}]
      BY <3>2 DEF TypeOK
    <3>3. CASE acking' = acking
      BY <3>3 DEF TypeOK
    <3>4. QED
      BY <3>1, <3>2, <3>3
  <2>5. DropClone(n, c)
    BY <1>12 DEF TaskEviction
  <2>6. QED
    BY <1>12, <2>2, <2>3, <2>4, <2>5, DropCloneTypes
    DEF TaskEviction, TypeOK, registryVars, runVars, payVars, moneyVars
<1>13. ASSUME NEW n \in Nodes, NEW c \in Clones, AckEviction(n, c) PROVE TypeOK'
  BY <1>13 DEF AckEviction, TypeOK, taskVars, queueVars, registryVars, cloneVars, runVars,
     payVars, moneyVars
<1>14. ASSUME NEW c \in Clones, OnCloneResult(c) PROVE TypeOK'
  BY <1>14, AddResultTypes
  DEF OnCloneResult, TypeOK, queueVars, connVars, registryVars, cloneVars, payVars,
      moneyVars
<1>15. ASSUME NEW c \in Clones, RunConsensus(c) PROVE TypeOK'
  <2> DEFINE R == {e \in ClonesOf(TaskOf(c)) : Reported(e)}
  <2>0. \A e \in R : e \in Clones /\ results[e].node \in Nodes
    BY DEF Reported, TypeOK
  <2>1. \A M \in Majorities(TaskOf(c)) : M \subseteq R
    <3>1. \A d : Matches(TaskOf(c), d) \subseteq R
      BY DEF Matches
    <3>2. QED
      BY <3>1 DEF Majorities
  <2> HIDE DEF R
  <2>2. \A M \in SUBSET R : Entries(M) \subseteq Clones \X Nodes
    BY <2>0 DEF Entries
  <2>3. \/ \E M \in Majorities(TaskOf(c)) :
              /\ toPay' = [toPay EXCEPT ![c] = Entries(M)]
              /\ toSlash' = [toSlash EXCEPT ![c] = Entries(R \ M)]
              /\ UNCHANGED status
        \/ /\ status' = [status EXCEPT ![TaskOf(c)] = "FAILED"]
           /\ UNCHANGED <<toPay, toSlash>>
    BY <1>15 DEF RunConsensus, payVars, R
  <2>4. /\ toPay' \in [Clones -> SUBSET (Clones \X Nodes)]
        /\ toSlash' \in [Clones -> SUBSET (Clones \X Nodes)]
        /\ status' \in [Tasks -> Statuses]
    <3>1. CASE \E M \in Majorities(TaskOf(c)) :
                 /\ toPay' = [toPay EXCEPT ![c] = Entries(M)]
                 /\ toSlash' = [toSlash EXCEPT ![c] = Entries(R \ M)]
                 /\ UNCHANGED status
      <4>1. PICK M \in Majorities(TaskOf(c)) :
                 /\ toPay' = [toPay EXCEPT ![c] = Entries(M)]
                 /\ toSlash' = [toSlash EXCEPT ![c] = Entries(R \ M)]
                 /\ UNCHANGED status
        BY <3>1
      <4>2. Entries(M) \subseteq Clones \X Nodes /\ Entries(R \ M) \subseteq Clones \X Nodes
        <5>1. M \in SUBSET R /\ R \ M \in SUBSET R
          BY <2>1
        <5>2. QED
          BY <5>1, <2>2
      <4>3. QED
        BY <4>1, <4>2 DEF TypeOK
    <3>2. CASE /\ status' = [status EXCEPT ![TaskOf(c)] = "FAILED"]
               /\ UNCHANGED <<toPay, toSlash>>
      BY <3>2 DEF TypeOK, Statuses
    <3>3. QED
      BY <2>3, <3>1, <3>2
  <2>5. consensus' \in [Clones -> {"idle", "recording", "paying", "closing"}]
    <3>1. \/ consensus' = [consensus EXCEPT ![c] = "paying"]
          \/ consensus' = [consensus EXCEPT ![c] = "idle"]
      BY <1>15, Zenon DEF RunConsensus
    <3>2. QED
      BY <3>1 DEF TypeOK
  <2>6. UNCHANGED <<usedCloudFallback, assignedNodes, results, sla, queueVars,
                    connVars, arriving, moneyVars>>
    BY <1>15, Zenon DEF RunConsensus
  <2>7. /\ UNCHANGED <<usedCloudFallback, assignedNodes, results, sla, queue, familyNodeMap>>
        /\ UNCHANGED <<connected, nodeIpMap, replaced, activeClones, stale, executing>>
        /\ UNCHANGED <<acking, sendOnClosed, arriving, payouts, slashes>>
    BY <2>6, Zenon DEF queueVars, connVars, registryVars, cloneVars, moneyVars
  <2> HIDE DEF R
  <2>8. QED
    BY <2>4, <2>5, <2>7 DEF TypeOK
<1>16. ASSUME NEW c \in Clones, Pay(c) PROVE TypeOK'
  <2>1. PICK e \in toPay[c] :
          /\ toPay' = [toPay EXCEPT ![c] = @ \ {e}]
          /\ \/ payouts' = [payouts EXCEPT ![TaskOf(c)][e[2]] = @ + 1]
             \/ payouts' = payouts
    BY <1>16 DEF Pay
  <2>2. e[2] \in Nodes /\ TaskOf(c) \in Tasks
    BY <2>1 DEF TypeOK
  <2>3. toPay' \in [Clones -> SUBSET (Clones \X Nodes)]
    BY <2>1 DEF TypeOK
  <2>4. payouts' \in [Tasks -> [Nodes -> Nat]]
    <3>1. CASE payouts' = [payouts EXCEPT ![TaskOf(c)][e[2]] = @ + 1]
      BY <2>2, <3>1 DEF TypeOK
    <3>2. QED
      BY <2>1, <3>1 DEF TypeOK
  <2>5. UNCHANGED <<taskVars, sla, queueVars, connVars, arriving, consensus,
                    toSlash, slashes>>
    BY <1>16, Zenon DEF Pay
  <2>6. QED
    BY <2>3, <2>4, <2>5 DEF TypeOK, taskVars, queueVars, connVars, registryVars, cloneVars
<1>17. ASSUME NEW c \in Clones, Slash(c) PROVE TypeOK'
  BY <1>17 DEF Slash, TypeOK, taskVars, queueVars, connVars, registryVars, cloneVars
<1>18. ASSUME NEW c \in Clones, CompleteTask(c) PROVE TypeOK'
  <2>1. status' \in [Tasks -> Statuses]
    BY <1>18 DEF CompleteTask, TypeOK, Statuses
  <2>2. QED
    BY <1>18, <2>1
    DEF CompleteTask, TypeOK, queueVars, connVars, registryVars, cloneVars, payVars,
        moneyVars
<1>19. ASSUME NEW c \in Clones, CloseConsensus(c) PROVE TypeOK'
  BY <1>19, CleanupFamilyFacts
  DEF CloseConsensus, TypeOK, taskVars, connVars, registryVars, cloneVars, payVars,
      moneyVars
<1>20. ASSUME CrashAndRestart PROVE TypeOK'
  BY <1>20, RestartTypes DEF CrashAndRestart
<1>20r. ASSUME NEW c \in Clones, RunConsensusThrows(c) PROVE TypeOK'
  BY <1>20r, RestartTypes DEF RunConsensusThrows
<1>21. CASE UNCHANGED vars
  BY <1>21
  DEF vars, TypeOK, taskVars, queueVars, connVars, registryVars, cloneVars, runVars,
      payVars, moneyVars
<1>22. QED
  BY <1>1, <1>2, <1>2r, <1>3, <1>4, <1>5, <1>6, <1>6r, <1>7, <1>8, <1>8r, <1>9, <1>10,
     <1>11, <1>12, <1>13, <1>14, <1>15, <1>16, <1>17, <1>18, <1>19, <1>20, <1>20r, <1>21
  DEF Next

(* Every variable keeps to its type, in particular the queues: no handler  *)
(* ever puts anything but clones of submitted tasks there.                 *)
THEOREM TypeCorrect == Spec => []TypeOK
  BY InitTypeOK, NextTypeOK, PTL DEF Spec

-----------------------------------------------------------------------------
(* The custody invariant.  The steps that move a clone have a lemma each;  *)
(* the lemmas below say what a change of one queue, or of nothing that     *)
(* matters, does to the parts of the invariant.                            *)

LEMMA OneQueueChanges ==
  ASSUME TypeOK, QueuesSound, NEW tier \in Tiers, NEW r \in Seq(Clones),
         queue' = [queue EXCEPT ![tier] = r], IsInjective(r),
         NEW S \in SUBSET Clones, \A c \in S : TaskTier[TaskOf(c)] = tier,
         \A c : Contains(r, c) => Contains(queue[tier], c) \/ c \in S
  PROVE  /\ QueuesSound'
         /\ \A c \in Clones : Queued(c)' => Queued(c) \/ c \in S
         /\ \A c \in Clones : Contains(r, c) => Queued(c)'
         /\ \A c \in Clones :
              Queued(c) /\ (Contains(queue[tier], c) => Contains(r, c)) => Queued(c)'
<1>1. \A u \in Tiers : queue'[u] = IF u = tier THEN r ELSE queue[u]
  BY DEF TypeOK
<1>2. QueuesSound'
  BY <1>1 DEF QueuesSound
<1>3. QED
  BY <1>1, <1>2 DEF Queued

(* The clones of a submission are queued, all of them when there is room. *)
LEMMA SubmitQueues ==
  ASSUME CustodyInv, NEW t \in Tasks, Submit(t)
  PROVE  /\ QueuesSound'
         /\ \A c \in Clones : Queued(c)' => Queued(c) \/ c \in ClonesOf(t)
         /\ \A c \in Clones : Queued(c) => Queued(c)'
         /\ Len(queue[TaskTier[t]]) + ClonesPerTask <= MaxDepth
              => \A c \in ClonesOf(t) : Queued(c)'
<1> DEFINE tier == TaskTier[t]
           r    == EnqueueClones(queue[tier], t)
<1>1. /\ TypeOK
      /\ status[t] = "NONE"
      /\ queue' = [queue EXCEPT ![tier] = r]
  BY DEF CustodyInv, Submit
<1>2. \A c \in Clones : c \in ClonesOf(t) =>
        ~Queued(c) /\ ~Held(c) /\ arriving[c] = NoReport /\ ~Reported(c)
  BY <1>1, ClonesFacts DEF CustodyInv, NoneBeforeSubmission
<1>3. /\ r \in Seq(Clones) /\ IsInjective(r)
      /\ \A c : Contains(queue[tier], c) => Contains(r, c)
      /\ \A c : Contains(r, c) => Contains(queue[tier], c) \/ c \in ClonesOf(t)
      /\ Len(queue[tier]) + ClonesPerTask <= MaxDepth
           => \A c \in ClonesOf(t) : Contains(r, c)
  <2>1. tier \in Tiers /\ queue[tier] \in Seq(Clones) /\ IsInjective(queue[tier])
    BY <1>1, TierAssumption DEF TypeOK, CustodyInv, OnePlace, QueuesSound
  <2>2. \A c \in ClonesOf(t) : ~Contains(queue[tier], c)
    BY <1>2, <2>1, ClonesFacts DEF Queued
  <2>3. QED
    BY <2>1, <2>2, EnqueueClonesFacts
<1>4. tier \in Tiers /\ QueuesSound
  BY TierAssumption DEF CustodyInv, OnePlace
<1>5. ClonesOf(t) \in SUBSET Clones /\ \A c \in ClonesOf(t) : TaskTier[TaskOf(c)] = tier
  BY ClonesFacts
<1>6. tier = TaskTier[t]
  OBVIOUS
<1> HIDE DEF r, tier
<1>7. /\ QueuesSound'
      /\ \A c \in Clones : Queued(c)' => Queued(c) \/ c \in ClonesOf(t)
      /\ \A c \in Clones : Contains(r, c) => Queued(c)'
      /\ \A c \in Clones :
           Queued(c) /\ (Contains(queue[tier], c) => Contains(r, c)) => Queued(c)'
  BY <1>1, <1>3, <1>4, <1>5, OneQueueChanges
<1>8. QED
  BY <1>3, <1>5, <1>6, <1>7

LEMMA SubmitCustody ==
  ASSUME CustodyInv, TypeOK', NEW t \in Tasks, Submit(t)
  PROVE  CustodyInv'
<1>1. /\ TypeOK
      /\ status[t] = "NONE"
      /\ status' = [status EXCEPT ![t] = "CLONED"]
      /\ familyNodeMap' = familyNodeMap \/ familyNodeMap' = InitFamily(familyNodeMap, t)
      /\ UNCHANGED <<results, activeClones, stale, executing, arriving, consensus>>
  BY DEF CustodyInv, Submit, connVars, cloneVars, runVars
<1>2. \A c \in Clones : c \in ClonesOf(t) =>
        ~Queued(c) /\ ~Held(c) /\ arriving[c] = NoReport /\ ~Reported(c)
  BY <1>1, ClonesFacts DEF CustodyInv, NoneBeforeSubmission
<1>4. /\ QueuesSound'
      /\ \A c \in Clones : Queued(c)' => Queued(c) \/ c \in ClonesOf(t)
  BY SubmitQueues
<1>5. \A u : FamilyNodes(familyNodeMap', u) = FamilyNodes(familyNodeMap, u)
  BY <1>1, InitFamilyFacts DEF TypeOK
<1>6. OnePlace'
  BY <1>1, <1>2, <1>4 DEF CustodyInv, OnePlace, OneHolder, InOnePlace, Held, Reported
<1>7. NoneBeforeSubmission'
  <2>1. ASSUME NEW c \in Clones, status'[TaskOf(c)] = "NONE"
        PROVE  status[TaskOf(c)] = "NONE" /\ c \notin ClonesOf(t)
    BY <1>1, <2>1, ClonesFacts DEF TypeOK
  <2>2. QED
    BY <1>1, <1>4, <2>1 DEF CustodyInv, NoneBeforeSubmission, Held, Reported
<1>8. HeldInTier' /\ RunsComplete' /\ AntiAffinity'
  BY <1>1 DEF CustodyInv, HeldInTier, RunsComplete, AntiAffinity, Carries,
              AllReported, Reported
<1>9. FamilyCovers'
  BY <1>1, <1>5 DEF CustodyInv, FamilyCovers, Carries, AllReported, Reported
<1>10. QED
  BY <1>6, <1>7, <1>8, <1>9 DEF CustodyInv

(* Node n takes c from the queue of its tier.                              *)
Takes(n, c) ==
  /\ Queued(c)
  /\ TaskTier[TaskOf(c)] = NodeTier[n]
  /\ n \notin FamilyNodes(familyNodeMap, TaskOf(c))
  /\ QueuesSound'
  /\ \A d \in Clones : Queued(d)' <=> Queued(d) /\ d # c
  /\ familyNodeMap' = RecordThief(familyNodeMap, TaskOf(c), n)
  /\ activeClones' = [activeClones EXCEPT ![n] = @ \union {c}]
  /\ stale' = stale \/ stale' = [stale EXCEPT ![n] = @ \union {c}]
  /\ UNCHANGED <<status, results, executing, arriving, consensus>>

LEMMA StealTakes ==
  ASSUME CustodyInv, NEW n \in Nodes, Steal(n)
  PROVE  \E c \in Clones : Takes(n, c)
<1> DEFINE tier == NodeTier[n]
<1>1. TypeOK /\ tier \in Tiers /\ queue[tier] \in Seq(Clones)
  BY TierAssumption DEF CustodyInv, TypeOK
<1>2. PICK i \in DOMAIN queue[tier], c \in Clones :
        /\ c = queue[tier][i]
        /\ IsFirstEligible(i, queue[tier], familyNodeMap, n, SameIp(n))
        /\ queue' = [queue EXCEPT ![tier] = RemoveAt(@, i)]
        /\ familyNodeMap' = RecordThief(familyNodeMap, TaskOf(c), n)
        /\ activeClones' = [activeClones EXCEPT ![n] = @ \union {c}]
        /\ stale' = stale \/ stale' = [stale EXCEPT ![n] = @ \union {c}]
  <2>1. \A i \in DOMAIN queue[tier] : queue[tier][i] \in Clones
    BY <1>1
  <2>2. QED
    BY <2>1 DEF Steal
<1>3. UNCHANGED <<status, results, executing, arriving, consensus>>
  BY DEF Steal, runVars
<1>4. Queued(c) /\ TaskTier[TaskOf(c)] = tier
  <2>1. Contains(queue[tier], c)
    BY <1>1, <1>2 DEF Contains
  <2>2. QED
    BY <1>1, <2>1 DEF Queued, CustodyInv, OnePlace, QueuesSound
<1>5. n \notin FamilyNodes(familyNodeMap, TaskOf(c))
  BY <1>2 DEF IsFirstEligible, Eligible
<1>6. /\ QueuesSound'
      /\ \A d \in Clones : Queued(d)' <=> Queued(d) /\ d # c
  <2> DEFINE r == RemoveAt(queue[tier], i)
  <2>1. QueuesSound /\ IsInjective(queue[tier])
    BY <1>1 DEF CustodyInv, OnePlace, QueuesSound
  <2>2. /\ r \in Seq(Clones) /\ IsInjective(r) /\ ~Contains(r, c)
        /\ \A d : Contains(r, d) => Contains(queue[tier], d)
        /\ \A d : Contains(queue[tier], d) /\ d # c => Contains(r, d)
    BY <1>1, <1>2, <2>1, RemoveAtFacts
  <2>3. queue' = [queue EXCEPT ![tier] = r]
    BY <1>2
  <2> HIDE DEF r, tier
  <2>4. /\ QueuesSound'
        /\ \A d \in Clones : Queued(d)' => Queued(d) \/ d \in {}
        /\ \A d \in Clones :
             Queued(d) /\ (Contains(queue[tier], d) => Contains(r, d)) => Queued(d)'
    <3>1. \A d : Contains(r, d) => Contains(queue[tier], d) \/ d \in {}
      BY <2>2
    <3>2. {} \in SUBSET Clones /\ \A d \in {} : TaskTier[TaskOf(d)] = tier
      OBVIOUS
    <3>3. QED
      BY <1>1, <2>1, <2>2, <2>3, <3>1, <3>2, OneQueueChanges
  <2>5. ~Queued(c)'
    <3>1. \A u \in Tiers : queue'[u] = IF u = tier THEN r ELSE queue[u]
      BY <1>1, <2>3 DEF TypeOK
    <3>2. \A u \in Tiers : Contains(queue[u], c) => u = tier
      BY <1>4, <2>1 DEF QueuesSound
    <3>3. QED
      BY <2>2, <3>1, <3>2 DEF Queued
  <2>6. QED
    BY <2>2, <2>4, <2>5
<1>7. QED
  BY <1>2, <1>3, <1>4, <1>5, <1>6 DEF Takes

LEMMA StealCustody ==
  ASSUME CustodyInv, TypeOK', NEW n \in Nodes, Steal(n)
  PROVE  CustodyInv'
<1>1. TypeOK
  BY DEF CustodyInv
<1>2. PICK c \in Clones : Takes(n, c)
  BY StealTakes
<1>3. UNCHANGED <<status, results, executing, arriving, consensus>>
  BY <1>2 DEF Takes
<1>4. Queued(c) /\ TaskTier[TaskOf(c)] = NodeTier[n]
  BY <1>2 DEF Takes
<1>5. n \notin FamilyNodes(familyNodeMap, TaskOf(c))
  BY <1>2 DEF Takes
<1>6. /\ QueuesSound'
      /\ \A d \in Clones : Queued(d)' => Queued(d) /\ d # c
  BY <1>2 DEF Takes
<1>7. ~Held(c) /\ arriving[c] = NoReport /\ ~Reported(c)
  BY <1>4 DEF CustodyInv, OnePlace, InOnePlace
<1>8. \A m \in Nodes : activeClones'[m] = IF m = n THEN activeClones[m] \union {c}
                                          ELSE activeClones[m]
  BY <1>1, <1>2 DEF TypeOK, Takes
<1>9. \A u : FamilyNodes(familyNodeMap', u)
              = IF u = TaskOf(c) THEN FamilyNodes(familyNodeMap, u) \union {n}
                ELSE FamilyNodes(familyNodeMap, u)
  <2>1. IsFamilyMap(familyNodeMap)
    BY <1>1 DEF TypeOK
  <2>2. TaskOf(c) \in Tasks /\ familyNodeMap' = RecordThief(familyNodeMap, TaskOf(c), n)
    BY <1>2, ClonesFacts DEF Takes
  <2>3. QED
    BY <2>1, <2>2, RecordThiefFacts
<1>10. OnePlace'
  <2>1. OneHolder'
    <3>1. OneHolder /\ \A m \in Nodes : c \notin activeClones[m]
      BY <1>7 DEF CustodyInv, OnePlace, Held
    <3>2. ASSUME NEW m \in Nodes PROVE executing'[m] \subseteq activeClones'[m]
      BY <1>3, <1>8, <3>1 DEF OneHolder
    <3>2s. ASSUME NEW m \in Nodes PROVE stale'[m] \subseteq activeClones'[m]
      BY <1>1, <1>2, <1>8, <3>1 DEF OneHolder, Takes, TypeOK
    <3>3. ASSUME NEW m \in Nodes, NEW k \in Nodes,
                 NEW d \in activeClones'[m], d \in activeClones'[k]
          PROVE  m = k
      <4>1. d \in activeClones[m] \/ (m = n /\ d = c)
        BY <1>8, <3>3
      <4>2. d \in activeClones[k] \/ (k = n /\ d = c)
        BY <1>8, <3>3
      <4>3. QED
        BY <3>1, <4>1, <4>2 DEF OneHolder
    <3>4. QED
      BY <3>2, <3>2s, <3>3 DEF OneHolder
  <2>2. ASSUME NEW d \in Clones PROVE InOnePlace(d)'
    BY <1>3, <1>6, <1>7, <1>8 DEF CustodyInv, OnePlace, InOnePlace, Held, Reported
  <2>3. QED
    BY <1>6, <2>1, <2>2 DEF OnePlace
<1>11. HeldInTier'
  BY <1>4, <1>8 DEF CustodyInv, HeldInTier
<1>12. NoneBeforeSubmission'
  <2>1. status[TaskOf(c)] # "NONE"
    BY <1>4, <1>6 DEF CustodyInv, NoneBeforeSubmission
  <2>2. ASSUME NEW d \in Clones, status'[TaskOf(d)] = "NONE"
        PROVE  ~Queued(d)' /\ ~Held(d)' /\ arriving'[d] = NoReport /\ ~Reported(d)'
    <3>1. status[TaskOf(d)] = "NONE" /\ d # c
      BY <1>3, <2>1, <2>2
    <3>2. ~Queued(d) /\ ~Held(d) /\ arriving[d] = NoReport /\ ~Reported(d)
      BY <1>4, <3>1 DEF CustodyInv, NoneBeforeSubmission
    <3>3. ~Queued(d)'
      BY <1>6, <3>1, <3>2
    <3>4. ~Held(d)'
      BY <1>8, <3>1, <3>2 DEF Held
    <3>5. QED
      BY <1>3, <3>2, <3>3, <3>4 DEF Reported
  <2>3. QED
    BY <2>2 DEF NoneBeforeSubmission
<1>13. RunsComplete'
  BY <1>3 DEF CustodyInv, RunsComplete, AllReported, Reported
<1>14. \A m \in Nodes, d \in Clones :
         Carries(m, d)' => Carries(m, d) \/ (m = n /\ d = c)
  BY <1>3, <1>8 DEF Carries
<1>15. \A t : AllReported(t)' <=> AllReported(t)
  BY <1>3 DEF AllReported, Reported
<1>16. FamilyCovers'
  BY <1>9, <1>14, <1>15 DEF CustodyInv, FamilyCovers
<1>17. \A d \in Clones : TaskOf(d) = TaskOf(c) => ~Carries(n, d)
  BY <1>4, <1>5, <1>7, ClonesFacts DEF CustodyInv, FamilyCovers, AllReported
<1>18. AntiAffinity'
  BY <1>14, <1>17 DEF CustodyInv, AntiAffinity
<1>19. QED
  BY <1>10, <1>11, <1>12, <1>13, <1>16, <1>18 DEF CustodyInv

(* Steps that move no clone, except out of the queues                      *)
LEMMA NothingMoves ==
  ASSUME CustodyInv, TypeOK',
         UNCHANGED <<results, arriving, activeClones>>,
         QueuesSound', \A c \in Clones : Queued(c)' => Queued(c),
         \A n \in Nodes : executing'[n] \subseteq activeClones[n],
         \A n \in Nodes : stale'[n] \subseteq activeClones[n],
         \A c \in Clones : consensus'[c] # "idle" => consensus[c] # "idle",
         \A t \in Tasks : status'[t] = "NONE" => status[t] = "NONE",
         \A t \in Tasks : \/ FamilyNodes(familyNodeMap, t)
                               \subseteq FamilyNodes(familyNodeMap', t)
                          \/ AllReported(t)
  PROVE  CustodyInv'
<1>1. \A n \in Nodes, c \in Clones : Carries(n, c)' <=> Carries(n, c)
  BY DEF Carries
<1>2. \A t : AllReported(t)' <=> AllReported(t)
  BY DEF AllReported, Reported
<1>3. OnePlace'
  BY DEF CustodyInv, OnePlace, OneHolder, InOnePlace, Held, Reported
<1>4. NoneBeforeSubmission'
  BY ClonesFacts DEF CustodyInv, NoneBeforeSubmission, Held, Reported
<1>5. HeldInTier' /\ RunsComplete' /\ AntiAffinity'
  BY <1>1, <1>2 DEF CustodyInv, HeldInTier, RunsComplete, AntiAffinity
<1>6. FamilyCovers'
  BY <1>1, <1>2, ClonesFacts DEF CustodyInv, FamilyCovers
<1>7. QED
  BY <1>3, <1>4, <1>5, <1>6 DEF CustodyInv

(* Node n gives up the clones L and those of S are queued again: no other  *)
(* clone of their families relies on the record of n that goes with them.  *)
GivesUp(n, L, S) ==
  /\ n \in Nodes
  /\ L \subseteq activeClones[n]
  /\ S \subseteq L
  /\ activeClones' = [activeClones EXCEPT ![n] = @ \ L]
  /\ \A m \in Nodes : executing'[m] \subseteq activeClones'[m]
  /\ \A m \in Nodes : stale'[m] \subseteq activeClones'[m]
  /\ UNCHANGED <<status, results, arriving, consensus>>
  /\ QueuesSound'
  /\ \A c \in Clones : Queued(c) => Queued(c)'
  /\ \A c \in Clones : Queued(c)' => Queued(c) \/ c \in S
  /\ \A t \in Tasks : \A m \in FamilyNodes(familyNodeMap, t) :
       m \in FamilyNodes(familyNodeMap', t) \/ (m = n /\ \E c \in S : TaskOf(c) = t)

LEMMA GiveUp ==
  ASSUME CustodyInv, TypeOK', NEW n, NEW L, NEW S, GivesUp(n, L, S)
  PROVE  CustodyInv'
<1>1. \A m \in Nodes : activeClones'[m] = IF m = n THEN activeClones[m] \ L
                                          ELSE activeClones[m]
  BY DEF GivesUp, CustodyInv, TypeOK
<1>2. L \subseteq Clones
  BY DEF GivesUp, CustodyInv, TypeOK
<1>3. \A c \in L : Held(c) /\ arriving[c] = NoReport /\ ~Reported(c)
  BY <1>2 DEF GivesUp, CustodyInv, OnePlace, InOnePlace, Held
<1>4. OneHolder
  BY DEF CustodyInv, OnePlace
<1>5. \A c \in Clones : Held(c)' => Held(c) /\ c \notin L
  BY <1>1, <1>4 DEF GivesUp, Held, OneHolder
<1>6. OnePlace'
  <2>1. OneHolder'
    BY <1>1, <1>4 DEF GivesUp, OneHolder
  <2>2. ASSUME NEW c \in Clones PROVE InOnePlace(c)'
    BY <1>3, <1>5 DEF GivesUp, CustodyInv, OnePlace, InOnePlace, Reported
  <2>3. QED
    BY <2>1, <2>2 DEF GivesUp, OnePlace
<1>7. HeldInTier'
  BY <1>1 DEF CustodyInv, HeldInTier
<1>8. NoneBeforeSubmission'
  BY <1>3, <1>5 DEF GivesUp, CustodyInv, NoneBeforeSubmission, Reported
<1>9. RunsComplete'
  BY DEF GivesUp, CustodyInv, RunsComplete, AllReported, Reported
<1>10. \A m \in Nodes, c \in Clones :
         Carries(m, c)' => Carries(m, c) /\ (m = n => c \notin S)
  BY <1>1, <1>3 DEF GivesUp, Carries, Reported
<1>11. AntiAffinity'
  BY <1>10 DEF CustodyInv, AntiAffinity
<1>12. FamilyCovers'
  <2>1. SUFFICES ASSUME NEW m \in Nodes, NEW d \in Clones, Carries(m, d)',
                        ~AllReported(TaskOf(d))'
                 PROVE  m \in FamilyNodes(familyNodeMap', TaskOf(d))
    BY DEF FamilyCovers
  <2>2. ~AllReported(TaskOf(d))
    BY <2>1 DEF GivesUp, AllReported, Reported
  <2>3. m \in FamilyNodes(familyNodeMap, TaskOf(d))
    BY <1>10, <2>1, <2>2 DEF CustodyInv, FamilyCovers
  <2>4. ASSUME m = n, NEW c \in S, TaskOf(c) = TaskOf(d) PROVE FALSE
    <3>1. Carries(n, d) /\ c # d /\ c \in Clones /\ Carries(n, c)
      BY <1>2, <1>10, <2>1, <2>4 DEF GivesUp, Carries
    <3>2. QED
      BY <2>4, <3>1 DEF GivesUp, CustodyInv, AntiAffinity
  <2>5. QED
    BY <2>3, <2>4, ClonesFacts DEF GivesUp
<1>13. QED
  BY <1>6, <1>7, <1>8, <1>9, <1>11, <1>12 DEF CustodyInv

(* The result r of clone c moves on, or is dropped with its task           *)
LEMMA ResultMoves ==
  ASSUME CustodyInv, TypeOK', NEW c \in Clones, NEW r \in Reports,
         Carries(r.node, c), Held(c) \/ arriving[c] # NoReport,
         \A m \in Nodes : activeClones'[m] = activeClones[m] \ {c},
         \A m \in Nodes : executing'[m] \subseteq activeClones'[m],
         \A m \in Nodes : stale'[m] \subseteq activeClones'[m],
         UNCHANGED <<status, queue, familyNodeMap>>,
         \A d \in Clones \ {c} : arriving'[d] = arriving[d] /\ results'[d] = results[d],
         arriving'[c] \in {r, NoReport}, results'[c] \in {r, NoReport},
         arriving'[c] = NoReport \/ results'[c] = NoReport,
         \A d \in Clones : consensus'[d] # "idle"
                             => consensus[d] # "idle" \/ AllReported(TaskOf(d))'
  PROVE  CustodyInv'
<1>1. ~Queued(c) /\ ~Reported(c)
  BY DEF CustodyInv, OnePlace, InOnePlace
<1>2. \A d \in Clones : Queued(d)' <=> Queued(d)
  BY DEF Queued
<1>3. \A d \in Clones : Held(d)' <=> Held(d) /\ d # c
  BY DEF Held
<1>4. \A d \in Clones : d # c => (Reported(d)' <=> Reported(d))
  BY DEF Reported
<1>5. \A d \in Clones : Reported(d) => Reported(d)'
  BY <1>1, <1>4
<1>6. \A t \in Tasks : AllReported(t) => AllReported(t)'
  BY <1>5, ClonesFacts DEF AllReported
<1>7. \A m \in Nodes, d \in Clones : Carries(m, d)' => Carries(m, d)
  BY DEF Carries
<1>8. OnePlace'
  <2>1. QueuesSound'
    BY DEF CustodyInv, OnePlace, QueuesSound
  <2>2. OneHolder'
    BY DEF CustodyInv, OnePlace, OneHolder
  <2>3. ASSUME NEW d \in Clones PROVE InOnePlace(d)'
    <3>1. InOnePlace(d)
      BY DEF CustodyInv, OnePlace
    <3>2. CASE d = c
      BY <1>1, <1>2, <1>3, <3>2 DEF InOnePlace, Reported
    <3>3. CASE d # c
      BY <1>2, <1>3, <1>4, <3>1, <3>3 DEF InOnePlace
    <3>4. QED
      BY <3>2, <3>3
  <2>4. QED
    BY <2>1, <2>2, <2>3 DEF OnePlace
<1>9. HeldInTier'
  BY DEF CustodyInv, HeldInTier
<1>10. NoneBeforeSubmission'
  <2>1. status[TaskOf(c)] # "NONE"
    BY DEF CustodyInv, NoneBeforeSubmission
  <2>2. QED
    BY <1>2, <1>3, <1>4, <2>1 DEF CustodyInv, NoneBeforeSubmission
<1>11. RunsComplete'
  BY <1>6, ClonesFacts DEF CustodyInv, RunsComplete
<1>12. FamilyCovers'
  BY <1>6, <1>7, ClonesFacts DEF CustodyInv, FamilyCovers
<1>13. AntiAffinity'
  BY <1>7 DEF CustodyInv, AntiAffinity
<1>14. QED
  BY <1>8, <1>9, <1>10, <1>11, <1>12, <1>13 DEF CustodyInv

(* The action lemmas                                                       *)
LEMMA SendAssignmentCustody ==
  ASSUME CustodyInv, TypeOK', NEW n \in Nodes, NEW c \in Clones, SendAssignment(n, c)
  PROVE  CustodyInv'
<1>1. /\ UNCHANGED <<status, results, queue, familyNodeMap, activeClones, arriving, consensus>>
      /\ executing' = [executing EXCEPT ![n] = @ \union {c}]
      /\ c \in activeClones[n]
      /\ UNCHANGED stale
  BY DEF SendAssignment, Sending, Current, taskVars, queueVars, runVars
<1>2. \A m \in Nodes : /\ executing'[m] \subseteq activeClones[m]
                       /\ stale'[m] \subseteq activeClones[m]
  BY <1>1 DEF CustodyInv, OnePlace, OneHolder, TypeOK
<1>3. QueuesSound' /\ \A d \in Clones : Queued(d)' => Queued(d)
  BY <1>1 DEF CustodyInv, OnePlace, QueuesSound, Queued
<1>4. QED
  BY <1>1, <1>2, <1>3, NothingMoves

LEMMA SlaTimerCustody ==
  ASSUME CustodyInv, TypeOK', NEW t \in Tasks, SlaTimer(t)
  PROVE  CustodyInv'
<1>1. UNCHANGED <<results, familyNodeMap, activeClones, stale, executing, arriving, consensus>>
  BY DEF SlaTimer, connVars, cloneVars, runVars
<1>2. CASE /\ status' = [status EXCEPT ![t] = "SLA_BREACHED"]
           /\ queue' = [tier \in Tiers |-> RemoveByTaskId(queue[tier], t)]
  <2>1. \A tier \in Tiers : /\ IsInjective(queue'[tier])
                            /\ \A c : Contains(queue'[tier], c) => Contains(queue[tier], c)
    BY <1>2, RemoveByTaskIdFacts DEF CustodyInv, TypeOK, OnePlace, QueuesSound
  <2>2. QueuesSound' /\ \A c \in Clones : Queued(c)' => Queued(c)
    BY <2>1 DEF CustodyInv, OnePlace, QueuesSound, Queued
  <2>3. \A u \in Tasks : status'[u] = "NONE" => status[u] = "NONE"
    BY <1>2 DEF CustodyInv, TypeOK
  <2>4. \A n \in Nodes : /\ executing'[n] \subseteq activeClones[n]
                         /\ stale'[n] \subseteq activeClones[n]
    BY <1>1 DEF CustodyInv, OnePlace, OneHolder
  <2>5. QED
    BY <1>1, <2>2, <2>3, <2>4, NothingMoves
<1>3. CASE UNCHANGED <<status, queue>>
  <2>1. QueuesSound' /\ \A c \in Clones : Queued(c)' => Queued(c)
    BY <1>3 DEF CustodyInv, OnePlace, QueuesSound, Queued
  <2>2. \A n \in Nodes : /\ executing'[n] \subseteq activeClones[n]
                         /\ stale'[n] \subseteq activeClones[n]
    BY <1>1 DEF CustodyInv, OnePlace, OneHolder
  <2>3. QED
    BY <1>1, <1>3, <2>1, <2>2, NothingMoves
<1>4. QED
  BY <1>2, <1>3 DEF SlaTimer

(* The steps of the engine, the cloud's answer, and all that change none   *)
(* of the variables the invariant reads                                    *)
LEMMA VerdictCustody ==
  ASSUME CustodyInv, TypeOK',
         UNCHANGED <<results, queue, familyNodeMap, activeClones, stale, executing, arriving>>,
         \A c \in Clones : consensus'[c] # "idle" => consensus[c] # "idle",
         \A t \in Tasks : status'[t] = "NONE" => status[t] = "NONE"
  PROVE  CustodyInv'
<1>1. QueuesSound' /\ \A c \in Clones : Queued(c)' => Queued(c)
  BY DEF CustodyInv, OnePlace, QueuesSound, Queued
<1>2. \A n \in Nodes : /\ executing'[n] \subseteq activeClones[n]
                       /\ stale'[n] \subseteq activeClones[n]
  BY DEF CustodyInv, OnePlace, OneHolder
<1>3. QED
  BY <1>1, <1>2, NothingMoves

LEMMA CloseConsensusCustody ==
  ASSUME CustodyInv, TypeOK', NEW c \in Clones, CloseConsensus(c)
  PROVE  CustodyInv'
<1>1. /\ UNCHANGED <<status, results, queue, activeClones, stale, executing, arriving>>
      /\ familyNodeMap' = CleanupFamily(familyNodeMap, TaskOf(c))
      /\ consensus' = [consensus EXCEPT ![c] = "idle"]
      /\ consensus[c] # "idle"
  BY DEF CloseConsensus, taskVars, connVars, cloneVars
<1>2. AllReported(TaskOf(c))
  BY <1>1 DEF CustodyInv, RunsComplete
<1>3. \A t \in Tasks : FamilyNodes(familyNodeMap, t) \subseteq FamilyNodes(familyNodeMap', t)
                       \/ AllReported(t)
  <2>1. IsFamilyMap(familyNodeMap) /\ TaskOf(c) \in Tasks
    BY ClonesFacts DEF CustodyInv, TypeOK
  <2>2. QED
    BY <1>1, <1>2, <2>1, CleanupFamilyFacts
<1>4. \A d \in Clones : consensus'[d] # "idle" => consensus[d] # "idle"
  BY <1>1 DEF CustodyInv, TypeOK
<1>5. QueuesSound' /\ \A d \in Clones : Queued(d)' => Queued(d)
  BY <1>1 DEF CustodyInv, OnePlace, QueuesSound, Queued
<1>6. \A n \in Nodes : /\ executing'[n] \subseteq activeClones[n]
                       /\ stale'[n] \subseteq activeClones[n]
  BY <1>1 DEF CustodyInv, OnePlace, OneHolder
<1>7. QED
  BY <1>1, <1>3, <1>4, <1>5, <1>6, NothingMoves

(* A second connection of a node leaves its clones where they are.         *)
LEMMA ReconnectCustody ==
  ASSUME CustodyInv, TypeOK', NEW n \in Nodes, Reconnect(n)
  PROVE  CustodyInv'
<1>1. /\ UNCHANGED <<status, results, queue, familyNodeMap, activeClones, executing, arriving,
                     consensus>>
      /\ stale' = stale \/ stale' = [stale EXCEPT ![n] = activeClones[n]]
  BY DEF Reconnect, taskVars, queueVars, runVars
<1>2. \A m \in Nodes : /\ executing'[m] \subseteq activeClones[m]
                       /\ stale'[m] \subseteq activeClones[m]
  <2>1. stale \in [Nodes -> SUBSET Clones] /\ OneHolder
    BY DEF CustodyInv, OnePlace, TypeOK
  <2>2. CASE stale' = stale
    BY <1>1, <2>1, <2>2 DEF OneHolder
  <2>3. CASE stale' = [stale EXCEPT ![n] = activeClones[n]]
    BY <1>1, <2>1, <2>3 DEF OneHolder
  <2>4. QED
    BY <1>1, <2>2, <2>3
<1>3. QueuesSound' /\ \A c \in Clones : Queued(c)' => Queued(c)
  BY <1>1 DEF CustodyInv, OnePlace, QueuesSound, Queued
<1>4. QED
  BY <1>1, <1>2, <1>3, NothingMoves

(* A connection of n with the active clones L closes.                      *)
LEMMA CloseGivesUp ==
  ASSUME CustodyInv, NEW n \in Nodes, NEW L \in SUBSET activeClones[n],
         CloseConnection(n, L), UNCHANGED <<status, arriving, consensus>>,
         \A m \in Nodes : stale'[m] \subseteq activeClones'[m]
  PROVE  /\ GivesUp(n, L, Requeueable(n, L))
         /\ Len(queue[NodeTier[n]]) + Cardinality(Requeueable(n, L)) <= MaxDepth
              => \A c \in Requeueable(n, L) : Queued(c)'
<1> DEFINE tier == NodeTier[n]
<1>1. PICK S \in SUBSET Clones : S = Requeueable(n, L)
  BY DEF CustodyInv, TypeOK, Requeueable
<1>2. S \subseteq L
  BY <1>1 DEF Requeueable
<1>3. /\ activeClones' = [activeClones EXCEPT ![n] = @ \ L]
      /\ executing' = [executing EXCEPT ![n] = @ \ L]
      /\ Unassign(S, n)
      /\ \E q \in PriorityQueues(queue[tier], S) : queue' = [queue EXCEPT ![tier] = q]
  BY <1>1 DEF CloseConnection
<1>4. \A c \in S : /\ ~Queued(c) /\ ~Reported(c)
                   /\ TaskTier[TaskOf(c)] = tier
  <2>1. \A c \in S : Held(c) /\ TaskTier[TaskOf(c)] = tier
    BY <1>1, <1>2 DEF CustodyInv, HeldInTier, Held
  <2>2. QED
    BY <2>1 DEF CustodyInv, OnePlace, InOnePlace
<1>5. results' = results
  BY <1>3, <1>4 DEF Unassign, Reported, CustodyInv, TypeOK
<1>6. /\ QueuesSound'
      /\ \A c \in Clones : Queued(c) => Queued(c)'
      /\ \A c \in Clones : Queued(c)' => Queued(c) \/ c \in S
      /\ Len(queue[tier]) + Cardinality(S) <= MaxDepth => \A c \in S : Queued(c)'
  <2>1. PICK q \in PriorityQueues(queue[tier], S) : queue' = [queue EXCEPT ![tier] = q]
    BY <1>3
  <2>2. /\ TypeOK /\ QueuesSound /\ tier \in Tiers
        /\ queue[tier] \in Seq(Clones) /\ IsInjective(queue[tier])
    BY TierAssumption DEF CustodyInv, TypeOK, OnePlace, QueuesSound
  <2>3. \A c \in S : ~Contains(queue[tier], c)
    BY <1>4, <2>2 DEF Queued
  <2>4. /\ q \in Seq(Clones) /\ IsInjective(q)
        /\ \A c : Contains(queue[tier], c) => Contains(q, c)
        /\ \A c : Contains(q, c) => Contains(queue[tier], c) \/ c \in S
        /\ Len(queue[tier]) + Cardinality(S) <= MaxDepth => \A c \in S : Contains(q, c)
    BY <2>1, <2>2, <2>3, PriorityQueuesFacts
  <2> HIDE DEF tier
  <2>5. /\ QueuesSound'
        /\ \A c \in Clones : Queued(c)' => Queued(c) \/ c \in S
        /\ \A c \in Clones : Contains(q, c) => Queued(c)'
        /\ \A c \in Clones :
             Queued(c) /\ (Contains(queue[tier], c) => Contains(q, c)) => Queued(c)'
    BY <1>4, <2>1, <2>2, <2>4, OneQueueChanges
  <2>6. QED
    BY <2>4, <2>5
<1>7. \A t \in Tasks : \A m \in FamilyNodes(familyNodeMap, t) :
        m \in FamilyNodes(familyNodeMap', t) \/ (m = n /\ \E c \in S : TaskOf(c) = t)
  <2>1. /\ IsFamilyMap(familyNodeMap)
        /\ familyNodeMap' = ReleaseAntiAffinity(familyNodeMap, {TaskOf(c) : c \in S}, n)
    BY <1>3 DEF CustodyInv, TypeOK, Unassign
  <2>2. QED
    BY <2>1, ReleaseAntiAffinityFacts
<1>8. \A m \in Nodes : executing'[m] \subseteq activeClones'[m]
  BY <1>3 DEF CustodyInv, TypeOK, OnePlace, OneHolder
<1>9. QED
  <2>1. GivesUp(n, L, S)
    BY <1>2, <1>3, <1>5, <1>6, <1>7, <1>8 DEF GivesUp
  <2>2. QED
    BY <1>1, <1>6, <2>1

(* The clones that the connections of n give up when the daemon loses the  *)
(* one it uses: all that are not on replaced connections                   *)
LEMMA DisconnectGivesUp ==
  ASSUME CustodyInv, NEW n \in Nodes, Disconnect(n)
  PROVE  /\ GivesUp(n, Current(n), Requeueable(n, Current(n)))
         /\ Len(queue[NodeTier[n]]) + Cardinality(Requeueable(n, Current(n))) <= MaxDepth
              => \A c \in Requeueable(n, Current(n)) : Queued(c)'
<1>1. /\ CloseConnection(n, Current(n))
      /\ UNCHANGED <<status, arriving, consensus, stale>>
  BY DEF Disconnect, runVars
<1>2. activeClones' = [activeClones EXCEPT ![n] = @ \ Current(n)]
  BY <1>1 DEF CloseConnection
<1>3. Current(n) \in SUBSET activeClones[n]
  BY DEF Current
<1>4. \A m \in Nodes : stale'[m] \subseteq activeClones'[m]
  BY <1>1, <1>2 DEF CustodyInv, TypeOK, OnePlace, OneHolder, Current
<1>5. QED
  BY <1>1, <1>3, <1>4, CloseGivesUp

LEMMA CloseReplacedGivesUp ==
  ASSUME CustodyInv, NEW n \in Nodes, CloseReplaced(n)
  PROVE  \E L \in SUBSET stale[n] :
           /\ GivesUp(n, L, Requeueable(n, L))
           /\ stale' = [stale EXCEPT ![n] = @ \ L]
           /\ Len(queue[NodeTier[n]]) + Cardinality(Requeueable(n, L)) <= MaxDepth
                => \A c \in Requeueable(n, L) : Queued(c)'
<1>1. PICK L \in SUBSET stale[n] :
        CloseConnection(n, L) /\ stale' = [stale EXCEPT ![n] = @ \ L]
  BY DEF CloseReplaced
<1>2. UNCHANGED <<status, arriving, consensus>>
  BY DEF CloseReplaced, runVars
<1>3. activeClones' = [activeClones EXCEPT ![n] = @ \ L]
  BY <1>1 DEF CloseConnection
<1>4. L \in SUBSET activeClones[n]
  BY DEF CustodyInv, OnePlace, OneHolder
<1>5. \A m \in Nodes : stale'[m] \subseteq activeClones'[m]
  BY <1>1, <1>3 DEF CustodyInv, TypeOK, OnePlace, OneHolder
<1>6. QED
  BY <1>1, <1>2, <1>4, <1>5, CloseGivesUp

LEMMA DisconnectCustody ==
  ASSUME CustodyInv, TypeOK', NEW n \in Nodes, Disconnect(n) \/ CloseReplaced(n)
  PROVE  CustodyInv'
  BY DisconnectGivesUp, CloseReplacedGivesUp, GiveUp

LEMMA TaskEvictionGivesUp ==
  ASSUME CustodyInv, NEW n \in Nodes, NEW c \in Clones, TaskEviction(n, c)
  PROVE  /\ InStore(TaskOf(c)) => GivesUp(n, {c}, {c})
         /\ ~InStore(TaskOf(c)) => GivesUp(n, {c}, {})
         /\ InStore(TaskOf(c)) /\ Len(queue[TaskTier[TaskOf(c)]]) < MaxDepth => Queued(c)'
<1> DEFINE tier == TaskTier[TaskOf(c)]
           q    == EnqueuePriority(queue[tier], c)
<1>1. /\ UNCHANGED <<status, arriving, consensus>>
      /\ activeClones' = [activeClones EXCEPT ![n] = @ \ {c}]
      /\ executing' = [executing EXCEPT ![n] = @ \ {c}]
      /\ c \in executing[n]
  BY DEF TaskEviction, DropClone, runVars
<1>2. c \in activeClones[n]
  BY <1>1 DEF CustodyInv, OnePlace, OneHolder
<1>3. ~Queued(c) /\ ~Reported(c)
  BY <1>2 DEF CustodyInv, OnePlace, InOnePlace, Held
<1>4. \A m \in Nodes : /\ executing'[m] \subseteq activeClones'[m]
                       /\ stale'[m] \subseteq activeClones'[m]
  <2>1. stale' = [stale EXCEPT ![n] = @ \ {c}]
    BY DEF TaskEviction, DropClone
  <2>2. QED
    BY <1>1, <2>1 DEF CustodyInv, TypeOK, OnePlace, OneHolder
<1>5. ASSUME Unassign({c}, n), queue' = [queue EXCEPT ![tier] = q]
      PROVE  GivesUp(n, {c}, {c}) /\ (Len(queue[tier]) < MaxDepth => Queued(c)')
  <2>1. results' = results
    BY <1>3, <1>5 DEF Unassign, Reported, CustodyInv, TypeOK
  <2>2. /\ QueuesSound'
        /\ \A d \in Clones : Queued(d) => Queued(d)'
        /\ \A d \in Clones : Queued(d)' => Queued(d) \/ d \in {c}
        /\ Len(queue[tier]) < MaxDepth => Queued(c)'
    <3>1. /\ TypeOK /\ QueuesSound /\ tier \in Tiers
          /\ queue[tier] \in Seq(Clones) /\ IsInjective(queue[tier])
      BY TierAssumption, ClonesFacts DEF CustodyInv, TypeOK, OnePlace, QueuesSound
    <3>2. ~Contains(queue[tier], c)
      BY <1>3, <3>1 DEF Queued
    <3>3. /\ q \in Seq(Clones) /\ IsInjective(q)
          /\ \A d : Contains(queue[tier], d) => Contains(q, d)
          /\ \A d : Contains(q, d) => Contains(queue[tier], d) \/ d \in {c}
          /\ Len(queue[tier]) < MaxDepth => Contains(q, c)
      BY <3>1, <3>2, EnqueuePriorityFacts
    <3>4. {c} \in SUBSET Clones /\ \A d \in {c} : TaskTier[TaskOf(d)] = tier
      OBVIOUS
    <3> HIDE DEF tier, q
    <3>5. /\ QueuesSound'
          /\ \A d \in Clones : Queued(d)' => Queued(d) \/ d \in {c}
          /\ \A d \in Clones : Contains(q, d) => Queued(d)'
          /\ \A d \in Clones :
               Queued(d) /\ (Contains(queue[tier], d) => Contains(q, d)) => Queued(d)'
      BY <1>5, <3>1, <3>3, <3>4, OneQueueChanges
    <3>6. QED
      BY <3>3, <3>5
  <2>3. \A t \in Tasks : \A m \in FamilyNodes(familyNodeMap, t) :
          m \in FamilyNodes(familyNodeMap', t) \/ (m = n /\ \E d \in {c} : TaskOf(d) = t)
    <3>1. /\ IsFamilyMap(familyNodeMap)
          /\ familyNodeMap' = ReleaseAntiAffinity(familyNodeMap, {TaskOf(d) : d \in {c}}, n)
      BY <1>5 DEF CustodyInv, TypeOK, Unassign
    <3>2. QED
      BY <3>1, ReleaseAntiAffinityFacts
  <2>4. {c} \in SUBSET activeClones[n] /\ {c} \in SUBSET {c}
    BY <1>2
  <2>5. QED
    BY <1>1, <1>4, <2>1, <2>2, <2>3, <2>4 DEF GivesUp
<1>6. ASSUME UNCHANGED <<results, queue, familyNodeMap>>
      PROVE  GivesUp(n, {c}, {})
  <2>1. QueuesSound' /\ \A d \in Clones : Queued(d)' <=> Queued(d)
    BY <1>6 DEF CustodyInv, OnePlace, QueuesSound, Queued
  <2>2. {c} \in SUBSET activeClones[n] /\ {} \in SUBSET {c}
    BY <1>2
  <2>3. \A t \in Tasks : \A m \in FamilyNodes(familyNodeMap, t) :
          m \in FamilyNodes(familyNodeMap', t) \/ (m = n /\ \E d \in {} : TaskOf(d) = t)
    BY <1>6
  <2>4. QED
    BY <1>1, <1>4, <1>6, <2>1, <2>2, <2>3 DEF GivesUp
<1>7. /\ InStore(TaskOf(c)) => Unassign({c}, n) /\ queue' = [queue EXCEPT ![tier] = q]
      /\ ~InStore(TaskOf(c)) => UNCHANGED <<results, queue, familyNodeMap>>
  BY Zenon DEF TaskEviction, queueVars
<1> HIDE DEF q
<1>8. QED
  BY <1>5, <1>6, <1>7

LEMMA TaskEvictionCustody ==
  ASSUME CustodyInv, TypeOK', NEW n \in Nodes, NEW c \in Clones, TaskEviction(n, c)
  PROVE  CustodyInv'
  BY TaskEvictionGivesUp, GiveUp

(* What AddResult does, whether or not the task is still in the store      *)
LEMMA AddResultCustody ==
  ASSUME CustodyInv, TypeOK', NEW c \in Clones, NEW r \in Reports, AddResult(c, r),
         Carries(r.node, c), Held(c) \/ arriving[c] # NoReport,
         \A m \in Nodes : activeClones'[m] = activeClones[m] \ {c},
         \A m \in Nodes : executing'[m] \subseteq activeClones'[m],
         \A m \in Nodes : stale'[m] \subseteq activeClones'[m],
         UNCHANGED <<status, queue, familyNodeMap>>,
         \A d \in Clones : arriving'[d] = IF d = c THEN NoReport ELSE arriving[d]
  PROVE  CustodyInv'
<1>1. results[c] = NoReport
  BY DEF CustodyInv, OnePlace, InOnePlace, Reported
<1>2. \/ results' = [results EXCEPT ![c] = r]
      \/ results' = results
  BY Zenon DEF AddResult
<1>3. /\ \A d \in Clones \ {c} : results'[d] = results[d]
      /\ results'[c] \in {r, NoReport}
  BY <1>1, <1>2 DEF CustodyInv, TypeOK
<1>4. \A d \in Clones : consensus'[d] # "idle"
                          => consensus[d] # "idle" \/ AllReported(TaskOf(d))'
  <2>1. CASE consensus' = consensus
    BY <2>1
  <2>2. CASE /\ results' = [results EXCEPT ![c] = r]
             /\ consensus' = [consensus EXCEPT ![c] = "recording"]
             /\ \A d \in ClonesOf(TaskOf(c)) \ {c} : Reported(d)
    <3>1. results'[c] = r
      BY <2>2 DEF CustodyInv, TypeOK
    <3>2. AllReported(TaskOf(c))'
      BY <1>3, <2>2, <3>1, ClonesFacts, ReportFacts DEF AllReported, Reported
    <3>3. \A d \in Clones : d # c => consensus'[d] = consensus[d]
      BY <2>2 DEF CustodyInv, TypeOK
    <3>4. QED
      BY <3>2, <3>3
  <2>3. QED
    BY <2>1, <2>2, Zenon DEF AddResult
<1>5. arriving'[c] = NoReport
  OBVIOUS
<1>6. QED
  BY <1>3, <1>4, <1>5, ResultMoves

(* What a TASK_RESULT of n for c brings: the result waits, or is added.    *)
LEMMA TaskResultReport ==
  ASSUME NEW n \in Nodes, NEW c \in Clones, TaskResult(n, c)
  PROVE  \E r \in Reports :
           /\ r.node = n
           /\ \/ arriving' = [arriving EXCEPT ![c] = r] /\ UNCHANGED <<results, consensus>>
              \/ AddResult(c, r) /\ UNCHANGED arriving
<1>1. PICK v \in Values, S \in OnConnectionOf(n, c) :
        LET r == [node |-> n, value |-> v]
        IN  IF S = {c}
            THEN /\ arriving' = [arriving EXCEPT ![c] = r]
                 /\ UNCHANGED <<results, consensus>>
            ELSE AddResult(c, r) /\ UNCHANGED arriving
  BY DEF TaskResult
<1> DEFINE r == [node |-> n, value |-> v]
<1>2. r \in Reports /\ r.node = n
  BY ReportFacts
<1>3. \/ arriving' = [arriving EXCEPT ![c] = r] /\ UNCHANGED <<results, consensus>>
      \/ AddResult(c, r) /\ UNCHANGED arriving
  BY <1>1, Zenon
<1> HIDE DEF r
<1>4. QED
  BY <1>2, <1>3

LEMMA TaskResultCustody ==
  ASSUME CustodyInv, TypeOK', NEW n \in Nodes, NEW c \in Clones, TaskResult(n, c)
  PROVE  CustodyInv'
<1>1. /\ UNCHANGED <<status, queue, familyNodeMap>>
      /\ activeClones' = [activeClones EXCEPT ![n] = @ \ {c}]
      /\ executing' = [executing EXCEPT ![n] = @ \ {c}]
      /\ c \in executing[n]
      /\ stale' = [stale EXCEPT ![n] = @ \ {c}]
  BY DEF TaskResult, DropClone, queueVars
<1>2. c \in activeClones[n] /\ Held(c)
  BY <1>1 DEF CustodyInv, OnePlace, OneHolder, Held
<1>3. arriving[c] = NoReport /\ results[c] = NoReport
  BY <1>2 DEF CustodyInv, OnePlace, InOnePlace, Reported
<1>4. \A m \in Nodes : activeClones'[m] = activeClones[m] \ {c}
  BY <1>1, <1>2 DEF CustodyInv, TypeOK, OnePlace, OneHolder
<1>5. \A m \in Nodes : /\ executing'[m] \subseteq activeClones'[m]
                       /\ stale'[m] \subseteq activeClones'[m]
  BY <1>1 DEF CustodyInv, TypeOK, OnePlace, OneHolder
<1>6. PICK r \in Reports :
        /\ r.node = n
        /\ \/ arriving' = [arriving EXCEPT ![c] = r] /\ UNCHANGED <<results, consensus>>
           \/ AddResult(c, r) /\ UNCHANGED arriving
  BY TaskResultReport
<1>7. Carries(r.node, c)
  BY <1>2, <1>6 DEF Carries
<1>8. CASE arriving' = [arriving EXCEPT ![c] = r] /\ UNCHANGED <<results, consensus>>
  <2>1. /\ \A d \in Clones \ {c} : arriving'[d] = arriving[d] /\ results'[d] = results[d]
        /\ arriving'[c] \in {r, NoReport} /\ results'[c] \in {r, NoReport}
        /\ arriving'[c] = NoReport \/ results'[c] = NoReport
    BY <1>3, <1>8 DEF CustodyInv, TypeOK
  <2>2. \A d \in Clones : consensus'[d] # "idle"
                            => consensus[d] # "idle" \/ AllReported(TaskOf(d))'
    BY <1>8
  <2>3. QED
    BY <1>1, <1>2, <1>4, <1>5, <1>7, <2>1, <2>2, ResultMoves
<1>9. CASE AddResult(c, r) /\ UNCHANGED arriving
  <2>1. \A d \in Clones : arriving'[d] = IF d = c THEN NoReport ELSE arriving[d]
    BY <1>3, <1>9
  <2>2. QED
    BY <1>1, <1>2, <1>4, <1>5, <1>7, <1>9, <2>1, AddResultCustody
<1>10. QED
  BY <1>6, <1>8, <1>9

LEMMA OnCloneResultCustody ==
  ASSUME CustodyInv, TypeOK', NEW c \in Clones, OnCloneResult(c)
  PROVE  CustodyInv'
<1>1. /\ UNCHANGED <<status, queue, familyNodeMap, activeClones, stale, executing>>
      /\ AddResult(c, arriving[c])
      /\ arriving' = [arriving EXCEPT ![c] = NoReport]
      /\ arriving[c] # NoReport
  BY DEF OnCloneResult, queueVars, connVars, cloneVars
<1>2. PICK r \in Reports : r = arriving[c]
  BY <1>1 DEF CustodyInv, TypeOK
<1>3. r.node \in Nodes /\ Carries(r.node, c)
  BY <1>1, <1>2, ReportFacts DEF Carries
<1>4. ~Held(c)
  BY <1>1 DEF CustodyInv, OnePlace, InOnePlace
<1>5. \A m \in Nodes : activeClones'[m] = activeClones[m] \ {c}
  BY <1>1, <1>4 DEF Held
<1>6. \A m \in Nodes : /\ executing'[m] \subseteq activeClones'[m]
                       /\ stale'[m] \subseteq activeClones'[m]
  BY <1>1 DEF CustodyInv, OnePlace, OneHolder
<1>7. \A d \in Clones : arriving'[d] = IF d = c THEN NoReport ELSE arriving[d]
  BY <1>1 DEF CustodyInv, TypeOK
<1>8. QED
  BY <1>1, <1>2, <1>3, <1>5, <1>6, <1>7, AddResultCustody

(* The memory of a process that has just started                           *)
Empty ==
  /\ TypeOK
  /\ \A tier \in Tiers : queue[tier] = << >>
  /\ \A n \in Nodes : activeClones[n] = {} /\ stale[n] = {} /\ executing[n] = {}
  /\ \A c \in Clones : /\ arriving[c] = NoReport /\ results[c] = NoReport
                       /\ consensus[c] = "idle"

LEMMA EmptyCustody == Empty => CustodyInv
<1> SUFFICES ASSUME Empty PROVE CustodyInv
  OBVIOUS
<1>1. \A tier \in Tiers : IsInjective(queue[tier]) /\ \A c : ~Contains(queue[tier], c)
  BY DEF Empty, IsInjective, Contains
<1>2. \A c \in Clones : ~Queued(c) /\ ~Held(c) /\ ~Reported(c)
  BY <1>1 DEF Empty, Queued, Held, Reported
<1>3. \A n \in Nodes, c \in Clones : ~Carries(n, c)
  BY DEF Empty, Carries
<1>4. QED
  BY <1>1, <1>2, <1>3 DEF Empty, CustodyInv, OnePlace, QueuesSound, OneHolder, InOnePlace,
     HeldInTier, NoneBeforeSubmission, RunsComplete, FamilyCovers, AntiAffinity

LEMMA InitCustody == Init => CustodyInv
  BY InitTypeOK, EmptyCustody DEF Init, Empty

LEMMA RestartCustody ==
  ASSUME TypeOK', Restart
  PROVE  CustodyInv'
<1>1. Empty'
  BY DEF Restart, Empty
<1>2. QED
  BY <1>1, EmptyCustody, PTL

LEMMA NextCustody == CustodyInv /\ [Next]_vars => CustodyInv'
<1> SUFFICES ASSUME CustodyInv, [Next]_vars PROVE CustodyInv'
  OBVIOUS
<1>1. TypeOK /\ TypeOK'
  BY NextTypeOK DEF CustodyInv
<1> DEFINE Frame == /\ UNCHANGED <<results, queue, familyNodeMap, activeClones, stale, executing, arriving>>
                    /\ \A c \in Clones : consensus'[c] # "idle" => consensus[c] # "idle"
                    /\ \A t \in Tasks : status'[t] = "NONE" => status[t] = "NONE"
<1>2. Frame => CustodyInv'
  BY <1>1, VerdictCustody
<1>3. ASSUME NEW t \in Tasks, Submit(t) PROVE CustodyInv'
  BY <1>1, <1>3, SubmitCustody
<1>4. ASSUME NEW t \in Tasks, TrackTaskSla(t) \/ Refuse(t) PROVE Frame
  BY <1>4 DEF TrackTaskSla, Refuse, taskVars, queueVars, connVars, cloneVars, runVars
<1>5. ASSUME NEW t \in Tasks, SlaTimer(t) PROVE CustodyInv'
  BY <1>1, <1>5, SlaTimerCustody
<1>6. ASSUME NEW t \in Tasks, CloudAnswer(t) PROVE Frame
  BY <1>1, <1>6 DEF CloudAnswer, TypeOK, queueVars, connVars, cloneVars, runVars
<1>7. ASSUME NEW t \in Tasks, Purge(t) PROVE Frame
  BY <1>1, <1>7 DEF Purge, TypeOK, queueVars, connVars, cloneVars, runVars
<1>8. ASSUME NEW n \in Nodes, Register(n) \/ CloseWhileRegistering(n) PROVE Frame
  BY <1>8 DEF Register, CloseWhileRegistering, taskVars, queueVars, cloneVars, runVars
<1>8r. ASSUME NEW n \in Nodes, Reconnect(n) PROVE CustodyInv'
  BY <1>1, <1>8r, ReconnectCustody
<1>9. ASSUME NEW n \in Nodes, Disconnect(n) \/ CloseReplaced(n) PROVE CustodyInv'
  BY <1>1, <1>9, DisconnectCustody
<1>10. ASSUME NEW n \in Nodes, Steal(n) PROVE CustodyInv'
  BY <1>1, <1>10, StealCustody
<1>11. ASSUME NEW n \in Nodes, NEW c \in Clones, SendAssignment(n, c) PROVE CustodyInv'
  BY <1>1, <1>11, SendAssignmentCustody
<1>12. ASSUME NEW n \in Nodes, NEW c \in Clones, TaskResult(n, c) PROVE CustodyInv'
  BY <1>1, <1>12, TaskResultCustody
<1>13. ASSUME NEW n \in Nodes, NEW c \in Clones, TaskEviction(n, c) PROVE CustodyInv'
  BY <1>1, <1>13, TaskEvictionCustody
<1>14. ASSUME NEW n \in Nodes, NEW c \in Clones, AckEviction(n, c) PROVE Frame
  BY <1>14 DEF AckEviction, taskVars, queueVars, cloneVars, runVars
<1>15. ASSUME NEW c \in Clones, OnCloneResult(c) PROVE CustodyInv'
  BY <1>1, <1>15, OnCloneResultCustody
<1>16. ASSUME NEW c \in Clones, RunConsensus(c) PROVE Frame
  <2>1. /\ UNCHANGED <<results, queue, familyNodeMap, activeClones, stale, executing, arriving>>
        /\ consensus[c] # "idle"
    BY <1>16 DEF RunConsensus, queueVars, connVars, cloneVars
  <2>2. \/ consensus' = [consensus EXCEPT ![c] = "paying"]
        \/ consensus' = [consensus EXCEPT ![c] = "idle"]
    BY <1>16, Zenon DEF RunConsensus
  <2>3. \/ status' = status
        \/ status' = [status EXCEPT ![TaskOf(c)] = "FAILED"]
    BY <1>16, Zenon DEF RunConsensus
  <2>4. \A d \in Clones : consensus'[d] # "idle" => consensus[d] # "idle"
    BY <1>1, <2>1, <2>2 DEF TypeOK
  <2>5. \A t \in Tasks : status'[t] = "NONE" => status[t] = "NONE"
    BY <1>1, <2>3 DEF TypeOK
  <2>6. QED
    BY <2>1, <2>4, <2>5
<1>17. ASSUME NEW c \in Clones, Pay(c) \/ Slash(c) PROVE Frame
  BY <1>17 DEF Pay, Slash, taskVars, queueVars, connVars, cloneVars
<1>18. ASSUME NEW c \in Clones, CompleteTask(c) PROVE Frame
  <2>1. /\ UNCHANGED <<results, queue, familyNodeMap, activeClones, stale, executing, arriving>>
        /\ consensus[c] # "idle"
        /\ consensus' = [consensus EXCEPT ![c] = "closing"]
        /\ status' = [status EXCEPT ![TaskOf(c)] = "COMPLETED"] \/ status' = status
    BY <1>18 DEF CompleteTask, queueVars, connVars, cloneVars
  <2>2. QED
    BY <1>1, <2>1 DEF TypeOK
<1>19. ASSUME NEW c \in Clones, CloseConsensus(c) PROVE CustodyInv'
  BY <1>1, <1>19, CloseConsensusCustody
<1>20. ASSUME CrashAndRestart PROVE CustodyInv'
  BY <1>1, <1>20, RestartCustody DEF CrashAndRestart
<1>20r. ASSUME NEW c \in Clones, RunConsensusThrows(c) PROVE CustodyInv'
  BY <1>1, <1>20r, RestartCustody DEF RunConsensusThrows
<1>21. ASSUME UNCHANGED vars PROVE Frame
  BY <1>21 DEF vars, taskVars, queueVars, connVars, cloneVars, runVars
<1> HIDE DEF Frame
<1>22. QED
  BY <1>2, <1>3, <1>4, <1>5, <1>6, <1>7, <1>8, <1>8r, <1>9, <1>10, <1>11, <1>12, <1>13,
     <1>14, <1>15, <1>16, <1>17, <1>18, <1>19, <1>20, <1>20r, <1>21 DEF Next

(* No clone is ever lost track of or duplicated, anti-affinity survives    *)
(* every eviction, disconnection and purge, and the record that steal()    *)
(* consults covers every node that works on a clone or has answered it.    *)
THEOREM CustodyIsInvariant == Spec => []CustodyInv
  BY InitCustody, NextCustody, PTL DEF Spec

(* Every clone is in at most one place: a position of its queue, one node, *)
(* a result on its way, the results of its task.                           *)
THEOREM ClonesInOnePlace == Spec => []OnePlace
<1>1. CustodyInv => OnePlace
  BY DEF CustodyInv
<1>2. QED
  BY <1>1, CustodyIsInvariant, PTL

(* Distinct nodes work on and answer the clones of one family.             *)
THEOREM AntiAffinityHolds == Spec => []AntiAffinity
<1>1. CustodyInv => AntiAffinity
  BY DEF CustodyInv
<1>2. QED
  BY <1>1, CustodyIsInvariant, PTL

(* A consensus run finds all results of its task, whatever ran between the *)
(* count that started it and the moment it reads them.                     *)
LEMMA RunsStayComplete == Spec => []RunsComplete
<1>1. CustodyInv => RunsComplete
  BY DEF CustodyInv
<1>2. QED
  BY <1>1, CustodyIsInvariant, PTL
=============================================================================
