------------------------------ MODULE TierQueue ------------------------------
(***************************************************************************)
(* The work-stealing queue of one hardware tier (queue/tier-queue.ts) and  *)
(* the dispatch over tiers (queue/manager.ts), as operators on             *)
(*                                                                         *)
(*   - a queue: the sequence of clones waiting in one tier, head first;    *)
(*   - a family map: the partial function familyNodeMap that records, per  *)
(*     task family, the nodes that took one of its clones.                 *)
(*                                                                         *)
(* A queue item is represented by its clone: the payload, the priority     *)
(* field, the timestamps and the metrics are never read to order or select *)
(* items.  A task and its family are in one-to-one correspondence          *)
(* (api/rest.ts:83), so a family is named by its task, and the maps of the *)
(* tiers, whose families are disjoint, are kept as one map.                *)
(***************************************************************************)
EXTENDS Integers, Sequences, FiniteSets, Functions, SequencesExt

CONSTANTS
  Tasks,          \* the tasks that clients may submit
  Nodes,          \* the edge nodes
  MaxDepth,       \* config.queueMaxDepth
  ClonesPerTask   \* config.clonesPerTask

ASSUME TasksAssumption == IsFiniteSet(Tasks)
ASSUME MaxDepthAssumption == MaxDepth \in Nat
ASSUME ClonesAssumption == ClonesPerTask \in Nat \ {0}

(* A clone is the i-th copy of a task. *)
Clones == Tasks \X (1..ClonesPerTask)

TaskOf(c) == c[1]

ClonesOf(t) == {t} \X (1..ClonesPerTask)

-----------------------------------------------------------------------------
(* The queue *)

IsFull(q) == Len(q) >= MaxDepth

(* Mutant: the clone id is made once for all copies. *)
EnqueueSameClone(q, t) ==
  q \o [i \in 1..(IF IsFull(q) THEN 0 ELSE ClonesPerTask) |-> <<t, 1>>]

(* The clones of t pushed at the back one by one; those that no longer fit *)
(* are refused, and the caller only logs the refusal.                      *)
EnqueueClones(q, t) ==
  LET room  == IF IsFull(q) THEN 0 ELSE MaxDepth - Len(q)
      taken == IF room < ClonesPerTask THEN room ELSE ClonesPerTask
  IN  q \o [i \in 1..taken |-> <<t, i>>]

(* One evicted clone put at index 0, or refused by a full queue. *)
EnqueuePriority(q, c) == IF IsFull(q) THEN q ELSE <<c>> \o q

(* The queues that pushing the clones of S to index 0 one after the other, *)
(* in any order, can produce: each push is refused once the queue is full. *)
PriorityQueues(q, S) ==
  LET room == IF IsFull(q) THEN 0 ELSE MaxDepth - Len(q)
      size == Cardinality(S)
      fit  == IF room < size THEN room ELSE size
  IN  UNION { { front \o q : front \in Bijection(1..fit, R) }
              : R \in { R \in SUBSET S : Cardinality(R) = fit } }

(* The elements of s that are in Keep, in their order. *)
Filter(s, Keep) ==
  LET kept[k \in 0..Len(s)] ==
        IF k = 0 THEN << >>
        ELSE IF s[k] \in Keep THEN Append(kept[k - 1], s[k])
        ELSE kept[k - 1]
  IN  kept[Len(s)]

(* Drop every queued clone of a task. *)
RemoveByTaskId(q, t) == Filter(q, Clones \ ClonesOf(t))

-----------------------------------------------------------------------------
(* Anti-affinity *)

IsFamilyMap(fm) == DOMAIN fm \subseteq Tasks /\ fm \in [DOMAIN fm -> SUBSET Nodes]

(* The nodes recorded for the family of t: none when the family is absent. *)
FamilyNodes(fm, t) == IF t \in DOMAIN fm THEN fm[t] ELSE {}

SetFamily(fm, t, S) ==
  [u \in DOMAIN fm \union {t} |-> IF u = t THEN S ELSE fm[u]]

(* enqueue() initialises the family of the item it accepts. *)
InitFamily(fm, t) == SetFamily(fm, t, FamilyNodes(fm, t))

(* Mutant: steal() does not add the thief to the family. *)
RecordFamilyOnly(fm, t, n) == InitFamily(fm, t)

(* steal() records the thief, creating the family when it is absent. *)
RecordThief(fm, t, n) == SetFamily(fm, t, FamilyNodes(fm, t) \union {n})

(* Mutants: an eviction releases nobody, or everybody. *)
ReleaseNobody(fm, T, n) == fm

ReleaseEverybody(fm, T, n) ==
  [u \in DOMAIN fm |-> IF u \in T THEN fm[u] \ Nodes ELSE fm[u]]

(* releaseAntiAffinity() for the families of T; absent ones are ignored. *)
ReleaseAntiAffinity(fm, T, n) ==
  [u \in DOMAIN fm |-> IF u \in T THEN fm[u] \ {n} ELSE fm[u]]

CleanupFamily(fm, t) == [u \in DOMAIN fm \ {t} |-> fm[u]]

(* The positions a node may steal from: it has no clone of the family, and *)
(* neither has any of the nodes `same` that share its IP address.          *)
Eligible(q, fm, n, same) ==
  { i \in DOMAIN q : FamilyNodes(fm, TaskOf(q[i])) \intersect ({n} \union same) = {} }

(* steal() scans from the head and takes the first eligible position. *)
IsFirstEligible(i, q, fm, n, same) ==
  /\ i \in Eligible(q, fm, n, same)
  /\ \A j \in Eligible(q, fm, n, same) : i <= j

=============================================================================
