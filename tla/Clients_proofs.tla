---------------------------- MODULE Clients_proofs ----------------------------
(***************************************************************************)
(* Theorems about module RagPipeline, with the client of module ClientView *)
(* and the tasks of module TaskLifecycle: for any documents, any size of   *)
(* chunks and any overlap.                                                 *)
(***************************************************************************)
EXTENDS RagPipeline, FiniteSetTheorems, SequenceTheorems, TLAPS

-----------------------------------------------------------------------------
(* chunkDocument *)

LEMMA Division ==
  ASSUME NEW n \in Nat, NEW s \in Nat \ {0}
  PROVE  /\ n \div s \in Nat /\ n % s \in 0 .. s - 1
         /\ n = s * (n \div s) + (n % s)
<1>1. n \div s \in Nat
  OBVIOUS
<1>2. n % s \in 0 .. s - 1
  OBVIOUS
<1>3. n % s = n - s * (n \div s)
  OBVIOUS
<1>4. s * (n \div s) \in Int
  BY <1>1
<1>5. n = s * (n \div s) + (n % s)
  BY <1>3, <1>4
<1>6. QED
  BY <1>1, <1>2, <1>5

LEMMA Multiples ==
  ASSUME NEW s \in Nat \ {0}, NEW k \in Nat
  PROVE  /\ s * k \in Nat /\ (s * k) % s = 0
         /\ \A j \in Nat : j < k => s * j + s <= s * k
<1>1. s * k \in Nat
  OBVIOUS
<1>2. (s * k + 0) % s = 0
  OBVIOUS
<1>3. ASSUME NEW j \in Nat, j < k PROVE s * j + s <= s * k
  BY <1>3
<1>4. QED
  BY <1>1, <1>2, <1>3

(* For a document, a size and a smaller overlap of any length, chunking    *)
(* loses no character, and shares the overlap between a chunk and an       *)
(* earlier one.                                                            *)
THEOREM ChunksCover ==
  ASSUME NEW n \in Nat \ {0}, NEW size \in Nat \ {0}, NEW overlap \in 0 .. size - 1
  PROVE  Covers(n, size, overlap)
<1> DEFINE s == Step(size, overlap)
           starts == {p \in 0 .. n - 1 : p % s = 0}
<1>1. s \in Nat \ {0} /\ s + overlap = size /\ overlap \in Nat
  BY DEF Step
<1> HIDE DEF s
<1>2. Starts(n, size, overlap) = starts
  BY <1>1 DEF Starts, s
<1>3. UNION {ChunkAt(p, n, size) : p \in starts} = 0 .. n - 1
  <2>1. ASSUME NEW p \in starts, NEW q \in ChunkAt(p, n, size) PROVE q \in 0 .. n - 1
    BY <2>1 DEF ChunkAt
  <2>2. ASSUME NEW q \in 0 .. n - 1
        PROVE  \E p \in starts : q \in ChunkAt(p, n, size)
    <3>1. /\ q \div s \in Nat /\ q % s \in 0 .. s - 1
          /\ q = s * (q \div s) + (q % s)
      <4>1. q \in Nat
        OBVIOUS
      <4>2. QED
        BY <1>1, <4>1, Division
    <3>2. s * (q \div s) \in Nat /\ (s * (q \div s)) % s = 0
      BY <1>1, <3>1, Multiples
    <3>3. s * (q \div s) \in starts
      BY <3>1, <3>2
    <3>4. q \in ChunkAt(s * (q \div s), n, size)
      BY <1>1, <3>1, <3>2 DEF ChunkAt
    <3>5. QED
      BY <3>3, <3>4
  <2> HIDE DEF starts
  <2>3. QED
    BY <2>1, <2>2
<1>4. ASSUME NEW p \in starts \ {0}
      PROVE  \E q \in starts :
               /\ q < p
               /\ Cardinality(ChunkAt(q, n, size) \intersect p .. n - 1)
                    = IF n - p < overlap THEN n - p ELSE overlap
  <2>1. p \in Nat /\ p # 0 /\ p < n /\ p % s = 0
    OBVIOUS
  <2>2. /\ p \div s \in Nat /\ p = s * (p \div s)
    <3>1. p \div s \in Nat /\ p = s * (p \div s) + (p % s) /\ s * (p \div s) \in Nat
      BY <1>1, <2>1, Division, Multiples
    <3>2. QED
      BY <2>1, <3>1
  <2>3. PICK j \in Nat : p = s * j + s
    <3>1. p \div s # 0
      BY <1>1, <2>1, <2>2
    <3>2. PICK j \in Nat : p \div s = j + 1
      <4>1. (p \div s) - 1 \in Nat /\ p \div s = ((p \div s) - 1) + 1
        BY <2>2, <3>1
      <4>2. QED
        BY <4>1
    <3>3. p = s * (j + 1)
      BY <2>2, <3>2, Zenon
    <3>4. p = s * j + s
      BY <1>1, <3>3
    <3>5. QED
      BY <3>4
  <2> DEFINE q == s * j
             last == IF n - p < overlap THEN n - 1 ELSE p + overlap - 1
  <2>4. q \in Nat /\ q % s = 0
    BY <1>1, Multiples
  <2>5. p = q + s
    BY <2>3
  <2> HIDE DEF q
  <2>6. q \in starts /\ q < p
    BY <1>1, <2>1, <2>4, <2>5
  <2>7. ChunkAt(q, n, size) \intersect p .. n - 1 = p .. last
    <3>1. q + size - 1 = p + overlap - 1
      BY <1>1, <2>1, <2>4, <2>5
    <3>2. q <= p /\ p \in Int /\ n \in Int /\ q \in Int /\ overlap \in Int
      BY <1>1, <2>1, <2>4, <2>6
    <3>3. ASSUME NEW r
          PROVE  r \in ChunkAt(q, n, size) \intersect p .. n - 1 <=> r \in p .. last
      BY <3>1, <3>2 DEF ChunkAt
    <3> HIDE DEF last
    <3>4. QED
      BY <3>3, Zenon
  <2>8. Cardinality(p .. last) = IF n - p < overlap THEN n - p ELSE overlap
    <3>1. p \in Int /\ last \in Int
      BY <1>1, <2>1
    <3>2. Cardinality(p .. last) = IF p > last THEN 0 ELSE last - p + 1
      BY <3>1, FS_Interval
    <3>3. QED
      BY <1>1, <2>1, <3>2
  <2>9. QED
    BY <2>6, <2>7, <2>8
<1> HIDE DEF starts
<1>5. QED
  BY <1>2, <1>3, <1>4 DEF Covers

(* Each chunk has a character of its own. *)
LEMMA ChunksBounded ==
  ASSUME NEW n \in Nat \ {0}
  PROVE  Cardinality(Starts(n, ChunkSize, Overlap)) \in 1 .. n
<1> DEFINE S == Starts(n, ChunkSize, Overlap)
<1>1. S \subseteq 0 .. n - 1 /\ 0 \in S
  <2>1. Step(ChunkSize, Overlap) \in Int
    BY ChunkAssumption DEF Step
  <2>2. QED
    BY <2>1 DEF Starts
<1> HIDE DEF S
<1>2. IsFiniteSet(0 .. n - 1) /\ Cardinality(0 .. n - 1) = n
  BY FS_Interval
<1>3. IsFiniteSet(S) /\ Cardinality(S) \in Nat /\ Cardinality(S) <= n
  BY <1>1, <1>2, FS_Subset, FS_CardinalityType
<1>4. Cardinality(S) # 0
  BY <1>1, <1>3, FS_EmptySet
<1>5. QED
  BY <1>3, <1>4 DEF S

(* Whatever document the pipeline stores is covered by its chunks. *)
THEOREM DocumentsAreCovered == RagSpec => []DocumentCovered
<1>1. DocumentCovered
  <2>1. ASSUME NEW n \in 1 .. MaxText, NEW size \in 1 .. MaxText, NEW overlap \in 0 .. size - 1
        PROVE  Covers(n, size, overlap)
    BY ChunksCover, ChunkAssumption
  <2>2. QED
    BY <2>1 DEF DocumentCovered
<1>2. QED
  BY <1>1, PTL

-----------------------------------------------------------------------------
(* The tasks of the chunks *)

(* What the store holds of a document follows from where its job stands:   *)
(* nothing before the loop, and then the chunks up to the one the loop     *)
(* has come to.                                                            *)
JobInv ==
  \A d \in Documents :
    /\ job[d] # "none" => length[d] # 0
    /\ job[d] \in {"none", "storing", "refused"} =>
         \A i \in 1 .. MaxLength : status[<<d, i>>] = "NONE"
    /\ job[d] = "dispatching" =>
         /\ next[d] \in 1 .. ChunksOf(d)
         /\ \A i \in 1 .. MaxLength : IF i <= next[d]
                                      THEN status[<<d, i>>] \notin {"NONE", "LOST"}
                                      ELSE status[<<d, i>>] = "NONE"
    /\ job[d] = "running" =>
         \A i \in 1 .. ChunksOf(d) : status[<<d, i>>] \notin {"NONE", "LOST"}

(* The loop times a chunk before it makes the next one. *)
TimerInv ==
  \A d \in Documents, i \in 1 .. MaxLength :
    InStore(<<d, i>>) /\ cloud[<<d, i>>] = "untimed" =>
      job[d] = "dispatching" /\ next[d] = i

(* A request to the cloud is about a task that was accepted, and a verdict *)
(* in the store is a decision.                                             *)
TaskInv ==
  \A t \in Tasks :
    /\ cloud[t] = "asked" => status[t] # "NONE"
    /\ status[t] \in Verdicts => t \in decided

JobTypeOK ==
  /\ job \in [Documents -> Stages]
  /\ length \in [Documents -> 0 .. MaxLength]
  /\ next \in [Documents -> 0 .. MaxLength]

ChunkInv == LifecycleTypeOK /\ JobTypeOK /\ JobInv /\ TimerInv /\ TaskInv

(* r, shown of t, has not been contradicted: only the cloud and the end of *)
(* a decided task come after its verdict.                                  *)
Stands(t, r) ==
  r \in Verdicts => \/ status[t] \in {"PURGED", "LOST"}
                    \/ t \in decided /\ status[t] \in {r, "CLOUD_FALLBACK"}

VerdictsStand == \A t \in Tasks, r \in Verdicts : Stands(t, r) => Stands(t, r)'

LEMMA ChunksOfFacts ==
  ASSUME JobTypeOK, JobInv, NEW d \in Documents, job[d] # "none"
  PROVE  ChunksOf(d) \in 1 .. MaxLength /\ length[d] \in Nat \ {0} /\ length[d] <= MaxLength
<1>1. length[d] \in Nat \ {0} /\ length[d] <= MaxLength /\ MaxLength \in Nat
  BY ChunkAssumption DEF JobTypeOK, JobInv
<1>2. QED
  BY <1>1, ChunksBounded DEF ChunksOf

LEMMA TasksFacts ==
  /\ \A d \in Documents, i \in 1 .. MaxLength : <<d, i>> \in Tasks
  /\ \A t \in Tasks : /\ t[1] \in Documents /\ t[2] \in 1 .. MaxLength
                      /\ t = <<t[1], t[2]>>
  BY ChunkAssumption

LEMMA InitChunk == RagInit => ChunkInv
<1> SUFFICES ASSUME RagInit PROVE ChunkInv
  OBVIOUS
<1>1. LifecycleTypeOK
  BY CopiesAssumption DEF RagInit, Init, LifecycleTypeOK, Statuses
<1>2. JobTypeOK
  BY ChunkAssumption DEF RagInit, JobTypeOK, Stages
<1>3. \A t \in Tasks : status[t] = "NONE" /\ cloud[t] = "untimed"
  BY DEF RagInit, Init
<1>4. JobInv /\ TimerInv
  BY <1>3, TasksFacts DEF RagInit, JobInv, TimerInv, InStore
<1>5. TaskInv
  BY <1>3 DEF TaskInv, Verdicts
<1>6. QED
  BY <1>1, <1>2, <1>4, <1>5 DEF ChunkInv

(* The loop makes the task of chunk i of d, and leaves the others alone.   *)
LEMMA CreateTaskFacts ==
  ASSUME ChunkInv, NEW d \in Documents, NEW i \in 1 .. MaxLength,
         status[<<d, i>>] = "NONE", CreateTask(d, i)
  PROVE  /\ \A t \in Tasks : status'[t] = IF t = <<d, i>> THEN "CLONED" ELSE status[t]
         /\ job' = [job EXCEPT ![d] = "dispatching"]
         /\ next' = [next EXCEPT ![d] = i]
         /\ status' \in [Tasks -> Statuses]
  BY TasksFacts DEF CreateTask, ChunkInv, LifecycleTypeOK, Statuses

LEMMA ChunkStep ==
  ASSUME ChunkInv,
         \/ \E d \in Documents : Initiate(d) \/ StoreChunks(d) \/ Dispatch(d)
         \/ \E t \in Tasks : Proceed(t) /\ UNCHANGED ragVars
         \/ ProcessDies
         \/ UNCHANGED <<lifecycleVars, ragVars>>
  PROVE  ChunkInv' /\ VerdictsStand
<1>0. /\ LifecycleTypeOK /\ JobTypeOK /\ JobInv /\ TimerInv /\ TaskInv
      /\ MaxLength \in Nat \ {0}
  BY ChunkAssumption DEF ChunkInv
<1> DEFINE Goal == ChunkInv' /\ VerdictsStand
<1>1. ASSUME NEW d \in Documents, Initiate(d) PROVE Goal
  <2>1. PICK n \in 1 .. MaxLength : length' = [length EXCEPT ![d] = n]
    BY <1>1 DEF Initiate
  <2>2. /\ job[d] = "none" /\ job' = [job EXCEPT ![d] = "storing"]
        /\ UNCHANGED <<status, reported, cloud, decided, next>>
    BY <1>1 DEF Initiate, lifecycleVars
  <2>3. LifecycleTypeOK' /\ JobTypeOK' /\ TaskInv' /\ VerdictsStand
    BY <1>0, <2>1, <2>2
    DEF LifecycleTypeOK, JobTypeOK, Stages, TaskInv, InStore, VerdictsStand, Stands
  <2>4. ASSUME NEW e \in Documents, e # d
        PROVE  job'[e] = job[e] /\ ChunksOf(e)' = ChunksOf(e) /\ length'[e] = length[e]
    BY <1>0, <2>1, <2>2, <2>4 DEF JobTypeOK, ChunksOf
  <2>5. job'[d] = "storing" /\ length'[d] = n
    BY <1>0, <2>1, <2>2 DEF JobTypeOK
  <2>6. JobInv'
    BY <1>0, <2>2, <2>4, <2>5 DEF JobInv
  <2>7. TimerInv'
    BY <1>0, <2>2, <2>4, <2>5 DEF TimerInv, InStore
  <2>8. QED
    BY <2>3, <2>6, <2>7 DEF ChunkInv
<1>2. ASSUME NEW d \in Documents, StoreChunks(d) PROVE Goal
  <2>1. /\ job[d] = "storing" /\ UNCHANGED <<reported, cloud, decided, length>>
        /\ \A i \in 1 .. MaxLength : status[<<d, i>>] = "NONE"
    BY <1>0, <1>2 DEF StoreChunks, JobInv
  <2>2. \A e \in Documents : ChunksOf(e)' = ChunksOf(e)
    BY <2>1 DEF ChunksOf
  <2>3. CASE CreateTask(d, 1)
    <3>1. /\ \A t \in Tasks : status'[t] = IF t = <<d, 1>> THEN "CLONED" ELSE status[t]
          /\ job' = [job EXCEPT ![d] = "dispatching"]
          /\ next' = [next EXCEPT ![d] = 1]
          /\ status' \in [Tasks -> Statuses]
      <4>1. 1 \in 1 .. MaxLength /\ status[<<d, 1>>] = "NONE"
        BY <1>0, <2>1
      <4>2. QED
        BY <2>3, <4>1, CreateTaskFacts
    <3>2. LifecycleTypeOK' /\ JobTypeOK'
      BY <1>0, <2>1, <3>1 DEF LifecycleTypeOK, JobTypeOK, Stages
    <3>3. TaskInv' /\ VerdictsStand
      BY <1>0, <2>1, <3>1, TasksFacts DEF TaskInv, InStore, VerdictsStand, Stands, Verdicts
    <3>4. job'[d] = "dispatching" /\ next'[d] = 1
      BY <1>0, <3>1 DEF JobTypeOK
    <3>5. \A e \in Documents : e # d =>
            /\ job'[e] = job[e] /\ next'[e] = next[e]
            /\ \A i \in 1 .. MaxLength : status'[<<e, i>>] = status[<<e, i>>]
      BY <1>0, <3>1, TasksFacts DEF JobTypeOK
    <3>6. \A i \in 1 .. MaxLength : status'[<<d, i>>] = IF i = 1 THEN "CLONED" ELSE "NONE"
      BY <2>1, <3>1, TasksFacts
    <3>7. ChunksOf(d) \in 1 .. MaxLength
      BY <1>0, <2>1, ChunksOfFacts
    <3>8. JobInv'
      <4>1. \A e \in Documents : job[e] # "none" => ChunksOf(e) \in 1 .. MaxLength
        BY <1>0, ChunksOfFacts
      <4>2. QED
        BY <1>0, <2>1, <2>2, <3>4, <3>5, <3>6, <3>7, <4>1 DEF JobInv
    <3>9. TimerInv'
      BY <1>0, <2>1, <3>4, <3>5, <3>6 DEF TimerInv, InStore
    <3>10. QED
      BY <3>2, <3>3, <3>8, <3>9 DEF ChunkInv
  <2>4. CASE job' = [job EXCEPT ![d] = "refused"] /\ UNCHANGED <<status, next>>
    <3>1. LifecycleTypeOK' /\ JobTypeOK' /\ TaskInv' /\ VerdictsStand
      BY <1>0, <2>1, <2>4
      DEF LifecycleTypeOK, JobTypeOK, Stages, TaskInv, InStore, VerdictsStand, Stands
    <3>2. job'[d] = "refused" /\ \A e \in Documents : e # d => job'[e] = job[e]
      BY <1>0, <2>4 DEF JobTypeOK
    <3>3. JobInv'
      BY <1>0, <2>1, <2>2, <2>4, <3>2 DEF JobInv
    <3>4. TimerInv'
      BY <1>0, <2>1, <2>4, <3>2 DEF TimerInv, InStore
    <3>5. QED
      BY <3>1, <3>3, <3>4 DEF ChunkInv
  <2>5. QED
    BY <1>2, <2>3, <2>4 DEF StoreChunks
<1>3. ASSUME NEW d \in Documents, Dispatch(d) PROVE Goal
  <2> DEFINE i == next[d]
  <2>1. /\ job[d] = "dispatching" /\ UNCHANGED <<reported, decided, length>>
        /\ i \in 1 .. ChunksOf(d) /\ ChunksOf(d) \in 1 .. MaxLength
        /\ cloud' = [cloud EXCEPT ![<<d, i>>] = "timed"]
        /\ \A j \in 1 .. MaxLength : IF j <= i THEN status[<<d, j>>] \notin {"NONE", "LOST"}
                                     ELSE status[<<d, j>>] = "NONE"
    BY <1>0, <1>3, ChunksOfFacts DEF Dispatch, JobInv
  <2>2. \A e \in Documents : ChunksOf(e)' = ChunksOf(e)
    BY <2>1 DEF ChunksOf
  <2>3. i \in 1 .. MaxLength /\ i \in Nat
    BY <1>0, <2>1
  <2>4. \A t \in Tasks : cloud'[t] = IF t = <<d, i>> THEN "timed" ELSE cloud[t]
    BY <1>0, <2>1, <2>3, TasksFacts DEF LifecycleTypeOK
  <2>5. cloud' \in [Tasks -> {"untimed", "timed", "refused", "asked", "answered"}]
    BY <1>0, <2>1 DEF LifecycleTypeOK
  <2>6. CASE i < ChunksOf(d) /\ CreateTask(d, i + 1)
    <3>0. i + 1 \in 1 .. MaxLength /\ status[<<d, i + 1>>] = "NONE"
      <4>1. i + 1 \in 1 .. MaxLength /\ ~(i + 1 <= i)
        BY <1>0, <2>1, <2>3, <2>6
      <4>2. QED
        BY <2>1, <4>1
    <3>1. /\ \A t \in Tasks : status'[t] = IF t = <<d, i + 1>> THEN "CLONED" ELSE status[t]
          /\ job' = [job EXCEPT ![d] = "dispatching"]
          /\ next' = [next EXCEPT ![d] = i + 1]
          /\ status' \in [Tasks -> Statuses]
      BY <1>0, <2>6, <3>0, CreateTaskFacts
    <3>2. LifecycleTypeOK' /\ JobTypeOK'
      BY <1>0, <2>1, <2>5, <3>0, <3>1 DEF LifecycleTypeOK, JobTypeOK, Stages
    <3>3. TaskInv' /\ VerdictsStand
      BY <1>0, <2>1, <2>4, <3>0, <3>1 DEF TaskInv, InStore, VerdictsStand, Stands, Verdicts
    <3>4. job'[d] = "dispatching" /\ next'[d] = i + 1
      BY <1>0, <3>1 DEF JobTypeOK
    <3>5. \A e \in Documents : e # d =>
            /\ job'[e] = job[e] /\ next'[e] = next[e]
            /\ \A j \in 1 .. MaxLength : /\ status'[<<e, j>>] = status[<<e, j>>]
                                        /\ cloud'[<<e, j>>] = cloud[<<e, j>>]
      BY <1>0, <2>4, <3>1, TasksFacts DEF JobTypeOK
    <3>6. \A j \in 1 .. MaxLength :
            /\ status'[<<d, j>>] = IF j = i + 1 THEN "CLONED" ELSE status[<<d, j>>]
            /\ cloud'[<<d, j>>] = IF j = i THEN "timed" ELSE cloud[<<d, j>>]
      BY <2>4, <3>1, TasksFacts
    <3>7. JobInv'
      <4>1. /\ next'[d] \in 1 .. ChunksOf(d)'
            /\ \A j \in 1 .. MaxLength : IF j <= next'[d]
                                         THEN status'[<<d, j>>] \notin {"NONE", "LOST"}
                                         ELSE status'[<<d, j>>] = "NONE"
        <5>1. next'[d] \in 1 .. ChunksOf(d)'
          BY <2>1, <2>2, <2>3, <2>6, <3>4
        <5>2. ASSUME NEW j \in 1 .. MaxLength, j <= i + 1
              PROVE  status'[<<d, j>>] \notin {"NONE", "LOST"}
          BY <2>1, <2>3, <3>6, <5>2
        <5>3. ASSUME NEW j \in 1 .. MaxLength, ~(j <= i + 1)
              PROVE  status'[<<d, j>>] = "NONE"
          BY <2>1, <2>3, <3>6, <5>3
        <5>4. QED
          BY <3>4, <5>1, <5>2, <5>3
      <4>2. length'[d] # 0
        BY <1>0, <2>1 DEF JobInv
      <4>3. \A e \in Documents : job[e] # "none" => ChunksOf(e) \in 1 .. MaxLength
        BY <1>0, ChunksOfFacts
      <4>4. QED
        BY <1>0, <2>1, <2>2, <3>4, <3>5, <4>1, <4>2, <4>3 DEF JobInv
    <3>8. TimerInv'
      BY <1>0, <2>1, <3>4, <3>5, <3>6 DEF TimerInv, InStore
    <3>9. QED
      BY <3>2, <3>3, <3>7, <3>8 DEF ChunkInv
  <2>7. CASE /\ ~(i < ChunksOf(d)) /\ job' = [job EXCEPT ![d] = "running"]
             /\ UNCHANGED <<status, next>>
    <3>1. LifecycleTypeOK' /\ JobTypeOK'
      BY <1>0, <2>1, <2>5, <2>7 DEF LifecycleTypeOK, JobTypeOK, Stages
    <3>2. TaskInv' /\ VerdictsStand
      BY <1>0, <2>1, <2>4, <2>7 DEF TaskInv, InStore, VerdictsStand, Stands
    <3>3. job'[d] = "running" /\ \A e \in Documents : e # d => job'[e] = job[e]
      BY <1>0, <2>7 DEF JobTypeOK
    <3>4. \A e \in Documents, j \in 1 .. MaxLength :
            cloud'[<<e, j>>] = IF e = d /\ j = i THEN "timed" ELSE cloud[<<e, j>>]
      BY <2>4, TasksFacts
    <3>5. JobInv'
      BY <1>0, <2>1, <2>2, <2>3, <2>7, <3>3 DEF JobInv
    <3>6. TimerInv'
      BY <1>0, <2>1, <2>7, <3>3, <3>4 DEF TimerInv, InStore
    <3>7. QED
      BY <3>1, <3>2, <3>5, <3>6 DEF ChunkInv
  <2>8. QED
    BY <1>3, <2>6, <2>7 DEF Dispatch
<1>4. ASSUME NEW t \in Tasks, Proceed(t), UNCHANGED ragVars PROVE Goal
  <2>1. UNCHANGED <<job, length, next>>
    BY <1>4 DEF ragVars
  <2>2. \A e \in Documents : ChunksOf(e)' = ChunksOf(e)
    BY <2>1 DEF ChunksOf
  <2>3. /\ \/ status' = status
           \/ /\ InStore(t)
              /\ \E s \in Statuses \ {"NONE", "LOST"} : status' = [status EXCEPT ![t] = s]
        /\ cloud' = cloud \/ \E s \in {"asked", "answered"} : cloud' = [cloud EXCEPT ![t] = s]
    <3>1. CASE Decide(t)
      BY <3>1 DEF Decide, Statuses, Verdicts
    <3>2. CASE Breach(t)
      BY <3>2 DEF Breach, Statuses, InStore
    <3>3. CASE CloudAnswer(t)
      BY <3>3 DEF CloudAnswer, Statuses
    <3>4. CASE Report(t) \/ Purge(t)
      BY <3>4 DEF Report, Purge, Statuses
    <3>5. QED
      BY <1>4, <3>1, <3>2, <3>3, <3>4 DEF Proceed
  <2>4. LifecycleTypeOK'
    <3>1. reported' \in [Tasks -> 0 .. Copies]
      <4>1. \/ reported' = reported
            \/ /\ reported[t] < Copies
               /\ reported' = [reported EXCEPT ![t] = @ + 1]
        <5>1. CASE Report(t)
          BY <5>1 DEF Report
        <5>2. CASE Decide(t) \/ Breach(t) \/ CloudAnswer(t)
          BY <5>2 DEF Decide, Breach, CloudAnswer
        <5>3. CASE Purge(t)
          BY <5>3 DEF Purge
        <5>4. QED
          BY <1>4, <5>1, <5>2, <5>3 DEF Proceed
      <4>2. QED
        BY <1>0, <4>1, CopiesAssumption DEF LifecycleTypeOK
    <3>2. decided' \subseteq Tasks
      BY <1>0, <1>4 DEF Proceed, Report, Decide, Breach, CloudAnswer, Purge, LifecycleTypeOK
    <3>3. status' \in [Tasks -> Statuses]
      BY <1>0, <2>3 DEF LifecycleTypeOK
    <3>4. cloud' \in [Tasks -> {"untimed", "timed", "refused", "asked", "answered"}]
      BY <1>0, <2>3 DEF LifecycleTypeOK
    <3>5. QED
      BY <3>1, <3>2, <3>3, <3>4 DEF LifecycleTypeOK
  <2>5. \A u \in Tasks : /\ status'[u] = "NONE" <=> status[u] = "NONE"
                         /\ status'[u] = "LOST" <=> status[u] = "LOST"
                         /\ InStore(u)' => InStore(u)
                         /\ cloud'[u] = "untimed" => cloud[u] = "untimed"
    <3>1. \A u \in Tasks : cloud'[u] = "untimed" => cloud[u] = "untimed"
      BY <1>0, <2>3 DEF LifecycleTypeOK
    <3>2. CASE status' = status
      BY <3>1, <3>2 DEF InStore
    <3>3. ASSUME InStore(t), NEW s \in Statuses \ {"NONE", "LOST"},
                 status' = [status EXCEPT ![t] = s]
          PROVE  \A u \in Tasks : /\ status'[u] = "NONE" <=> status[u] = "NONE"
                                  /\ status'[u] = "LOST" <=> status[u] = "LOST"
                                  /\ InStore(u)' => InStore(u)
      BY <1>0, <3>3 DEF LifecycleTypeOK, InStore
    <3>4. QED
      BY <2>3, <3>1, <3>2, <3>3
  <2>6. JobInv'
    <3>1. \A e \in Documents, j \in 1 .. MaxLength :
            /\ status'[<<e, j>>] = "NONE" <=> status[<<e, j>>] = "NONE"
            /\ status'[<<e, j>>] = "LOST" <=> status[<<e, j>>] = "LOST"
      BY <2>5, TasksFacts
    <3>2. \A e \in Documents : job[e] # "none" => ChunksOf(e) \in 1 .. MaxLength
      BY <1>0, ChunksOfFacts
    <3>3. QED
      BY <1>0, <2>1, <2>2, <3>1, <3>2 DEF JobInv
  <2>7. TimerInv'
    BY <1>0, <2>1, <2>5, TasksFacts DEF TimerInv
  <2>8. TaskInv' /\ VerdictsStand
    <3>1. CASE Report(t)
      BY <1>0, <3>1 DEF Report, TaskInv, InStore, VerdictsStand, Stands
    <3>2. CASE Decide(t)
      <4>1. t \notin decided /\ decided' = decided \union {t} /\ UNCHANGED cloud
        BY <3>2 DEF Decide
      <4>2. CASE InStore(t)
        <5>1. PICK verdict \in Verdicts : status' = [status EXCEPT ![t] = verdict]
          BY <3>2, <4>2 DEF Decide
        <5>2. \A u \in Tasks : status'[u] = IF u = t THEN verdict ELSE status[u]
          BY <1>0, <5>1 DEF LifecycleTypeOK
        <5>3. QED
          BY <1>0, <4>1, <4>2, <5>2 DEF TaskInv, InStore, VerdictsStand, Stands, Verdicts
      <4>3. CASE ~InStore(t)
        <5>1. UNCHANGED status
          BY <3>2, <4>3 DEF Decide
        <5>2. QED
          BY <1>0, <4>1, <5>1 DEF TaskInv, VerdictsStand, Stands, Verdicts
      <4>4. QED
        BY <4>2, <4>3
    <3>3. CASE Breach(t)
      BY <1>0, <3>3
      DEF Breach, TaskInv, InStore, VerdictsStand, Stands, Verdicts, LifecycleTypeOK
    <3>4. CASE CloudAnswer(t)
      BY <1>0, <3>4
      DEF CloudAnswer, TaskInv, InStore, VerdictsStand, Stands, Verdicts, LifecycleTypeOK
    <3>5. CASE Purge(t)
      BY <1>0, <3>5
      DEF Purge, TaskInv, InStore, VerdictsStand, Stands, Verdicts, LifecycleTypeOK
    <3>6. QED
      BY <1>4, <3>1, <3>2, <3>3, <3>4, <3>5 DEF Proceed
  <2>9. QED
    BY <1>0, <2>1, <2>4, <2>6, <2>7, <2>8 DEF ChunkInv, JobTypeOK
<1>5. ASSUME ProcessDies PROVE Goal
  <2>1. /\ UNCHANGED <<length, next>>
        /\ \A t \in Tasks : /\ status'[t] = IF InStore(t) THEN "LOST" ELSE status[t]
                            /\ cloud'[t] = "untimed"
        /\ decided' = {}
        /\ \A d \in Documents : job'[d] = IF job[d] = "running" THEN "forgotten"
             ELSE IF job[d] \in {"storing", "dispatching"} THEN "lost" ELSE job[d]
    BY <1>5 DEF ProcessDies, Die
  <2>2. LifecycleTypeOK' /\ JobTypeOK'
    <3>1. status' \in [Tasks -> Statuses] /\ reported' \in [Tasks -> 0 .. Copies]
      BY <1>0, <1>5, CopiesAssumption DEF ProcessDies, Die, LifecycleTypeOK, Statuses
    <3>2. /\ cloud' \in [Tasks -> {"untimed", "timed", "refused", "asked", "answered"}]
          /\ decided' \subseteq Tasks
      BY <1>5 DEF ProcessDies, Die
    <3>3. job' \in [Documents -> Stages]
      BY <1>0, <1>5 DEF ProcessDies, JobTypeOK, Stages
    <3>4. QED
      BY <1>0, <2>1, <3>1, <3>2, <3>3 DEF LifecycleTypeOK, JobTypeOK
  <2>3. JobInv'
    BY <1>0, <2>1, TasksFacts DEF JobInv, InStore
  <2>4. TimerInv' /\ TaskInv' /\ VerdictsStand
    BY <1>0, <2>1, TasksFacts DEF TimerInv, TaskInv, InStore, VerdictsStand, Stands, Verdicts
  <2>5. QED
    BY <2>2, <2>3, <2>4 DEF ChunkInv
<1>6. ASSUME UNCHANGED <<lifecycleVars, ragVars>> PROVE Goal
  <2>1. UNCHANGED <<status, reported, cloud, decided, job, length, next>>
    BY <1>6 DEF lifecycleVars, ragVars
  <2>2. QED
    BY <1>0, <2>1 DEF ChunkInv, LifecycleTypeOK, JobTypeOK, JobInv, TimerInv, TaskInv, InStore,
       ChunksOf, VerdictsStand, Stands
<1>7. QED
  BY <1>1, <1>2, <1>3, <1>4, <1>5, <1>6

LEMMA ChunksTimedFollows == ChunkInv => ChunksTimed
<1> SUFFICES ASSUME ChunkInv PROVE ChunksTimed
  OBVIOUS
<1>0. JobTypeOK /\ JobInv /\ TimerInv
  BY DEF ChunkInv
<1>1. ASSUME NEW d \in Documents, job[d] = "running", NEW t \in Chunks(d)
      PROVE  status[t] \notin {"NONE", "LOST"}
  <2>1. PICK i \in 1 .. ChunksOf(d) : t = <<d, i>>
    BY <1>1 DEF Chunks
  <2>2. QED
    BY <1>0, <1>1, <2>1 DEF JobInv
<1>2. QED
  BY <1>0, <1>1 DEF ChunksTimed, TimerInv, JobInv

-----------------------------------------------------------------------------
(* The client *)

(* What is on the screen, on the wire or in the reply to a request stands: *)
(* verdicts are not taken back while they travel.                          *)
ViewInv ==
  /\ source = "open" => tracked \in Tasks
  /\ wire # << >> => source = "open"
  /\ \A k \in 1 .. Len(wire) : Stands(tracked, wire[k])
  /\ fallback.reply \in Replies => fallback.task \in Tasks
  /\ Stands(fallback.task, fallback.reply)
  /\ panel.shows # "nothing" => panel.task \in Tasks
  /\ Stands(panel.task, panel.shows)

ClientInv == ChunkInv /\ ViewTypeOK /\ ViewInv

LEMMA SnapshotFacts ==
  ASSUME ChunkInv, NEW t \in Tasks
  PROVE  Snapshot(t) \in Replies /\ Stands(t, Snapshot(t))
<1>1. status[t] \in Statuses /\ (status[t] \in Verdicts => t \in decided)
  BY DEF ChunkInv, LifecycleTypeOK, TaskInv
<1>2. QED
  BY <1>1 DEF Snapshot, Replies, Closing, Terminal, Verdicts, Statuses, InStore, Stands

LEMMA InitClient == RagInit => ClientInv
<1> SUFFICES ASSUME RagInit PROVE ClientInv
  OBVIOUS
<1>1. ViewTypeOK
  BY DEF RagInit, ViewInit, ViewTypeOK
<1>2. ViewInv
  BY DEF RagInit, ViewInit, ViewInv, Stands, Verdicts, Replies, Closing, Terminal, NoRequest
<1>3. QED
  BY <1>1, <1>2, InitChunk DEF ClientInv

(* When the store changes, what was shown of a task still stands. *)
LEMMA ViewKept ==
  ASSUME ViewTypeOK, ViewInv, VerdictsStand,
         UNCHANGED <<tracked, source, wire, fallback, panel>>
  PROVE  ViewInv'
<1>1. \A t \in Tasks : \A r : Stands(t, r) => Stands(t, r)'
  BY DEF VerdictsStand, Stands
<1>2. \A k \in 1 .. Len(wire) : Stands(tracked, wire[k])'
  BY <1>1 DEF ViewInv
<1>3. Stands(fallback.task, fallback.reply)' /\ Stands(panel.task, panel.shows)'
  BY <1>1 DEF ViewInv, ViewTypeOK, Stands, Verdicts, Replies, Closing, Terminal
<1>4. QED
  BY <1>2, <1>3 DEF ViewInv

LEMMA SendFacts ==
  ASSUME ChunkInv, ChunkInv', ViewTypeOK, ViewInv, UNCHANGED lifecycleVars,
         source = "open", NEW seen \in {NothingSeen} \union Replies \X (0 .. Copies), Send(seen)
  PROVE  /\ stream' \in {"opening", "polling", "ended"}
         /\ lastSeen' \in {NothingSeen} \union Replies \X (0 .. Copies)
         /\ wire' \in Seq(Replies)
         /\ \A k \in 1 .. Len(wire') : Stands(tracked, wire'[k])
<1>1. tracked \in Tasks /\ wire \in Seq(Replies)
  BY DEF ViewInv, ViewTypeOK
<1>2. Snapshot(tracked) \in Replies /\ Stands(tracked, Snapshot(tracked))
  BY <1>1, SnapshotFacts
<1>3. /\ wire' = Append(wire, Snapshot(tracked))
      /\ \/ stream' = "polling" /\ lastSeen' = seen
         \/ stream' = "ended" /\ lastSeen' = NothingSeen
  BY DEF Send
<1>4. /\ wire' \in Seq(Replies) /\ Len(wire') = Len(wire) + 1
      /\ \A k \in 1 .. Len(wire') : wire'[k] = IF k = Len(wire) + 1 THEN Snapshot(tracked)
                                              ELSE wire[k]
  BY <1>1, <1>2, <1>3
<1>5. ASSUME NEW k \in 1 .. Len(wire') PROVE Stands(tracked, wire'[k])
  <2>1. CASE k = Len(wire) + 1
    BY <1>2, <1>4, <2>1
  <2>2. CASE k # Len(wire) + 1
    <3>1. k \in 1 .. Len(wire) /\ wire'[k] = wire[k]
      BY <1>1, <1>4, <2>2
    <3>2. QED
      BY <3>1 DEF ViewInv
  <2>3. QED
    BY <2>1, <2>2
<1>6. QED
  BY <1>3, <1>4, <1>5

LEMMA WatchStep ==
  ASSUME ClientInv, ChunkInv', UNCHANGED lifecycleVars, Watch
  PROVE  ViewTypeOK' /\ ViewInv'
<1>0. /\ ChunkInv /\ ViewTypeOK /\ ViewInv /\ wire \in Seq(Replies)
      /\ UNCHANGED <<status, decided>>
  BY DEF ClientInv, ViewTypeOK, lifecycleVars
<1>st. \A t, r : Stands(t, r)' <=> Stands(t, r)
  BY <1>0 DEF Stands
<1> DEFINE Goal == ViewTypeOK' /\ ViewInv'
<1>1. CASE OnMessage
  <2>1. /\ source = "open" /\ wire # << >> /\ UNCHANGED <<tracked, fallback>>
        /\ panel' = [task |-> tracked, shows |-> Head(wire)]
        /\ \/ wire' = Tail(wire) /\ UNCHANGED <<source, stream, lastSeen>>
           \/ wire' = << >> /\ source' = "closed" /\ stream' = "ended" /\ lastSeen' = NothingSeen
    BY <1>1 DEF OnMessage, CloseSource
  <2>2. /\ tracked \in Tasks /\ Head(wire) \in Replies /\ Head(wire) = wire[1]
        /\ 1 \in 1 .. Len(wire) /\ Tail(wire) \in Seq(Replies)
        /\ \A k \in 1 .. Len(Tail(wire)) : k + 1 \in 1 .. Len(wire) /\ Tail(wire)[k] = wire[k + 1]
    BY <1>0, <2>1 DEF ViewInv
  <2>3. /\ wire' \in Seq(Replies)
        /\ \A k \in 1 .. Len(wire') : Stands(tracked, wire'[k])
    <3>1. CASE wire' = Tail(wire)
      BY <1>0, <2>2, <3>1 DEF ViewInv
    <3>2. CASE wire' = << >>
      BY <3>2
    <3>3. QED
      BY <2>1, <3>1, <3>2
  <2>4. Stands(tracked, Head(wire))
    BY <1>0, <2>2 DEF ViewInv
  <2>5. ViewTypeOK'
    BY <1>0, <2>1, <2>2, <2>3 DEF ViewTypeOK
  <2>6. ViewInv'
    BY <1>0, <1>st, <2>1, <2>2, <2>3, <2>4 DEF ViewInv
  <2>7. QED
    BY <2>5, <2>6
<1>2. CASE OnError
  <2>1. /\ source = "open" /\ UNCHANGED <<tracked, panel>>
        /\ wire' = << >> /\ source' = "closed" /\ stream' = "ended" /\ lastSeen' = NothingSeen
        /\ fallback' = [task |-> tracked, reply |-> "asked"]
    BY <1>2 DEF OnError, CloseSource
  <2>2. tracked \in Tasks
    BY <1>0, <2>1 DEF ViewInv
  <2>3. ViewTypeOK'
    BY <1>0, <2>1, <2>2 DEF ViewTypeOK
  <2>4. ViewInv'
    BY <1>0, <1>st, <2>1, <2>2 DEF ViewInv, Stands, Verdicts
  <2>5. QED
    BY <2>3, <2>4
<1>3. CASE ConnectionBreaks
  <2>1. /\ UNCHANGED <<tracked, source, fallback, panel>>
        /\ wire' = << >> /\ stream' = "ended" /\ lastSeen' = NothingSeen
    BY <1>3 DEF ConnectionBreaks
  <2>2. ViewTypeOK'
    BY <1>0, <2>1 DEF ViewTypeOK
  <2>3. ViewInv'
    BY <1>0, <1>st, <2>1 DEF ViewInv
  <2>4. QED
    BY <2>2, <2>3
<1>4. CASE AnswerFallback
  <2>1. PICK reply \in {Snapshot(fallback.task), "error"} :
          fallback' = [fallback EXCEPT !.reply = reply]
    BY <1>4 DEF AnswerFallback
  <2>2. fallback.reply = "asked" /\ UNCHANGED <<tracked, source, stream, lastSeen, wire, panel>>
    BY <1>4 DEF AnswerFallback
  <2>3. fallback.task \in Tasks /\ fallback = [task |-> fallback.task, reply |-> fallback.reply]
    BY <1>0, <2>2 DEF ViewTypeOK, NoRequest
  <2>4. reply \in Replies /\ Stands(fallback.task, reply)
    BY <1>0, <2>1, <2>3, SnapshotFacts DEF Stands, Verdicts, Replies
  <2>5. fallback'.task = fallback.task /\ fallback'.reply = reply
        /\ fallback' \in [task : Tasks, reply : Replies \union {"asked"}]
    BY <2>1, <2>3, <2>4
  <2>6. ViewTypeOK'
    BY <1>0, <2>2, <2>5 DEF ViewTypeOK
  <2>7. ViewInv'
    BY <1>0, <1>st, <2>2, <2>3, <2>4, <2>5 DEF ViewInv
  <2>8. QED
    BY <2>6, <2>7
<1>5. CASE RenderFallback
  <2>1. /\ fallback.reply \in Replies
        /\ panel' = [task |-> fallback.task, shows |-> fallback.reply]
        /\ fallback' = NoRequest
        /\ UNCHANGED <<tracked, source, stream, lastSeen, wire>>
    BY <1>5 DEF RenderFallback
  <2>2. ViewTypeOK'
    BY <1>0, <2>1 DEF ViewTypeOK, ViewInv
  <2>3. ViewInv'
    BY <1>0, <1>st, <2>1 DEF ViewInv, NoRequest, Stands, Verdicts, Replies, Closing, Terminal
  <2>4. QED
    BY <2>2, <2>3
<1>6. CASE OpenStream \/ Poll
  <2>1. source = "open" /\ UNCHANGED <<tracked, source, fallback, panel>>
    BY <1>6 DEF OpenStream, Poll
  <2>2. /\ stream' \in {"opening", "polling", "ended"}
        /\ lastSeen' \in {NothingSeen} \union Replies \X (0 .. Copies)
        /\ wire' \in Seq(Replies)
        /\ \A k \in 1 .. Len(wire') : Stands(tracked, wire'[k])
    <3>1. CASE Send(NothingSeen)
      BY <1>0, <2>1, <3>1, SendFacts
    <3>2. CASE InStore(tracked) /\ Send(<<status[tracked], reported[tracked]>>)
      <4>1. tracked \in Tasks /\ Snapshot(tracked) = status[tracked]
        BY <1>0, <2>1, <3>2 DEF ViewInv, Snapshot
      <4>2. status[tracked] \in Replies /\ reported[tracked] \in 0 .. Copies
        BY <1>0, <4>1, SnapshotFacts DEF ChunkInv, LifecycleTypeOK
      <4>3. QED
        BY <1>0, <2>1, <3>2, <4>2, SendFacts
    <3>3. CASE stream' = "ended" /\ lastSeen' = NothingSeen /\ UNCHANGED wire
      BY <1>0, <3>3 DEF ViewInv
    <3>4. QED
      BY <1>6, <3>1, <3>2, <3>3 DEF OpenStream, Poll
  <2>3. ViewTypeOK'
    BY <1>0, <2>1, <2>2 DEF ViewTypeOK
  <2>4. ViewInv'
    BY <1>0, <1>st, <2>1, <2>2 DEF ViewInv
  <2>5. QED
    BY <2>3, <2>4
<1>7. QED
  BY <1>1, <1>2, <1>3, <1>4, <1>5, <1>6 DEF Watch

LEMMA NextClient == ClientInv /\ [RagNext]_allVars => ClientInv'
<1> SUFFICES ASSUME ClientInv, [RagNext]_allVars PROVE ClientInv'
  OBVIOUS
<1>0. ChunkInv /\ ViewTypeOK /\ ViewInv
  BY DEF ClientInv
<1> DEFINE ViewFrame == UNCHANGED <<tracked, source, wire, fallback, panel>>
                        /\ stream' \in {stream, "ended"} /\ lastSeen' \in {lastSeen, NothingSeen}
<1>fr. ASSUME ChunkInv', VerdictsStand, ViewFrame PROVE ClientInv'
  BY <1>0, <1>fr, ViewKept DEF ClientInv, ViewTypeOK
<1>1. ASSUME NEW d \in Documents, Initiate(d) \/ StoreChunks(d) \/ Dispatch(d)
      PROVE  ClientInv'
  <2>1. ViewFrame
    BY <1>1 DEF Initiate, StoreChunks, Dispatch, viewVars
  <2>2. QED
    BY <1>0, <1>1, <1>fr, <2>1, ChunkStep
<1>2. ASSUME NEW t \in Tasks, Proceed(t), UNCHANGED <<viewVars, ragVars>> PROVE ClientInv'
  BY <1>0, <1>2, <1>fr, ChunkStep DEF viewVars
<1>3. ASSUME NEW t \in Tasks, TrackTask(t), UNCHANGED ragVars PROVE ClientInv'
  <2>1. /\ tracked' = t /\ source' = "open" /\ stream' = "opening" /\ lastSeen' = NothingSeen
        /\ wire' = << >> /\ UNCHANGED <<lifecycleVars, fallback, panel>>
    BY <1>3 DEF TrackTask
  <2>2. ChunkInv'
    BY <1>0, <1>3, <2>1, ChunkStep
  <2>3. ViewTypeOK'
    BY <1>0, <2>1 DEF ViewTypeOK
  <2>4. ViewInv'
    BY <1>0, <2>1 DEF ViewInv, Stands, lifecycleVars
  <2>5. QED
    BY <2>2, <2>3, <2>4 DEF ClientInv
<1>4. ASSUME Watch, UNCHANGED ragVars PROVE ClientInv'
  <2>1. UNCHANGED lifecycleVars
    BY <1>4 DEF Watch, OnMessage, OnError, ConnectionBreaks, AnswerFallback, RenderFallback,
       OpenStream, Poll
  <2>2. ChunkInv'
    BY <1>0, <1>4, <2>1, ChunkStep
  <2>3. QED
    BY <1>4, <2>1, <2>2, WatchStep DEF ClientInv
<1>5. ASSUME ProcessDies PROVE ClientInv'
  <2>1. ViewFrame
    BY <1>5 DEF ProcessDies, StreamsEnd
  <2>2. QED
    BY <1>0, <1>5, <1>fr, <2>1, ChunkStep
<1>6. ASSUME UNCHANGED allVars PROVE ClientInv'
  <2>1. ViewFrame /\ UNCHANGED <<lifecycleVars, ragVars>>
    BY <1>6 DEF allVars, viewVars
  <2>2. QED
    BY <1>0, <1>fr, <2>1, ChunkStep
<1>7. QED
  BY <1>1, <1>2, <1>3, <1>4, <1>5, <1>6 DEF RagNext

(* The inductive invariant of the jobs, the tasks of their chunks and the  *)
(* client that follows them.                                               *)
THEOREM ClientIsInvariant == RagSpec => []ClientInv
  BY InitClient, NextClient, PTL DEF RagSpec

(* Jobs, store, streams and the screen keep to their types; no chunk is    *)
(* beyond the document, whatever the size and the overlap.                 *)
THEOREM TypeCorrect == RagSpec => []TypeOK
<1>1. ClientInv => TypeOK
  BY DEF ClientInv, ChunkInv, JobTypeOK, TypeOK
<1>2. QED
  BY <1>1, ClientIsInvariant, PTL

(* A chunk task without an SLA timer has a handler that is about to start  *)
(* it, and an answered job lists tasks that exist or existed.              *)
THEOREM ChunksAreTimed == RagSpec => []ChunksTimed
<1>1. ClientInv => ChunksTimed
  BY ChunksTimedFollows DEF ClientInv
<1>2. QED
  BY <1>1, ClientIsInvariant, PTL

(* A verdict on the screen is the engine's, and was not taken back: late   *)
(* events and replies of earlier requests show what still holds.           *)
THEOREM ShownVerdictsStand == RagSpec => []VerdictShown
<1>1. ClientInv => VerdictShown
  BY DEF ClientInv, ViewInv, Stands, VerdictShown
<1>2. QED
  BY <1>1, ClientIsInvariant, PTL
=============================================================================
