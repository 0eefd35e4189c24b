------------------------------ MODULE Rows_proofs ------------------------------
(***************************************************************************)
(* Theorems about module Rows, for any tasks, copies and nodes, whether or *)
(* not the database fails.                                                 *)
(***************************************************************************)
EXTENDS Rows, TLAPS

(* While the process boots nothing of it is under way but the recovery,    *)
(* and what the recovery selected are rows that are there.                 *)
BootInv ==
  /\ boot # "up" =>
       /\ writes = {} /\ connected = {} /\ mine = {} /\ seen = {}
       /\ \A t \in Tasks : /\ submission[t] = "none" /\ ~InStore(t)
                          /\ cloud[t] = "untimed" /\ reported[t] = 0
  /\ boot = "up" => abandoned = {}
  /\ \A t \in abandoned : taskRow[t] # "absent"

(* A row comes after the task in memory, and a handler after both.         *)
OrderInv ==
  \A t \in Tasks :
    /\ status[t] = "NONE" => taskRow[t] = "absent"
    /\ submission[t] # "none" => t \in mine /\ "CLONED" \in reached[t] /\ status[t] # "NONE"
    /\ submission[t] = "clones" => taskRow[t] # "absent"
    /\ submission[t] = "task" => taskRow[t] = "absent"
    /\ cloud[t] = "refused" => submission[t] = "refused"

(* What the memory has been of a task tells which conclusion it came to    *)
(* before it was purged: the cloud's, as long as its verdict is to come.   *)
MemoryInv ==
  \A t \in Tasks :
    /\ status[t] \in reached[t] \union {"NONE", "LOST"}
    /\ status[t] \in Verdicts => t \in decided
    /\ reported[t] # 0 \/ cloud[t] = "asked" => status[t] \notin {"NONE", "LOST"}
    /\ status[t] = "PURGED" =>
         /\ reached[t] \intersect Terminal # {}
         /\ reported[t] # 0 /\ t \notin decided => "CLOUD_FALLBACK" \in reached[t]

(* An update that was sent says what the memory has been, or what it would *)
(* have been; none makes a task active, and only nodes of this process are *)
(* set ONLINE.                                                             *)
WritesInv ==
  /\ connected \subseteq seen
  /\ \A w \in writes :
       /\ w[1] \in Tasks => w[2] \in reached[w[1]] \union Overtaken(w[1]) /\ w[2] # "CLONED"
       /\ w[1] \in Nodes /\ w[2] = "ONLINE" => w[1] \in seen

(* What the recovery has done so far                                       *)
SweepInv ==
  /\ boot \in {"selecting", "sweeping"} => \A n \in Nodes : nodeRow[n] # "ONLINE"
  /\ boot = "sweeping" => \A t \in Tasks : taskRow[t] = "CLONED" => t \in abandoned
  /\ RecoverySweeps

IInv ==
  /\ TypeOK /\ BootInv /\ OrderInv /\ MemoryInv /\ WritesInv /\ SweepInv
  /\ RowsReached /\ SubmissionCompletes

LEMMA InitIInv == RowsInit => IInv
<1> SUFFICES ASSUME RowsInit PROVE IInv
  OBVIOUS
<1>1. LifecycleTypeOK /\ \A t \in Tasks : ~InStore(t)
  BY CopiesAssumption DEF RowsInit, Init, LifecycleTypeOK, Statuses, InStore
<1>2. TypeOK
  BY <1>1 DEF RowsInit, TypeOK
<1>3. BootInv /\ OrderInv /\ MemoryInv /\ WritesInv /\ SweepInv
  BY <1>1
  DEF RowsInit, Init, BootInv, OrderInv, MemoryInv, Verdicts, WritesInv, SweepInv, RecoverySweeps
<1>4. RowsReached /\ SubmissionCompletes
  BY <1>1 DEF RowsInit, Init, RowsReached, SubmissionCompletes
<1>5. QED
  BY <1>2, <1>3, <1>4 DEF IInv

(* What a purged task may still come to only grows with what it has been. *)
LEMMA MemoryGrows ==
  ASSUME TypeOK, NEW t \in Tasks, Remember(t)
  PROVE  /\ status'[t] \in reached'[t]
         /\ \A u \in Tasks : /\ reached[u] \subseteq reached'[u]
                             /\ Overtaken(u) \subseteq Overtaken(u)'
<1>1. reached' = [u \in Tasks |-> IF u = t THEN reached[u] \union {status'[t]} ELSE reached[u]]
  BY DEF TypeOK, Remember
<1>2. \A u \in Tasks : reached[u] \subseteq reached'[u]
  BY <1>1
<1>3. QED
  BY <1>1, <1>2 DEF Overtaken

LEMMA NextIInv == IInv /\ [RowsNext]_vars => IInv'
<1> SUFFICES ASSUME IInv, [RowsNext]_vars PROVE IInv'
  OBVIOUS
<1> USE CopiesAssumption, RowsAssumption
    DEF lifecycleVars, databaseVars, bootVars, handlerVars, historyVars
<1>0. /\ TypeOK /\ BootInv /\ OrderInv /\ MemoryInv /\ WritesInv /\ SweepInv
      /\ RowsReached /\ SubmissionCompletes
  BY DEF IInv
<1>1. ASSUME NEW t \in Tasks, Submit(t) PROVE IInv'
  <2>0. /\ status'[t] \in reached'[t]
        /\ \A u \in Tasks : /\ reached[u] \subseteq reached'[u]
                            /\ Overtaken(u) \subseteq Overtaken(u)'
    BY <1>0, <1>1, MemoryGrows DEF Submit
  <2>1. TypeOK'
    BY <1>0, <1>1 DEF Submit, Accept, Remember, TypeOK, LifecycleTypeOK, Statuses
  <2>2. BootInv'
    BY <1>0, <1>1 DEF Submit, BootInv
  <2>3. OrderInv'
    BY <1>0, <1>1 DEF Submit, Accept, Remember, TypeOK, LifecycleTypeOK, OrderInv
  <2>mem. MemoryInv'
    BY <1>0, <1>1 DEF Submit, Accept, Remember, MemoryInv, TypeOK, LifecycleTypeOK, Verdicts
  <2>4. WritesInv'
    BY <1>0, <1>1, <2>0 DEF Submit, WritesInv
  <2>5. SweepInv'
    BY <1>0, <1>1 DEF Submit, SweepInv, RecoverySweeps
  <2>6. RowsReached'
    BY <1>0, <1>1, <2>0 DEF Submit, Accept, RowsReached, OrderInv
  <2>7. SubmissionCompletes'
    BY <1>0, <1>1 DEF Submit, Accept, TypeOK, SubmissionCompletes, InStore
  <2>8. QED
    BY <2>1, <2>2, <2>3, <2>mem, <2>4, <2>5, <2>6, <2>7 DEF IInv
<1>2. ASSUME NEW t \in Tasks, CreateTask(t) PROVE IInv'
  <2>1. TypeOK'
    BY <1>0, <1>2 DEF CreateTask, Refuse, TypeOK, LifecycleTypeOK, RowStatuses
  <2>2. BootInv'
    BY <1>0, <1>2 DEF CreateTask, BootInv
  <2>3. OrderInv'
    BY <1>0, <1>2 DEF CreateTask, Refuse, TypeOK, LifecycleTypeOK, OrderInv
  <2>mem. MemoryInv'
    BY <1>0, <1>2 DEF CreateTask, Refuse, MemoryInv, TypeOK, LifecycleTypeOK
  <2>4. WritesInv'
    BY <1>0, <1>2 DEF CreateTask, WritesInv, Overtaken
  <2>5. SweepInv'
    BY <1>0, <1>2 DEF CreateTask, TypeOK, SweepInv, RecoverySweeps, BootInv, OrderInv
  <2>6. RowsReached'
    BY <1>0, <1>2 DEF CreateTask, TypeOK, RowsReached, OrderInv, Overtaken
  <2>7. SubmissionCompletes'
    BY <1>0, <1>2
    DEF CreateTask, Refuse, TypeOK, LifecycleTypeOK, SubmissionCompletes, OrderInv, InStore
  <2>8. QED
    BY <2>1, <2>2, <2>3, <2>mem, <2>4, <2>5, <2>6, <2>7 DEF IInv
<1>3. ASSUME NEW t \in Tasks, CreateClones(t) PROVE IInv'
  <2>1. TypeOK'
    BY <1>0, <1>3 DEF CreateClones, TypeOK, LifecycleTypeOK
  <2>2. BootInv'
    BY <1>0, <1>3 DEF CreateClones, BootInv
  <2>3. OrderInv'
    BY <1>0, <1>3 DEF CreateClones, OrderInv
  <2>mem. MemoryInv'
    BY <1>0, <1>3 DEF CreateClones, MemoryInv
  <2>4. WritesInv'
    BY <1>0, <1>3 DEF CreateClones, WritesInv, Overtaken
  <2>5. SweepInv'
    BY <1>0, <1>3 DEF CreateClones, SweepInv, RecoverySweeps
  <2>6. RowsReached'
    BY <1>0, <1>3 DEF CreateClones, RowsReached, Overtaken
  <2>7. SubmissionCompletes'
    BY <1>0, <1>3 DEF CreateClones, SubmissionCompletes, OrderInv, InStore
  <2>8. QED
    BY <2>1, <2>2, <2>3, <2>mem, <2>4, <2>5, <2>6, <2>7 DEF IInv
<1>4. ASSUME NEW t \in Tasks, TrackTaskSla(t) PROVE IInv'
  <2>1. TypeOK'
    BY <1>0, <1>4 DEF TrackTaskSla, Track, TypeOK, LifecycleTypeOK
  <2>2. BootInv'
    BY <1>0, <1>4 DEF TrackTaskSla, BootInv
  <2>3. OrderInv'
    BY <1>0, <1>4 DEF TrackTaskSla, Track, OrderInv
  <2>mem. MemoryInv'
    BY <1>0, <1>4 DEF TrackTaskSla, Track, MemoryInv, TypeOK, LifecycleTypeOK
  <2>4. WritesInv'
    BY <1>0, <1>4 DEF TrackTaskSla, WritesInv, Overtaken
  <2>5. SweepInv'
    BY <1>0, <1>4 DEF TrackTaskSla, SweepInv, RecoverySweeps
  <2>6. RowsReached'
    BY <1>0, <1>4 DEF TrackTaskSla, RowsReached, Overtaken
  <2>7. SubmissionCompletes'
    BY <1>0, <1>4 DEF TrackTaskSla, Track, SubmissionCompletes, InStore
  <2>8. QED
    BY <2>1, <2>2, <2>3, <2>mem, <2>4, <2>5, <2>6, <2>7 DEF IInv
<1>5. ASSUME NEW t \in Tasks, Verdict(t) PROVE IInv'
  <2>0. /\ status'[t] \in reached'[t]
        /\ \A u \in Tasks : /\ reached[u] \subseteq reached'[u]
                            /\ Overtaken(u) \subseteq Overtaken(u)'
    BY <1>0, <1>5, MemoryGrows DEF Verdict
  <2>st. /\ reported[t] = Copies /\ t \notin decided /\ decided' = decided \union {t}
         /\ UNCHANGED <<reported, cloud>>
         /\ \/ status' = status /\ ~InStore(t)
            \/ /\ InStore(t)
               /\ \E verdict \in Verdicts : status' = [status EXCEPT ![t] = verdict]
    BY <1>5 DEF Verdict, Decide
  <2>up. /\ \A u \in Tasks : u # t => status'[u] = status[u]
         /\ \/ status'[t] = status[t] /\ ~InStore(t)
            \/ InStore(t) /\ status'[t] \in Verdicts
         /\ status' \in [Tasks -> Statuses]
    BY <1>0, <2>st DEF TypeOK, LifecycleTypeOK, Verdicts, Statuses
  <2>w. PICK s \in RowStatuses \ {"CLONED"} :
          /\ writes' = writes \union {<<t, s>>}
          /\ s \in reached'[t] \union Overtaken(t)'
    <3>1. CASE InStore(t)
      BY <1>0, <1>5, <2>0, <2>up, <3>1 DEF Verdict, Verdicts, RowStatuses
    <3>2. CASE ~InStore(t)
      <4>1. status[t] = "PURGED" /\ status'[t] = "PURGED"
        BY <1>0, <2>st, <2>up, <3>2 DEF MemoryInv, InStore
      <4>2. {"CLOUD_FALLBACK", "PURGED"} \subseteq reached'[t]
        BY <1>0, <2>st, <2>0, <4>1 DEF MemoryInv
      <4>3. "COMPLETED" \in Overtaken(t)'
        BY <4>2 DEF Overtaken, Terminal
      <4>4. QED
        BY <1>5, <3>2, <4>3 DEF Verdict, RowStatuses
    <3>3. QED
      BY <3>1, <3>2
  <2>1. TypeOK'
    <3>1. reached' \in [Tasks -> SUBSET Statuses]
      <4>1. status'[t] \in Statuses
        BY <2>up
      <4>2. QED
        BY <1>0, <1>5, <4>1 DEF Verdict, Remember, TypeOK
    <3>2. writes' \subseteq (Tasks \X RowStatuses) \union (Nodes \X {"ONLINE", "OFFLINE"})
      BY <1>0, <2>w DEF TypeOK
    <3>3. QED
      BY <1>0, <1>5, <2>st, <2>up, <3>1, <3>2 DEF Verdict, TypeOK, LifecycleTypeOK
  <2>2. BootInv'
    BY <1>0, <1>5, <2>st DEF Verdict, BootInv
  <2>3. OrderInv'
    BY <1>0, <1>5, <2>st, <2>up, <2>0 DEF Verdict, Verdicts, OrderInv, InStore
  <2>mem. MemoryInv'
    BY <1>0, <1>5
    DEF Verdict, Decide, Remember, MemoryInv, TypeOK, LifecycleTypeOK, Verdicts, Terminal,
        InStore
  <2>4. WritesInv'
    BY <1>0, <1>5, <2>0, <2>w DEF Verdict, WritesInv
  <2>5. SweepInv'
    BY <1>0, <1>5 DEF Verdict, SweepInv, RecoverySweeps
  <2>6. RowsReached'
    BY <1>0, <1>5, <2>0 DEF Verdict, RowsReached
  <2>7. SubmissionCompletes'
    BY <1>0, <1>5, <2>st, <2>up DEF Verdict, SubmissionCompletes, InStore
  <2>8. QED
    BY <2>1, <2>2, <2>3, <2>mem, <2>4, <2>5, <2>6, <2>7 DEF IInv
<1>6. ASSUME NEW t \in Tasks, CloudFallback(t) PROVE IInv'
  <2>0. /\ status'[t] \in reached'[t]
        /\ \A u \in Tasks : /\ reached[u] \subseteq reached'[u]
                            /\ Overtaken(u) \subseteq Overtaken(u)'
    BY <1>0, <1>6, MemoryGrows DEF CloudFallback
  <2>1. TypeOK'
    BY <1>0, <1>6
    DEF CloudFallback, CloudAnswer, Remember, TypeOK, LifecycleTypeOK, Statuses,
        RowStatuses
  <2>2. BootInv'
    BY <1>0, <1>6 DEF CloudFallback, CloudAnswer, BootInv
  <2>3. OrderInv'
    BY <1>0, <1>6 DEF CloudFallback, CloudAnswer, Remember, OrderInv
  <2>mem. MemoryInv'
    BY <1>0, <1>6
    DEF CloudFallback, CloudAnswer, Remember, MemoryInv, TypeOK, LifecycleTypeOK, Verdicts,
        Terminal, InStore
  <2>4. WritesInv'
    <3>1. "CLOUD_FALLBACK" \in reached'[t] \union Overtaken(t)'
      <4>1. CASE InStore(t)
        BY <1>0, <1>6, <2>0, <4>1 DEF CloudFallback, CloudAnswer, TypeOK, LifecycleTypeOK
      <4>2. CASE ~InStore(t)
        <5>1. status[t] = "PURGED" /\ status'[t] = "PURGED"
          BY <1>0, <1>6, <4>2 DEF CloudFallback, CloudAnswer, MemoryInv, InStore
        <5>2. "PURGED" \in reached'[t] /\ reached'[t] \intersect Terminal # {}
          BY <1>0, <2>0, <5>1 DEF MemoryInv
        <5>3. QED
          BY <5>2 DEF Overtaken, Terminal, Verdicts
      <4>3. QED
        BY <4>1, <4>2
    <3>2. QED
      BY <1>0, <1>6, <2>0, <3>1 DEF CloudFallback, WritesInv
  <2>5. SweepInv'
    BY <1>0, <1>6 DEF CloudFallback, SweepInv, RecoverySweeps
  <2>6. RowsReached'
    BY <1>0, <1>6, <2>0 DEF CloudFallback, RowsReached
  <2>7. SubmissionCompletes'
    BY <1>0, <1>6 DEF CloudFallback, CloudAnswer, SubmissionCompletes, InStore
  <2>8. QED
    BY <2>1, <2>2, <2>3, <2>mem, <2>4, <2>5, <2>6, <2>7 DEF IInv
<1>7. ASSUME NEW t \in Tasks, ReportOrBreach(t) PROVE IInv'
  <2>0. /\ status'[t] \in reached'[t]
        /\ \A u \in Tasks : /\ reached[u] \subseteq reached'[u]
                            /\ Overtaken(u) \subseteq Overtaken(u)'
    BY <1>0, <1>7, MemoryGrows DEF ReportOrBreach
  <2>1. TypeOK'
    BY <1>0, <1>7
    DEF ReportOrBreach, Report, Breach, Remember, TypeOK, LifecycleTypeOK, Statuses
  <2>2. BootInv'
    BY <1>0, <1>7 DEF ReportOrBreach, Report, Breach, BootInv
  <2>3. OrderInv'
    BY <1>0, <1>7
    DEF ReportOrBreach, Report, Breach, Remember, TypeOK, LifecycleTypeOK, OrderInv
  <2>mem. MemoryInv'
    BY <1>0, <1>7
    DEF ReportOrBreach, Report, Breach, Remember, MemoryInv, TypeOK, LifecycleTypeOK,
        Verdicts, InStore
  <2>4. WritesInv'
    BY <1>0, <1>7, <2>0 DEF ReportOrBreach, WritesInv
  <2>5. SweepInv'
    BY <1>0, <1>7 DEF ReportOrBreach, SweepInv, RecoverySweeps
  <2>6. RowsReached'
    BY <1>0, <1>7, <2>0 DEF ReportOrBreach, RowsReached
  <2>7. SubmissionCompletes'
    BY <1>0, <1>7
    DEF ReportOrBreach, Report, Breach, TypeOK, LifecycleTypeOK, SubmissionCompletes,
        InStore
  <2>8. QED
    BY <2>1, <2>2, <2>3, <2>mem, <2>4, <2>5, <2>6, <2>7 DEF IInv
<1>8. ASSUME NEW t \in Tasks, PurgeTask(t) PROVE IInv'
  <2>0. /\ status'[t] \in reached'[t]
        /\ \A u \in Tasks : /\ reached[u] \subseteq reached'[u]
                            /\ Overtaken(u) \subseteq Overtaken(u)'
    BY <1>0, <1>8, MemoryGrows DEF PurgeTask
  <2>1. TypeOK'
    BY <1>0, <1>8 DEF PurgeTask, Purge, Remember, TypeOK, LifecycleTypeOK, Statuses
  <2>2. BootInv'
    BY <1>0, <1>8 DEF PurgeTask, Purge, BootInv
  <2>3. OrderInv'
    BY <1>0, <1>8 DEF PurgeTask, Purge, Remember, OrderInv
  <2>mem. MemoryInv'
    BY <1>0, <1>8
    DEF PurgeTask, Purge, Remember, MemoryInv, TypeOK, LifecycleTypeOK, Verdicts, Terminal,
        InStore, IsActive
  <2>4. WritesInv'
    BY <1>0, <1>8, <2>0 DEF PurgeTask, WritesInv
  <2>5. SweepInv'
    BY <1>0, <1>8 DEF PurgeTask, SweepInv, RecoverySweeps
  <2>6. RowsReached'
    BY <1>0, <1>8, <2>0 DEF PurgeTask, RowsReached
  <2>7. SubmissionCompletes'
    BY <1>0, <1>8 DEF PurgeTask, Purge, SubmissionCompletes, InStore
  <2>8. QED
    BY <2>1, <2>2, <2>3, <2>mem, <2>4, <2>5, <2>6, <2>7 DEF IInv
<1>9. ASSUME NEW n \in Nodes, RegisterNode(n) PROVE IInv'
  <2>1. TypeOK'
    BY <1>0, <1>9 DEF RegisterNode, TypeOK, LifecycleTypeOK
  <2>2. BootInv'
    BY <1>0, <1>9 DEF RegisterNode, BootInv
  <2>3. OrderInv'
    BY <1>0, <1>9 DEF RegisterNode, OrderInv
  <2>mem. MemoryInv'
    BY <1>0, <1>9 DEF RegisterNode, MemoryInv
  <2>4. WritesInv'
    BY <1>0, <1>9 DEF RegisterNode, WritesInv, Overtaken
  <2>5. SweepInv'
    BY <1>0, <1>9 DEF RegisterNode, SweepInv, RecoverySweeps
  <2>6. RowsReached'
    BY <1>0, <1>9 DEF RegisterNode, RowsReached, Overtaken
  <2>7. SubmissionCompletes'
    BY <1>0, <1>9 DEF RegisterNode, SubmissionCompletes, InStore
  <2>8. QED
    BY <2>1, <2>2, <2>3, <2>mem, <2>4, <2>5, <2>6, <2>7 DEF IInv
<1>10. ASSUME NEW n \in Nodes, ReportNode(n) PROVE IInv'
  <2>1. TypeOK'
    BY <1>0, <1>10 DEF ReportNode, TypeOK, LifecycleTypeOK
  <2>2. BootInv'
    BY <1>0, <1>10 DEF ReportNode, BootInv
  <2>3. OrderInv'
    BY <1>0, <1>10 DEF ReportNode, OrderInv
  <2>mem. MemoryInv'
    BY <1>0, <1>10 DEF ReportNode, MemoryInv
  <2>4. WritesInv'
    BY <1>0, <1>10 DEF ReportNode, WritesInv, Overtaken
  <2>5. SweepInv'
    BY <1>0, <1>10 DEF ReportNode, SweepInv, RecoverySweeps
  <2>6. RowsReached'
    BY <1>0, <1>10 DEF ReportNode, RowsReached, Overtaken
  <2>7. SubmissionCompletes'
    BY <1>0, <1>10 DEF ReportNode, SubmissionCompletes, InStore
  <2>8. QED
    BY <2>1, <2>2, <2>3, <2>mem, <2>4, <2>5, <2>6, <2>7 DEF IInv
<1>11. ASSUME NEW n \in Nodes, CloseNode(n) PROVE IInv'
  <2>1. TypeOK'
    BY <1>0, <1>11 DEF CloseNode, TypeOK, LifecycleTypeOK
  <2>2. BootInv'
    BY <1>0, <1>11 DEF CloseNode, BootInv
  <2>3. OrderInv'
    BY <1>0, <1>11 DEF CloseNode, OrderInv
  <2>mem. MemoryInv'
    BY <1>0, <1>11 DEF CloseNode, MemoryInv
  <2>4. WritesInv'
    BY <1>0, <1>11 DEF CloseNode, WritesInv, Overtaken
  <2>5. SweepInv'
    BY <1>0, <1>11 DEF CloseNode, SweepInv, RecoverySweeps
  <2>6. RowsReached'
    BY <1>0, <1>11 DEF CloseNode, RowsReached, Overtaken
  <2>7. SubmissionCompletes'
    BY <1>0, <1>11 DEF CloseNode, SubmissionCompletes, InStore
  <2>8. QED
    BY <2>1, <2>2, <2>3, <2>mem, <2>4, <2>5, <2>6, <2>7 DEF IInv
<1>12. ASSUME NEW w \in writes, Execute(w) PROVE IInv'
  <2>0. w[1] \in Tasks => w[2] # "absent"
    BY <1>0 DEF TypeOK, RowStatuses
  <2>1. TypeOK'
    BY <1>0, <1>12 DEF Execute, TypeOK, LifecycleTypeOK
  <2>2. BootInv'
    BY <1>0, <1>12 DEF Execute, BootInv
  <2>3. OrderInv'
    BY <1>0, <1>12, <2>0 DEF Execute, OrderInv
  <2>mem. MemoryInv'
    BY <1>0, <1>12 DEF Execute, MemoryInv
  <2>4. WritesInv'
    BY <1>0, <1>12 DEF Execute, WritesInv, Overtaken
  <2>5. SweepInv'
    BY <1>0, <1>12 DEF Execute, SweepInv, RecoverySweeps, BootInv, WritesInv
  <2>6. RowsReached'
    BY <1>0, <1>12 DEF Execute, RowsReached, WritesInv, Overtaken
  <2>7. SubmissionCompletes'
    BY <1>0, <1>12, <2>0 DEF Execute, SubmissionCompletes, InStore
  <2>8. QED
    BY <2>1, <2>2, <2>3, <2>mem, <2>4, <2>5, <2>6, <2>7 DEF IInv
<1>13. ASSUME ResetAllNodeStatuses PROVE IInv'
  <2>1. TypeOK'
    BY <1>0, <1>13 DEF ResetAllNodeStatuses, StartListening, TypeOK, LifecycleTypeOK
  <2>2. BootInv'
    BY <1>0, <1>13 DEF ResetAllNodeStatuses, StartListening, BootInv, InStore
  <2>3. OrderInv'
    BY <1>0, <1>13 DEF ResetAllNodeStatuses, OrderInv
  <2>mem. MemoryInv'
    BY <1>0, <1>13 DEF ResetAllNodeStatuses, MemoryInv
  <2>4. WritesInv'
    BY <1>0, <1>13 DEF ResetAllNodeStatuses, WritesInv, Overtaken
  <2>5. SweepInv'
    BY <1>13 DEF ResetAllNodeStatuses, StartListening, SweepInv, RecoverySweeps
  <2>6. RowsReached'
    BY <1>0, <1>13 DEF ResetAllNodeStatuses, RowsReached, Overtaken
  <2>7. SubmissionCompletes'
    BY <1>0, <1>13 DEF ResetAllNodeStatuses, SubmissionCompletes, InStore
  <2>8. QED
    BY <2>1, <2>2, <2>3, <2>mem, <2>4, <2>5, <2>6, <2>7 DEF IInv
<1>14. ASSUME GetAbandonedTasks PROVE IInv'
  <2>1. TypeOK'
    BY <1>0, <1>14 DEF GetAbandonedTasks, StartListening, TypeOK, LifecycleTypeOK
  <2>2. BootInv'
    BY <1>0, <1>14 DEF GetAbandonedTasks, StartListening, Abandoned, BootInv, InStore
  <2>3. OrderInv'
    BY <1>0, <1>14 DEF GetAbandonedTasks, OrderInv
  <2>mem. MemoryInv'
    BY <1>0, <1>14 DEF GetAbandonedTasks, MemoryInv
  <2>4. WritesInv'
    BY <1>0, <1>14 DEF GetAbandonedTasks, WritesInv, Overtaken
  <2>5. SweepInv'
    BY <1>0, <1>14
    DEF GetAbandonedTasks, StartListening, Abandoned, SweepInv, RecoverySweeps
  <2>6. RowsReached'
    BY <1>0, <1>14 DEF GetAbandonedTasks, RowsReached, Overtaken
  <2>7. SubmissionCompletes'
    BY <1>0, <1>14 DEF GetAbandonedTasks, SubmissionCompletes, InStore
  <2>8. QED
    BY <2>1, <2>2, <2>3, <2>mem, <2>4, <2>5, <2>6, <2>7 DEF IInv
<1>15. ASSUME NEW t \in Tasks, FailAbandonedTask(t) PROVE IInv'
  <2>1. TypeOK'
    <3>1. taskRow' \in [Tasks -> RowStatuses \union {"absent"}]
      BY <1>0, <1>15 DEF FailAbandonedTask, TypeOK, RowStatuses
    <3>2. abandoned' \subseteq Tasks /\ boot' \in {"sweeping", "up"} /\ swept' \in BOOLEAN
      BY <1>0, <1>15 DEF FailAbandonedTask, StartListening, TypeOK
    <3>3. UNCHANGED <<lifecycleVars, cloneRow, nodeRow, handlerVars, historyVars>>
      BY <1>15 DEF FailAbandonedTask
    <3>4. QED
      BY <1>0, <3>1, <3>2, <3>3 DEF TypeOK, LifecycleTypeOK
  <2>2. BootInv'
    BY <1>0, <1>15 DEF FailAbandonedTask, StartListening, TypeOK, BootInv, InStore
  <2>3. OrderInv'
    BY <1>0, <1>15 DEF FailAbandonedTask, TypeOK, OrderInv, BootInv
  <2>mem. MemoryInv'
    BY <1>0, <1>15 DEF FailAbandonedTask, MemoryInv
  <2>4. WritesInv'
    BY <1>0, <1>15 DEF FailAbandonedTask, WritesInv, Overtaken
  <2>5. SweepInv'
    BY <1>0, <1>15
    DEF FailAbandonedTask, StartListening, TypeOK, SweepInv, RecoverySweeps
  <2>6. RowsReached'
    BY <1>0, <1>15 DEF FailAbandonedTask, TypeOK, RowsReached, BootInv, Overtaken
  <2>7. SubmissionCompletes'
    BY <1>0, <1>15 DEF FailAbandonedTask, TypeOK, SubmissionCompletes, BootInv, InStore
  <2>8. QED
    BY <2>1, <2>2, <2>3, <2>mem, <2>4, <2>5, <2>6, <2>7 DEF IInv
<1>16. ASSUME ProcessDies PROVE IInv'
  <2>1. TypeOK'
    <3>1. LifecycleTypeOK'
      BY <1>0, <1>16 DEF ProcessDies, Die, TypeOK, LifecycleTypeOK, Statuses
    <3>2. QED
      BY <1>0, <1>16, <3>1 DEF ProcessDies, TypeOK
  <2>2. BootInv'
    BY <1>16 DEF ProcessDies, Die, BootInv, InStore
  <2>3. OrderInv'
    BY <1>0, <1>16 DEF ProcessDies, Die, OrderInv
  <2>mem. MemoryInv'
    BY <1>0, <1>16 DEF ProcessDies, Die, MemoryInv, Verdicts, InStore, TypeOK, LifecycleTypeOK
  <2>4. WritesInv'
    BY <1>16 DEF ProcessDies, WritesInv
  <2>5. SweepInv'
    BY <1>16 DEF ProcessDies, SweepInv, RecoverySweeps
  <2>6. RowsReached'
    BY <1>0, <1>16 DEF ProcessDies, RowsReached, Overtaken
  <2>7. SubmissionCompletes'
    BY <1>0, <1>16 DEF ProcessDies, Die, SubmissionCompletes, InStore
  <2>8. QED
    BY <2>1, <2>2, <2>3, <2>mem, <2>4, <2>5, <2>6, <2>7 DEF IInv
<1>17. ASSUME UNCHANGED vars PROVE IInv'
  <2>1. TypeOK'
    BY <1>0, <1>17 DEF vars, TypeOK, LifecycleTypeOK
  <2>2. BootInv'
    BY <1>0, <1>17 DEF vars, BootInv, InStore
  <2>3. OrderInv'
    BY <1>0, <1>17 DEF vars, OrderInv
  <2>mem. MemoryInv'
    BY <1>0, <1>17 DEF vars, MemoryInv
  <2>4. WritesInv'
    BY <1>0, <1>17 DEF vars, WritesInv, Overtaken
  <2>5. SweepInv'
    BY <1>0, <1>17 DEF vars, SweepInv, RecoverySweeps
  <2>6. RowsReached'
    BY <1>0, <1>17 DEF vars, RowsReached, Overtaken
  <2>7. SubmissionCompletes'
    BY <1>0, <1>17 DEF vars, SubmissionCompletes, InStore
  <2>8. QED
    BY <2>1, <2>2, <2>3, <2>mem, <2>4, <2>5, <2>6, <2>7 DEF IInv
<1>18. QED
  BY <1>1, <1>2, <1>3, <1>4, <1>5, <1>6, <1>7, <1>8, <1>9, <1>10, <1>11, <1>12, <1>13, <1>14, <1>15, <1>16, <1>17
  DEF RowsNext

(* The row of a task never says what its memory has not been, unless the   *)
(* task was purged before its second conclusion, nor FAILED while this     *)
(* process has the task, however statements are reordered, lost or         *)
(* reported as failed.                                                     *)
THEOREM RowsAlwaysReached == RowsSpec => []RowsReached
<1>1. IInv => RowsReached
  BY DEF IInv
<1>2. QED
  BY <1>1, InitIInv, NextIInv, PTL DEF RowsSpec

(* A boot without an error leaves nothing of the processes before it.      *)
THEOREM RecoveryAlwaysSweeps == RowsSpec => []RecoverySweeps
<1>1. IInv => RecoverySweeps
  BY DEF IInv, SweepInv
<1>2. QED
  BY <1>1, InitIInv, NextIInv, PTL DEF RowsSpec

(* A submission whose statements fail still comes to its SLA timer; one    *)
(* that is answered 500 for its deadline leaves no row.                    *)
THEOREM SubmissionAlwaysCompletes == RowsSpec => []SubmissionCompletes
<1>1. IInv => SubmissionCompletes
  BY DEF IInv
<1>2. QED
  BY <1>1, InitIInv, NextIInv, PTL DEF RowsSpec

(* The rows, the recovery and the memory keep to their types.              *)
THEOREM TypeCorrect == RowsSpec => []TypeOK
<1>1. IInv => TypeOK
  BY DEF IInv
<1>2. QED
  BY <1>1, InitIInv, NextIInv, PTL DEF RowsSpec
=============================================================================
