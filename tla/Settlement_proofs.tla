-------------------------- MODULE Settlement_proofs --------------------------
(***************************************************************************)
(* Theorems about what becomes of a task in module Orchestrator: where its *)
(* clones are assigned, how its consensus is run once, who is paid for it, *)
(* and that module Orchestrator implements the specifications of its       *)
(* clones' custody and of its tasks' lifecycle.                            *)
(***************************************************************************)
EXTENDS OrchestratorCustody, OrchestratorLifecycle, Orchestrator_proofs

VerdictStatuses == {"COMPLETED", "FAILED"}

-----------------------------------------------------------------------------
(* The invariant of the store *)

(* A task not submitted, or lost with an earlier process, has no timer, no *)
(* result and no run of the engine.                                        *)
OutOfStore ==
  \A t \in Tasks : status[t] \in {"NONE", "LOST"} =>
    /\ sla[t] = "off"
    /\ \A c \in ClonesOf(t) : consensus[c] = "idle" /\ ~Reported(c)

(* The cloud answers last, and its answer is known as one. *)
CloudOnce ==
  \A t \in Tasks : /\ usedCloudFallback[t] => sla[t] = "answered"
                   /\ status[t] = "CLOUD_FALLBACK" => usedCloudFallback[t]

(* The store knows the task of c, or an engine run may still hold it. *)
Known(c) == InStore(TaskOf(c)) \/ Reported(c)

(* A clone is assigned to the node that carries it. *)
CarriersAssigned ==
  \A n \in Nodes, c \in Clones : Carries(n, c) /\ Known(c) => assignedNodes[c] = n

StoreInv ==
  /\ CustodyInv
  /\ OutOfStore
  /\ CloudOnce
  /\ CarriersAssigned

LEMMA UnassignKeepsResults ==
  ASSUME CustodyInv, NEW n \in Nodes, NEW S \in SUBSET activeClones[n], Unassign(S, n)
  PROVE  results' = results
<1>1. \A c \in S : c \in Clones /\ results[c] = NoReport
  BY DEF CustodyInv, TypeOK, OnePlace, InOnePlace, Held, Reported
<1>2. results' = [c \in Clones |-> IF c \in S THEN NoReport ELSE results[c]]
  BY DEF Unassign
<1>3. QED
  BY <1>1, <1>2 DEF CustodyInv, TypeOK

LEMMA OutOfStoreStep ==
  ASSUME StoreInv, TypeOK', [Next]_vars
  PROVE  OutOfStore' /\ CloudOnce'
<1> USE ClonesFacts
<1>0. TypeOK /\ OutOfStore /\ CloudOnce /\ CustodyInv
  BY DEF StoreInv, CustodyInv
<1> DEFINE Frame == UNCHANGED <<status, usedCloudFallback, sla, consensus, results>>
<1>fr. ASSUME Frame PROVE OutOfStore' /\ CloudOnce'
  BY <1>0, <1>fr DEF OutOfStore, CloudOnce, InStore, Reported
<1>1. ASSUME NEW t \in Tasks, Submit(t) PROVE OutOfStore' /\ CloudOnce'
  BY <1>0, <1>1 DEF Submit, TypeOK, OutOfStore, CloudOnce, InStore, Reported, runVars
<1>2. ASSUME NEW t \in Tasks, TrackTaskSla(t) \/ Refuse(t) PROVE OutOfStore' /\ CloudOnce'
  BY <1>0, <1>2
  DEF TrackTaskSla, Refuse, TypeOK, OutOfStore, CloudOnce, InStore, Reported, taskVars,
      runVars
<1>3. ASSUME NEW t \in Tasks, SlaTimer(t) PROVE OutOfStore' /\ CloudOnce'
  <2>1. UNCHANGED <<usedCloudFallback, results, consensus>> /\ sla[t] = "armed"
    BY <1>3, Zenon DEF SlaTimer, runVars
  <2>2. \/ /\ status[t] = "CLONED"
           /\ status' = [status EXCEPT ![t] = "SLA_BREACHED"]
           /\ sla' = [sla EXCEPT ![t] = "cloud"]
        \/ status' = status /\ sla' = [sla EXCEPT ![t] = "done"]
    BY <1>3, Zenon DEF SlaTimer
  <2>3. status[t] \notin {"NONE", "LOST"} /\ ~usedCloudFallback[t]
    BY <1>0, <2>1 DEF OutOfStore, CloudOnce
  <2>4. \A u \in Tasks : status'[u] # status[u] => status'[u] = "SLA_BREACHED"
    BY <1>0, <2>2 DEF TypeOK
  <2>5. \A u \in Tasks \ {t} : sla'[u] = sla[u]
    BY <1>0, <2>2 DEF TypeOK
  <2>6. OutOfStore'
    BY <1>0, <2>1, <2>2, <2>3, <2>4, <2>5 DEF OutOfStore, Reported, TypeOK
  <2>7. CloudOnce'
    BY <1>0, <2>1, <2>3, <2>4, <2>5 DEF CloudOnce
  <2>8. QED
    BY <2>6, <2>7
<1>4. ASSUME NEW t \in Tasks, CloudAnswer(t) PROVE OutOfStore' /\ CloudOnce'
  BY <1>0, <1>4 DEF CloudAnswer, TypeOK, OutOfStore, CloudOnce, InStore, Reported, runVars
<1>5. ASSUME NEW t \in Tasks, Purge(t) PROVE OutOfStore' /\ CloudOnce'
  BY <1>0, <1>5 DEF Purge, TypeOK, OutOfStore, CloudOnce, InStore, Reported, runVars
<1>6. ASSUME NEW n \in Nodes, Register(n) \/ Reconnect(n) \/ CloseWhileRegistering(n)
      PROVE  Frame
  BY <1>6 DEF Register, Reconnect, CloseWhileRegistering, taskVars, runVars
<1>7. ASSUME NEW n \in Nodes, Disconnect(n) \/ CloseReplaced(n) PROVE Frame
  <2>1. UNCHANGED <<results, consensus>>
    BY <1>0, <1>7, DisconnectGivesUp, CloseReplacedGivesUp DEF GivesUp
  <2>2. QED
    BY <1>7, <2>1 DEF Disconnect, CloseReplaced
<1>8. ASSUME NEW n \in Nodes, Steal(n) PROVE Frame
  BY <1>8 DEF Steal, runVars
<1>9. ASSUME NEW n \in Nodes, NEW c \in Clones, SendAssignment(n, c) \/ AckEviction(n, c)
      PROVE  Frame
  BY <1>9 DEF SendAssignment, AckEviction, taskVars, runVars
<1>10. ASSUME NEW n \in Nodes, NEW c \in Clones, TaskEviction(n, c) PROVE Frame
  <2>1. UNCHANGED <<results, consensus>>
    BY <1>0, <1>10, TaskEvictionGivesUp DEF GivesUp
  <2>2. QED
    BY <1>10, <2>1 DEF TaskEviction
<1>11. ASSUME NEW c \in Clones, NEW r \in Reports, AddResult(c, r),
              UNCHANGED <<status, usedCloudFallback, sla>>
       PROVE  OutOfStore' /\ CloudOnce'
  <2>1. CASE ~InStore(TaskOf(c))
    BY <1>11, <2>1, <1>fr DEF AddResult
  <2>2. CASE InStore(TaskOf(c))
    <3>1. \A d \in Clones : TaskOf(d) # TaskOf(c)
             => consensus'[d] = consensus[d] /\ results'[d] = results[d]
      BY <1>0, <1>11, <2>2 DEF AddResult, TypeOK
    <3>2. QED
      BY <1>0, <1>11, <2>2, <3>1 DEF OutOfStore, CloudOnce, InStore, Reported
  <2>3. QED
    BY <2>1, <2>2
<1>12. ASSUME NEW n \in Nodes, NEW c \in Clones, TaskResult(n, c)
       PROVE  OutOfStore' /\ CloudOnce'
  <2>1. PICK r \in Reports : AddResult(c, r) \/ UNCHANGED <<results, consensus>>
    BY <1>12, TaskResultReport
  <2>2. UNCHANGED <<status, usedCloudFallback, sla>>
    BY <1>12 DEF TaskResult
  <2>3. QED
    BY <1>11, <1>fr, <2>1, <2>2
<1>13. ASSUME NEW c \in Clones, OnCloneResult(c) PROVE OutOfStore' /\ CloudOnce'
  BY <1>0, <1>13, <1>11 DEF OnCloneResult, TypeOK
<1>14. ASSUME NEW c \in Clones, RunConsensus(c) PROVE OutOfStore' /\ CloudOnce'
  <2>1. /\ UNCHANGED <<usedCloudFallback, results, sla>>
        /\ InStore(TaskOf(c))
        /\ \/ consensus' = [consensus EXCEPT ![c] = "paying"]
           \/ consensus' = [consensus EXCEPT ![c] = "idle"]
        /\ \/ status' = status
           \/ status' = [status EXCEPT ![TaskOf(c)] = "FAILED"]
    BY <1>14, Zenon DEF RunConsensus
  <2>2. QED
    BY <1>0, <2>1 DEF TypeOK, OutOfStore, CloudOnce, InStore, Reported
<1>15. ASSUME NEW c \in Clones, Pay(c) \/ Slash(c) PROVE Frame
  BY <1>15 DEF Pay, Slash, taskVars
<1>16. ASSUME NEW c \in Clones, CompleteTask(c) PROVE OutOfStore' /\ CloudOnce'
  <2>1. /\ UNCHANGED <<usedCloudFallback, results, sla>>
        /\ consensus[c] = "paying"
        /\ consensus' = [consensus EXCEPT ![c] = "closing"]
        /\ status' = status \/ status' = [status EXCEPT ![TaskOf(c)] = "COMPLETED"]
    BY <1>16 DEF CompleteTask
  <2>2. QED
    BY <1>0, <2>1 DEF TypeOK, OutOfStore, CloudOnce, Reported
<1>17. ASSUME NEW c \in Clones, CloseConsensus(c) PROVE OutOfStore' /\ CloudOnce'
  BY <1>0, <1>17 DEF CloseConsensus, TypeOK, OutOfStore, CloudOnce, InStore, Reported, taskVars
<1>18. ASSUME Restart PROVE OutOfStore' /\ CloudOnce'
  BY <1>0, <1>18 DEF Restart, TypeOK, OutOfStore, CloudOnce, InStore, Reported
<1>19. ASSUME UNCHANGED vars PROVE Frame
  BY <1>19 DEF vars, taskVars, runVars
<1> HIDE DEF Frame
<1>20. QED
  BY <1>fr, <1>1, <1>2, <1>3, <1>4, <1>5, <1>6, <1>7, <1>8, <1>9, <1>10, <1>12,
     <1>13, <1>14, <1>15, <1>16, <1>17, <1>18, <1>19
  DEF Next, CrashAndRestart, RunConsensusThrows

LEMMA AddResultCarriers ==
  ASSUME NEW c \in Clones, NEW r \in Reports, AddResult(c, r), TypeOK
  PROVE  \A d \in Clones : results'[d] # NoReport =>
           results'[d] = results[d] \/ (d = c /\ results'[d] = r /\ InStore(TaskOf(c)))
<1>1. \/ results' = [results EXCEPT ![c] = r] /\ InStore(TaskOf(c))
      \/ results' = results
  BY Zenon DEF AddResult
<1>2. QED
  BY <1>1 DEF TypeOK

LEMMA CarriersStep ==
  ASSUME StoreInv, TypeOK', [Next]_vars
  PROVE  CarriersAssigned'
<1> USE ClonesFacts
<1>0. TypeOK /\ OutOfStore /\ CarriersAssigned /\ CustodyInv
  BY DEF StoreInv, CustodyInv
<1> DEFINE Kept(c) == \A n \in Nodes : Carries(n, c)' =>
                        Carries(n, c) /\ assignedNodes'[c] = assignedNodes[c]
           Frame == \A c \in Clones : Kept(c) /\ (Known(c)' => Known(c))
<1>fr. ASSUME Frame PROVE CarriersAssigned'
  BY <1>0, <1>fr DEF CarriersAssigned
<1>st. ASSUME UNCHANGED <<activeClones, arriving, results, assignedNodes>>,
              \A t \in Tasks : InStore(t)' => InStore(t)
       PROVE  Frame
  BY <1>st DEF Carries, Known, Reported
<1>1. ASSUME NEW t \in Tasks, Submit(t) PROVE CarriersAssigned'
  <2>1. /\ UNCHANGED <<activeClones, arriving, results, assignedNodes>>
        /\ status' = [status EXCEPT ![t] = "CLONED"]
        /\ status[t] = "NONE"
    BY <1>1 DEF Submit, connVars, cloneVars, runVars
  <2>2. \A c \in Clones, n \in Nodes : Carries(n, c) => TaskOf(c) # t
    BY <1>0, <2>1 DEF CustodyInv, NoneBeforeSubmission, Carries, Held, Reported
  <2>3. \A u \in Tasks \ {t} : InStore(u)' => InStore(u)
    BY <1>0, <2>1 DEF InStore, TypeOK
  <2>4. \A c \in Clones, n \in Nodes : Carries(n, c)' <=> Carries(n, c)
    BY <2>1 DEF Carries
  <2>5. QED
    BY <1>0, <2>1, <2>2, <2>3, <2>4 DEF CarriersAssigned, Known, Reported
<1>2. ASSUME NEW t \in Tasks, TrackTaskSla(t) \/ Refuse(t) PROVE Frame
  BY <1>st, <1>2 DEF TrackTaskSla, Refuse, taskVars, connVars, cloneVars, runVars, InStore
<1>3. ASSUME NEW t \in Tasks, SlaTimer(t) PROVE Frame
  <2>1. UNCHANGED <<activeClones, arriving, results, assignedNodes>>
    BY <1>3 DEF SlaTimer, connVars, cloneVars, runVars
  <2>2. \/ status[t] = "CLONED" /\ status' = [status EXCEPT ![t] = "SLA_BREACHED"]
        \/ status' = status
    BY <1>3, Zenon DEF SlaTimer
  <2>3. QED
    BY <1>0, <1>st, <2>1, <2>2 DEF InStore, TypeOK
<1>4. ASSUME NEW t \in Tasks, CloudAnswer(t) PROVE Frame
  <2>1. UNCHANGED <<activeClones, arriving, results, assignedNodes>>
    BY <1>4 DEF CloudAnswer, connVars, cloneVars, runVars
  <2>2. \/ status' = status
        \/ InStore(t) /\ status' = [status EXCEPT ![t] = "CLOUD_FALLBACK"]
    BY <1>4, Zenon DEF CloudAnswer
  <2>3. QED
    BY <1>0, <1>st, <2>1, <2>2 DEF InStore, TypeOK
<1>5. ASSUME NEW t \in Tasks, Purge(t) PROVE Frame
  <2>1. \A u \in Tasks : InStore(u)' => InStore(u)
    BY <1>0, <1>5 DEF Purge, InStore, TypeOK
  <2>2. QED
    BY <1>5, <1>st, <2>1 DEF Purge, connVars, cloneVars, runVars
<1>6. ASSUME NEW n \in Nodes, Register(n) \/ Reconnect(n) \/ CloseWhileRegistering(n)
      PROVE  Frame
  BY <1>6, <1>st
  DEF Register, Reconnect, CloseWhileRegistering, taskVars, cloneVars, runVars, InStore
<1>7. ASSUME NEW n \in Nodes, NEW S \in SUBSET activeClones[n], Unassign(S, n),
             UNCHANGED <<status, arriving>>,
             NEW L \in SUBSET activeClones[n], S \subseteq L,
             activeClones' = [activeClones EXCEPT ![n] = @ \ L]
      PROVE  Frame
  <2>1. results' = results
    BY <1>0, <1>7, UnassignKeepsResults
  <2>2. \A c \in Clones \ S : assignedNodes'[c] = assignedNodes[c]
    BY <1>7 DEF Unassign
  <2>3. \A c \in S, m \in Nodes : ~Carries(m, c)'
    <3>1. \A c \in S : c \in Clones /\ Held(c)
      BY <1>0 DEF CustodyInv, TypeOK, Held
    <3>2. \A c \in S : arriving[c] = NoReport /\ results[c] = NoReport
      BY <1>0, <3>1 DEF CustodyInv, OnePlace, InOnePlace, Reported
    <3>3. \A c \in S, m \in Nodes : c \notin activeClones'[m]
      BY <1>0, <1>7 DEF CustodyInv, TypeOK, OnePlace, OneHolder
    <3>4. QED
      BY <1>7, <2>1, <3>2, <3>3 DEF Carries
  <2>4. \A c \in Clones, m \in Nodes : Carries(m, c)' => Carries(m, c)
    BY <1>0, <1>7, <2>1 DEF Carries, TypeOK
  <2>5. QED
    BY <1>7, <2>1, <2>2, <2>3, <2>4 DEF Known, InStore, Reported
<1>8. ASSUME NEW n \in Nodes, Disconnect(n) \/ CloseReplaced(n) PROVE Frame
  <2>1. PICK L \in SUBSET activeClones[n] :
          CloseConnection(n, L) /\ UNCHANGED <<status, arriving>>
    <3>1. Current(n) \subseteq activeClones[n] /\ stale[n] \subseteq activeClones[n]
      BY <1>0 DEF Current, CustodyInv, OnePlace, OneHolder
    <3>2. QED
      BY <1>8, <3>1 DEF Disconnect, CloseReplaced, runVars
  <2>2. /\ Unassign(Requeueable(n, L), n)
        /\ activeClones' = [activeClones EXCEPT ![n] = @ \ L]
    BY <2>1 DEF CloseConnection
  <2>3. Requeueable(n, L) \subseteq L
    BY DEF Requeueable
  <2> HIDE DEF Frame
  <2>4. QED
    BY <1>7, <2>1, <2>2, <2>3
<1>9. ASSUME NEW n \in Nodes, Steal(n) PROVE CarriersAssigned'
  <2>1. PICK i \in DOMAIN queue[NodeTier[n]] :
          LET c == queue[NodeTier[n]][i]
          IN  /\ assignedNodes' = IF InStore(TaskOf(c))
                                  THEN [assignedNodes EXCEPT ![c] = n]
                                  ELSE assignedNodes
              /\ activeClones' = [activeClones EXCEPT ![n] = @ \union {c}]
    BY <1>9 DEF Steal
  <2> DEFINE c == queue[NodeTier[n]][i]
  <2>2. NodeTier[n] \in Tiers /\ queue[NodeTier[n]] \in Seq(Clones)
    BY <1>0, TierAssumption DEF TypeOK
  <2>3. c \in Clones /\ Queued(c)
    BY <2>2 DEF Queued, Contains
  <2>4. UNCHANGED <<status, results, arriving>>
    BY <1>9 DEF Steal, runVars
  <2>5. /\ assignedNodes' = IF InStore(TaskOf(c))
                            THEN [assignedNodes EXCEPT ![c] = n] ELSE assignedNodes
        /\ activeClones' = [activeClones EXCEPT ![n] = @ \union {c}]
    BY <2>1
  <2> HIDE DEF c
  <2>6. ~Reported(c) /\ \A m \in Nodes : ~Carries(m, c)
    BY <1>0, <2>3 DEF CustodyInv, OnePlace, InOnePlace, Carries, Held, Reported
  <2>7. \A m \in Nodes, d \in Clones : Carries(m, d)' => Carries(m, d) \/ (m = n /\ d = c)
    BY <1>0, <2>4, <2>5 DEF Carries, TypeOK
  <2>8. \A d \in Clones : d # c => assignedNodes'[d] = assignedNodes[d]
    BY <1>0, <2>3, <2>5 DEF TypeOK
  <2>9. InStore(TaskOf(c)) => assignedNodes'[c] = n
    BY <1>0, <2>3, <2>5 DEF TypeOK
  <2>10. \A d \in Clones : Known(d)' => Known(d)
    BY <2>4 DEF Known, InStore, Reported
  <2>11. QED
    BY <1>0, <2>6, <2>7, <2>8, <2>9, <2>10 DEF CarriersAssigned, Known
<1>10. ASSUME NEW n \in Nodes, NEW c \in Clones, SendAssignment(n, c) \/ AckEviction(n, c)
       PROVE  Frame
  BY <1>10, <1>st DEF SendAssignment, AckEviction, taskVars, cloneVars, runVars, InStore
<1>11. ASSUME NEW n \in Nodes, NEW c \in Clones, TaskEviction(n, c) PROVE Frame
  <2>1. {c} \in SUBSET activeClones[n]
    BY <1>0, <1>11 DEF TaskEviction, CustodyInv, OnePlace, OneHolder
  <2>2. /\ activeClones' = [activeClones EXCEPT ![n] = @ \ {c}]
        /\ UNCHANGED <<status, arriving>>
    BY <1>11 DEF TaskEviction, DropClone, runVars
  <2>3. Unassign({c}, n) \/ UNCHANGED <<assignedNodes, results>>
    BY <1>11, Zenon DEF TaskEviction
  <2>4. CASE Unassign({c}, n)
    <3> HIDE DEF Frame
    <3>1. QED
      BY <1>7, <2>1, <2>2, <2>4
  <2>5. CASE UNCHANGED <<assignedNodes, results>>
    BY <1>0, <2>2, <2>5 DEF Carries, Known, InStore, Reported, TypeOK
  <2>6. QED
    BY <2>3, <2>4, <2>5
<1>12. ASSUME NEW n \in Nodes, NEW c \in Clones, TaskResult(n, c) PROVE Frame
  <2>1. /\ UNCHANGED <<status, assignedNodes>>
        /\ activeClones' = [activeClones EXCEPT ![n] = @ \ {c}]
        /\ c \in executing[n]
    BY <1>12 DEF TaskResult, DropClone
  <2>2. PICK r \in Reports : /\ r.node = n
                             /\ \/ /\ arriving' = [arriving EXCEPT ![c] = r]
                                   /\ UNCHANGED results
                                \/ AddResult(c, r) /\ UNCHANGED arriving
    BY <1>12, TaskResultReport
  <2>3. Carries(n, c)
    BY <1>0, <2>1 DEF Carries, CustodyInv, OnePlace, OneHolder
  <2>5. \A d \in Clones : arriving'[d] = arriving[d] \/ (d = c /\ arriving'[d] = r)
    BY <1>0, <2>2 DEF TypeOK
  <2>6. \A d \in Clones : results'[d] # NoReport =>
           results'[d] = results[d] \/ (d = c /\ results'[d] = r /\ InStore(TaskOf(c)))
    BY <1>0, <2>2, AddResultCarriers
  <2>7. \A m \in Nodes, d \in Clones : Carries(m, d)' => Carries(m, d)
    <3>1. \A m \in Nodes : activeClones'[m] \subseteq activeClones[m]
      BY <1>0, <2>1 DEF TypeOK
    <3>2. QED
      BY <2>2, <2>3, <2>5, <2>6, <3>1 DEF Carries
  <2>8. QED
    BY <2>1, <2>6, <2>7 DEF Known, InStore, Reported
<1>13. ASSUME NEW c \in Clones, OnCloneResult(c) PROVE Frame
  <2>1. /\ UNCHANGED <<status, assignedNodes, activeClones>>
        /\ arriving[c] \in Reports /\ AddResult(c, arriving[c])
        /\ arriving' = [arriving EXCEPT ![c] = NoReport]
    BY <1>0, <1>13 DEF OnCloneResult, connVars, cloneVars, TypeOK
  <2>2. \A d \in Clones : results'[d] # NoReport =>
           results'[d] = results[d]
             \/ (d = c /\ results'[d] = arriving[c] /\ InStore(TaskOf(c)))
    BY <1>0, <2>1, AddResultCarriers
  <2>3. \A m \in Nodes, d \in Clones : Carries(m, d)' => Carries(m, d)
    BY <1>0, <2>1, <2>2, ReportFacts DEF Carries, TypeOK
  <2>4. QED
    BY <2>1, <2>2, <2>3 DEF Known, InStore, Reported
<1>14. ASSUME NEW c \in Clones, RunConsensus(c) PROVE Frame
  <2>1. /\ UNCHANGED <<activeClones, arriving, results, assignedNodes>>
        /\ InStore(TaskOf(c))
    BY <1>14 DEF RunConsensus, connVars, cloneVars
  <2>2. \/ status' = status
        \/ status' = [status EXCEPT ![TaskOf(c)] = "FAILED"]
    BY <1>14, Zenon DEF RunConsensus
  <2>3. QED
    BY <1>0, <1>st, <2>1, <2>2 DEF InStore, TypeOK
<1>15. ASSUME NEW c \in Clones, Pay(c) \/ Slash(c) PROVE Frame
  BY <1>st, <1>15 DEF Pay, Slash, taskVars, connVars, cloneVars, InStore
<1>16. ASSUME NEW c \in Clones, CompleteTask(c) PROVE Frame
  <2>1. UNCHANGED <<activeClones, arriving, results, assignedNodes>>
    BY <1>16 DEF CompleteTask, connVars, cloneVars
  <2>2. \/ status' = status
        \/ InStore(TaskOf(c)) /\ status' = [status EXCEPT ![TaskOf(c)] = "COMPLETED"]
    BY <1>16 DEF CompleteTask
  <2>3. QED
    BY <1>0, <1>st, <2>1, <2>2 DEF InStore, TypeOK
<1>17. ASSUME NEW c \in Clones, CloseConsensus(c) PROVE Frame
  BY <1>st, <1>17 DEF CloseConsensus, taskVars, connVars, cloneVars, InStore
<1>18. ASSUME Restart PROVE Frame
  BY <1>0, <1>18 DEF Restart, Carries, Known, InStore, Reported, TypeOK
<1>19. ASSUME UNCHANGED vars PROVE Frame
  BY <1>st, <1>19 DEF vars, taskVars, connVars, cloneVars, runVars, InStore
<1> HIDE DEF Frame
<1>20. QED
  BY <1>fr, <1>1, <1>2, <1>3, <1>4, <1>5, <1>6, <1>8, <1>9, <1>10, <1>11, <1>12,
     <1>13, <1>14, <1>15, <1>16, <1>17, <1>18, <1>19
  DEF Next, CrashAndRestart, RunConsensusThrows

LEMMA InitStore == Init => StoreInv
<1> SUFFICES ASSUME Init PROVE StoreInv
  OBVIOUS
<1>1. CustodyInv
  BY InitCustody
<1>2. OutOfStore /\ CloudOnce /\ CarriersAssigned
  BY ClonesFacts DEF Init, OutOfStore, CloudOnce, CarriersAssigned, Reported, Carries
<1>3. QED
  BY <1>1, <1>2 DEF StoreInv

LEMMA NextStore == StoreInv /\ [Next]_vars => StoreInv'
<1> SUFFICES ASSUME StoreInv, [Next]_vars PROVE StoreInv'
  OBVIOUS
<1>1. CustodyInv' /\ TypeOK'
  BY NextCustody DEF StoreInv, CustodyInv
<1>2. QED
  BY <1>1, OutOfStoreStep, CarriersStep DEF StoreInv

(* The inductive invariant behind the assignments: what was never in the   *)
(* store or died with it is at rest, and whoever works on a clone of the   *)
(* store, or has answered one, is its assignee, even after a purge.        *)
THEOREM StoreIsInvariant == Spec => []StoreInv
  BY InitStore, NextStore, PTL DEF Spec

(* The disconnect handler re-queues a clone only if the store assigns it:  *)
(* every clone that a node holds for a task in the store is assigned to    *)
(* that node.                                                              *)
THEOREM AssignmentsFollow == Spec => []AssignmentsFollowHolders
<1>1. StoreInv => AssignmentsFollowHolders
  BY DEF StoreInv, CustodyInv, TypeOK, CarriersAssigned, Known, AssignmentsFollowHolders, Carries
<1>2. QED
  BY <1>1, StoreIsInvariant, PTL

-----------------------------------------------------------------------------
(* Nodes behind one address *)

(* The clones that a step gives to a node *)
NewClones(n) == activeClones'[n] \ activeClones[n]

LEMMA OnlyStealsGive ==
  ASSUME CustodyInv, [Next]_vars, \A n \in Nodes : ~Steal(n)
  PROVE  \A n \in Nodes : activeClones'[n] \subseteq activeClones[n]
<1>0. TypeOK
  BY DEF CustodyInv
<1> DEFINE Fewer == \A n \in Nodes : activeClones'[n] \subseteq activeClones[n]
<1>1. ASSUME NEW t \in Tasks, \/ Submit(t) \/ TrackTaskSla(t) \/ Refuse(t)
                              \/ SlaTimer(t) \/ CloudAnswer(t) \/ Purge(t)
      PROVE  Fewer
  BY <1>1 DEF Submit, TrackTaskSla, Refuse, SlaTimer, CloudAnswer, Purge, connVars, cloneVars
<1>2. ASSUME NEW n \in Nodes, Register(n) \/ Reconnect(n) \/ CloseWhileRegistering(n)
      PROVE  Fewer
  BY <1>2 DEF Register, Reconnect, CloseWhileRegistering, cloneVars
<1>3. ASSUME NEW n \in Nodes, Disconnect(n) \/ CloseReplaced(n) PROVE Fewer
  <2>1. \E L : activeClones' = [activeClones EXCEPT ![n] = @ \ L]
    BY <1>3, DisconnectGivesUp, CloseReplacedGivesUp DEF GivesUp
  <2>2. QED
    BY <1>0, <2>1 DEF TypeOK
<1>4. ASSUME NEW n \in Nodes, NEW c \in Clones,
             \/ SendAssignment(n, c) \/ TaskResult(n, c)
             \/ TaskEviction(n, c) \/ AckEviction(n, c)
      PROVE  Fewer
  <2>1. \/ activeClones' = activeClones
        \/ activeClones' = [activeClones EXCEPT ![n] = @ \ {c}]
    BY <1>4, Zenon
    DEF SendAssignment, TaskResult, TaskEviction, AckEviction, DropClone, cloneVars
  <2>2. QED
    BY <1>0, <2>1 DEF TypeOK
<1>5. ASSUME NEW c \in Clones, \/ OnCloneResult(c) \/ RunConsensus(c) \/ Pay(c) \/ Slash(c)
                               \/ CompleteTask(c) \/ CloseConsensus(c)
      PROVE  Fewer
  BY <1>5 DEF OnCloneResult, RunConsensus, Pay, Slash, CompleteTask, CloseConsensus,
              connVars, cloneVars
<1>6. ASSUME Restart PROVE Fewer
  BY <1>6 DEF Restart
<1>7. ASSUME UNCHANGED vars PROVE Fewer
  BY <1>7 DEF vars, connVars, cloneVars
<1> HIDE DEF Fewer
<1>8. Fewer
  BY <1>1, <1>2, <1>3, <1>4, <1>5, <1>6, <1>7 DEF Next, CrashAndRestart, RunConsensusThrows
<1>9. QED
  BY <1>8 DEF Fewer

LEMMA StealKeepsApart ==
  ASSUME CustodyInv, NEW n \in Nodes, Steal(n),
         NEW m \in nodeIpMap, n \in nodeIpMap, m # n, NodeIp[m] = NodeIp[n],
         NEW c \in NewClones(n), NEW d \in ClonesOf(TaskOf(c))
  PROVE  ~Carries(m, d)
<1>0. TypeOK /\ m \in Nodes
  BY DEF CustodyInv, TypeOK
<1>1. PICK i \in DOMAIN queue[NodeTier[n]] :
        LET e == queue[NodeTier[n]][i]
        IN  /\ IsFirstEligible(i, queue[NodeTier[n]], familyNodeMap, n, SameIp(n))
            /\ activeClones' = [activeClones EXCEPT ![n] = @ \union {e}]
  BY DEF Steal
<1> DEFINE e == queue[NodeTier[n]][i]
<1>2. NodeTier[n] \in Tiers /\ queue[NodeTier[n]] \in Seq(Clones)
  BY <1>0, TierAssumption DEF TypeOK
<1>3. e \in Clones /\ Queued(e)
  BY <1>2 DEF Queued, Contains
<1>4. /\ FamilyNodes(familyNodeMap, TaskOf(e)) \intersect ({n} \union SameIp(n)) = {}
      /\ activeClones' = [activeClones EXCEPT ![n] = @ \union {e}]
  BY <1>1 DEF IsFirstEligible, Eligible
<1> HIDE DEF e
<1>5. c = e
  BY <1>0, <1>4 DEF NewClones, TypeOK
<1>6. ~AllReported(TaskOf(c))
  BY <1>3, <1>5, ClonesFacts DEF CustodyInv, OnePlace, InOnePlace, AllReported
<1>7. m \in SameIp(n)
  BY DEF SameIp
<1>8. m \notin FamilyNodes(familyNodeMap, TaskOf(c))
  BY <1>4, <1>5, <1>7
<1>9. d \in Clones /\ TaskOf(d) = TaskOf(c)
  BY <1>3, <1>5, ClonesFacts
<1>10. QED
  BY <1>0, <1>6, <1>8, <1>9 DEF CustodyInv, FamilyCovers

(* A steal gives a clone to no node at whose address another known node    *)
(* works on, or has answered, a clone of the family; no other step gives   *)
(* clones to anyone.                                                       *)
THEOREM IpAntiAffinityHolds == Spec => IpAntiAffinity
<1> DEFINE Apart ==
      \A n, m \in nodeIpMap : n # m /\ NodeIp[n] = NodeIp[m] =>
        \A c \in activeClones'[n] \ activeClones[n] :
          \A d \in ClonesOf(TaskOf(c)) : ~Carries(m, d)
<1>1. ASSUME CustodyInv, [Next]_vars PROVE Apart
  <2> SUFFICES ASSUME NEW n \in nodeIpMap, NEW m \in nodeIpMap,
                      n # m, NodeIp[n] = NodeIp[m],
                      NEW c \in NewClones(n), NEW d \in ClonesOf(TaskOf(c))
               PROVE  ~Carries(m, d)
    BY DEF NewClones
  <2>1. n \in Nodes
    BY <1>1 DEF CustodyInv, TypeOK
  <2>2. CASE Steal(n)
    BY <1>1, <2>1, <2>2, StealKeepsApart
  <2>3. ASSUME NEW o \in Nodes, o # n, Steal(o) PROVE FALSE
    <3>1. \E x : activeClones' = [activeClones EXCEPT ![o] = @ \union {x}]
      BY <2>3 DEF Steal
    <3>2. activeClones'[n] = activeClones[n]
      BY <1>1, <2>1, <2>3, <3>1 DEF CustodyInv, TypeOK
    <3>3. QED
      BY <3>2 DEF NewClones
  <2>4. CASE \A o \in Nodes : ~Steal(o)
    BY <1>1, <2>1, <2>4, OnlyStealsGive DEF NewClones
  <2>5. QED
    BY <2>1, <2>2, <2>3, <2>4
<1>2. CustodyInv /\ [Next]_vars => [Apart]_vars
  BY <1>1
<1>3. QED
  BY <1>2, CustodyIsInvariant, PTL DEF Spec, IpAntiAffinity

-----------------------------------------------------------------------------
(* What a step may do to a verdict: the many steps that leave the results  *)
(* and the engine alone are one case of the proofs below.                  *)

Quiet == UNCHANGED <<status, results, consensus, payVars, moneyVars>>

Restatus(t, s) ==
  /\ (s = "CLOUD_FALLBACK" /\ InStore(t)) \/ status[t] \in {"NONE", "CLONED"}
  /\ status' = [status EXCEPT ![t] = s]
  /\ UNCHANGED <<results, consensus, payVars, moneyVars>>

Restatuses ==
  \E t \in Tasks, s \in {"CLONED", "SLA_BREACHED", "CLOUD_FALLBACK"} : Restatus(t, s)

AddsReport(c, r) ==
  /\ InStore(TaskOf(c)) /\ results[c] = NoReport
  /\ results' = [results EXCEPT ![c] = r]
  /\ consensus' = IF \A d \in ClonesOf(TaskOf(c)) \ {c} : Reported(d)
                  THEN [consensus EXCEPT ![c] = "recording"] ELSE consensus
  /\ UNCHANGED <<status, payVars, moneyVars>>

EngineStep(c) ==
  RunConsensus(c) \/ Pay(c) \/ Slash(c) \/ CompleteTask(c) \/ CloseConsensus(c)

TimerStep(t) ==
  \/ Submit(t) \/ TrackTaskSla(t) \/ Refuse(t)
  \/ SlaTimer(t) \/ CloudAnswer(t) \/ Purge(t)

LEMMA StepKinds ==
  ASSUME StoreInv, [Next]_vars
  PROVE  \/ \E t \in Tasks : TimerStep(t)
         \/ Restart
         \/ /\ UNCHANGED <<sla, usedCloudFallback>>
            /\ \/ Quiet
               \/ \E c \in Clones, r \in Reports : AddsReport(c, r)
               \/ \E c \in Clones : EngineStep(c)
<1>0. TypeOK /\ CustodyInv
  BY DEF StoreInv, CustodyInv
<1> DEFINE Still == UNCHANGED <<sla, usedCloudFallback>>
           Adds  == \E c \in Clones, r \in Reports : AddsReport(c, r)
<1>5. ASSUME NEW n \in Nodes, Register(n) \/ Reconnect(n) \/ CloseWhileRegistering(n)
      PROVE  Still /\ Quiet
  BY <1>5 DEF Register, Reconnect, CloseWhileRegistering, Quiet, taskVars, runVars
<1>6. ASSUME NEW n \in Nodes, Disconnect(n) \/ CloseReplaced(n) PROVE Still /\ Quiet
  <2>1. UNCHANGED <<results, consensus>>
    BY <1>0, <1>6, DisconnectGivesUp, CloseReplacedGivesUp DEF GivesUp
  <2>2. QED
    BY <1>6, <2>1 DEF Disconnect, CloseReplaced, Quiet, runVars
<1>7. ASSUME NEW n \in Nodes, Steal(n) PROVE Still /\ Quiet
  BY <1>7 DEF Steal, Quiet, runVars
<1>8. ASSUME NEW n \in Nodes, NEW c \in Clones, SendAssignment(n, c) \/ AckEviction(n, c)
      PROVE  Still /\ Quiet
  BY <1>8 DEF SendAssignment, AckEviction, Quiet, taskVars, runVars
<1>9. ASSUME NEW n \in Nodes, NEW c \in Clones, TaskEviction(n, c) PROVE Still /\ Quiet
  <2>1. UNCHANGED <<results, consensus>>
    BY <1>0, <1>9, TaskEvictionGivesUp DEF GivesUp
  <2>2. QED
    BY <1>9, <2>1 DEF TaskEviction, Quiet, runVars
<1>10. ASSUME NEW c \in Clones, NEW r \in Reports, AddResult(c, r),
              Held(c) \/ arriving[c] # NoReport, UNCHANGED <<status, payVars, moneyVars>>
       PROVE  Quiet \/ AddsReport(c, r)
  <2>1. results[c] = NoReport
    BY <1>0, <1>10 DEF CustodyInv, OnePlace, InOnePlace, Reported
  <2>2. QED
    BY <1>10, <2>1 DEF AddResult, Quiet, AddsReport
<1>11. ASSUME NEW n \in Nodes, NEW c \in Clones, TaskResult(n, c)
       PROVE  Still /\ (Quiet \/ Adds)
  <2>1. PICK r \in Reports : AddResult(c, r) \/ UNCHANGED <<results, consensus>>
    BY <1>11, TaskResultReport
  <2>2. Held(c)
    BY <1>0, <1>11 DEF TaskResult, CustodyInv, OnePlace, OneHolder, Held
  <2>3. UNCHANGED <<status, payVars, moneyVars>> /\ Still
    BY <1>11 DEF TaskResult
  <2>4. QED
    BY <1>10, <2>1, <2>2, <2>3 DEF Quiet
<1>12. ASSUME NEW c \in Clones, OnCloneResult(c) PROVE Still /\ (Quiet \/ Adds)
  <2>1. /\ arriving[c] \in Reports /\ arriving[c] # NoReport /\ AddResult(c, arriving[c])
        /\ UNCHANGED <<status, payVars, moneyVars>> /\ Still
    BY <1>0, <1>12 DEF OnCloneResult, TypeOK
  <2>2. QED
    BY <1>10, <2>1
<1>13. ASSUME NEW c \in Clones, EngineStep(c) PROVE Still
  BY <1>13 DEF EngineStep, RunConsensus, Pay, Slash, CompleteTask, CloseConsensus, taskVars
<1>14. ASSUME UNCHANGED vars PROVE Still /\ Quiet
  BY <1>14 DEF vars, Quiet, taskVars, runVars
<1> HIDE DEF Still, Adds
<1>15. \/ \E t \in Tasks : TimerStep(t)
       \/ Restart
       \/ Still /\ (Quiet \/ Adds \/ \E c \in Clones : EngineStep(c))
  BY <1>5, <1>6, <1>7, <1>8, <1>9, <1>11, <1>12, <1>13, <1>14
  DEF Next, TimerStep, EngineStep, CrashAndRestart, RunConsensusThrows
<1>16. QED
  BY <1>15 DEF Still, Adds

LEMMA VerdictSteps ==
  ASSUME StoreInv, [Next]_vars
  PROVE  \/ /\ \A t \in Tasks : usedCloudFallback[t] => usedCloudFallback'[t]
            /\ \/ Quiet
               \/ Restatuses
               \/ \E c \in Clones, r \in Reports : AddsReport(c, r)
               \/ \E c \in Clones : EngineStep(c)
               \/ \E t \in Tasks : Purge(t)
         \/ Restart
<1> DEFINE Kept == \A t \in Tasks : usedCloudFallback[t] => usedCloudFallback'[t]
<1>0. TypeOK
  BY DEF StoreInv, CustodyInv
<1>1. ASSUME NEW t \in Tasks, Submit(t) PROVE Kept /\ Restatuses
  BY <1>1 DEF Submit, Restatuses, Restatus, runVars
<1>2. ASSUME NEW t \in Tasks, TrackTaskSla(t) \/ Refuse(t) PROVE Kept /\ Quiet
  BY <1>2 DEF TrackTaskSla, Refuse, Quiet, taskVars, runVars
<1>3. ASSUME NEW t \in Tasks, SlaTimer(t) PROVE Kept /\ (Quiet \/ Restatuses)
  <2>1. \/ status[t] = "CLONED" /\ status' = [status EXCEPT ![t] = "SLA_BREACHED"]
        \/ status' = status
    BY <1>3, Zenon DEF SlaTimer
  <2>2. UNCHANGED <<usedCloudFallback, results, consensus, payVars, moneyVars>>
    BY <1>3 DEF SlaTimer, runVars
  <2>3. QED
    BY <2>1, <2>2 DEF Quiet, Restatuses, Restatus
<1>4. ASSUME NEW t \in Tasks, CloudAnswer(t) PROVE Kept /\ (Quiet \/ Restatuses)
  <2>1. \/ /\ InStore(t)
           /\ status' = [status EXCEPT ![t] = "CLOUD_FALLBACK"]
           /\ usedCloudFallback' = [usedCloudFallback EXCEPT ![t] = TRUE]
        \/ UNCHANGED <<status, usedCloudFallback>>
    BY <1>4, Zenon DEF CloudAnswer
  <2>2. UNCHANGED <<results, consensus, payVars, moneyVars>>
    BY <1>4 DEF CloudAnswer, runVars
  <2>3. Quiet \/ Restatuses
    BY <2>1, <2>2 DEF Quiet, Restatuses, Restatus
  <2>4. Kept
    BY <1>0, <2>1 DEF TypeOK
  <2>5. QED
    BY <2>3, <2>4
<1>5. ASSUME NEW t \in Tasks, Purge(t) PROVE Kept
  BY <1>5 DEF Purge
<1>6. ASSUME UNCHANGED usedCloudFallback PROVE Kept
  BY <1>6
<1> HIDE DEF Kept
<1>7. \/ Kept /\ \/ Quiet
                 \/ Restatuses
                 \/ \E c \in Clones, r \in Reports : AddsReport(c, r)
                 \/ \E c \in Clones : EngineStep(c)
                 \/ \E t \in Tasks : Purge(t)
      \/ Restart
  BY <1>1, <1>2, <1>3, <1>4, <1>5, <1>6, StepKinds DEF TimerStep
<1>8. QED
  BY <1>7 DEF Kept

-----------------------------------------------------------------------------
(* One run, and its verdict *)

(* No second run of the engine starts for a task. *)
OneRun ==
  \A c, d \in Clones :
    TaskOf(c) = TaskOf(d) /\ consensus[c] # "idle" /\ consensus[d] # "idle" => c = d

(* A run ends with the verdict it writes, and every verdict is about a     *)
(* full set of results.                                                    *)
RunsPrecedeVerdicts ==
  /\ \A c \in Clones : consensus[c] \in {"recording", "paying"} =>
       status[TaskOf(c)] \notin VerdictStatuses
  /\ \A t \in Tasks : status[t] \in VerdictStatuses => AllReported(t)

(* Until a run has decided, the store has its task, or had it answered by  *)
(* the cloud and purged.                                                   *)
RunsInStore ==
  \A c \in Clones : consensus[c] \in {"recording", "paying"} =>
    InStore(TaskOf(c)) \/ usedCloudFallback[TaskOf(c)]

VerdictInv ==
  /\ StoreInv
  /\ OneRun
  /\ RunsPrecedeVerdicts
  /\ RunsInStore

LEMMA VerdictStep ==
  ASSUME VerdictInv, TypeOK', [Next]_vars
  PROVE  OneRun' /\ RunsPrecedeVerdicts'
<1> USE ClonesFacts
<1>0. TypeOK /\ StoreInv /\ OneRun /\ RunsPrecedeVerdicts /\ RunsComplete
  BY DEF VerdictInv, StoreInv, CustodyInv
<1>1. CASE Quiet
  BY <1>0, <1>1 DEF Quiet, OneRun, RunsPrecedeVerdicts, AllReported, Reported
<1>2. ASSUME NEW t \in Tasks, NEW s \in {"CLONED", "SLA_BREACHED", "CLOUD_FALLBACK"},
             Restatus(t, s)
      PROVE  OneRun' /\ RunsPrecedeVerdicts'
  BY <1>0, <1>2 DEF Restatus, OneRun, RunsPrecedeVerdicts, AllReported, Reported,
     VerdictStatuses, TypeOK
<1>3. ASSUME NEW c \in Clones, NEW r \in Reports, AddsReport(c, r)
      PROVE  OneRun' /\ RunsPrecedeVerdicts'
  <2>1. ~AllReported(TaskOf(c)) /\ ~Reported(c)
    BY <1>3 DEF AddsReport, AllReported, Reported
  <2>2. \A d \in Clones : TaskOf(d) = TaskOf(c) => consensus[d] = "idle"
    BY <1>0, <2>1 DEF RunsComplete
  <2>3. /\ UNCHANGED status
        /\ \A d \in Clones \ {c} : consensus'[d] = consensus[d] /\ results'[d] = results[d]
    BY <1>0, <1>3 DEF AddsReport, TypeOK
  <2>4. OneRun'
    BY <1>0, <2>2, <2>3 DEF OneRun
  <2>5. status[TaskOf(c)] \notin VerdictStatuses
    BY <1>0, <2>1 DEF RunsPrecedeVerdicts
  <2>6. QED
    BY <1>0, <2>3, <2>4, <2>5 DEF RunsPrecedeVerdicts, AllReported, Reported
<1>4. ASSUME NEW c \in Clones, RunConsensus(c) PROVE OneRun' /\ RunsPrecedeVerdicts'
  <2>1. /\ UNCHANGED results
        /\ consensus[c] = "recording"
        /\ \/ consensus' = [consensus EXCEPT ![c] = "paying"] /\ UNCHANGED status
           \/ /\ consensus' = [consensus EXCEPT ![c] = "idle"]
              /\ status' = [status EXCEPT ![TaskOf(c)] = "FAILED"]
    BY <1>4 DEF RunConsensus
  <2>2. AllReported(TaskOf(c))
    BY <1>0, <2>1 DEF RunsComplete
  <2>3. \A d \in Clones : TaskOf(d) = TaskOf(c) /\ d # c => consensus[d] = "idle"
    BY <1>0, <2>1 DEF OneRun
  <2>4. \A d \in Clones \ {c} : consensus'[d] = consensus[d]
    BY <1>0, <2>1 DEF TypeOK
  <2>5. OneRun'
    BY <1>0, <2>3, <2>4 DEF OneRun
  <2>6. \A t \in Tasks : AllReported(t)' <=> AllReported(t)
    BY <2>1 DEF AllReported, Reported
  <2>7. /\ \A t \in Tasks \ {TaskOf(c)} : status'[t] = status[t]
        /\ \/ status'[TaskOf(c)] = status[TaskOf(c)]
           \/ consensus'[c] = "idle" /\ status'[TaskOf(c)] = "FAILED"
    BY <1>0, <2>1 DEF TypeOK
  <2>8. RunsPrecedeVerdicts'
    BY <1>0, <2>1, <2>2, <2>3, <2>4, <2>6, <2>7 DEF RunsPrecedeVerdicts
  <2>9. QED
    BY <2>5, <2>8
<1>5. ASSUME NEW c \in Clones, Pay(c) \/ Slash(c) PROVE OneRun' /\ RunsPrecedeVerdicts'
  <2>1. UNCHANGED <<status, results, consensus>>
    BY <1>5 DEF Pay, Slash, taskVars
  <2>2. QED
    BY <1>0, <2>1 DEF OneRun, RunsPrecedeVerdicts, AllReported, Reported
<1>6. ASSUME NEW c \in Clones, CompleteTask(c) PROVE OneRun' /\ RunsPrecedeVerdicts'
  <2>1. /\ UNCHANGED results
        /\ consensus[c] = "paying"
        /\ consensus' = [consensus EXCEPT ![c] = "closing"]
        /\ status' = status \/ status' = [status EXCEPT ![TaskOf(c)] = "COMPLETED"]
    BY <1>6 DEF CompleteTask
  <2>2. AllReported(TaskOf(c))
    BY <1>0, <2>1 DEF RunsComplete
  <2>3. \A d \in Clones : TaskOf(d) = TaskOf(c) /\ d # c => consensus[d] = "idle"
    BY <1>0, <2>1 DEF OneRun
  <2>4. /\ consensus'[c] = "closing"
        /\ \A d \in Clones \ {c} : consensus'[d] = consensus[d]
    BY <1>0, <2>1 DEF TypeOK
  <2>5. OneRun'
    BY <1>0, <2>3, <2>4 DEF OneRun
  <2>6. \A t \in Tasks : AllReported(t)' <=> AllReported(t)
    BY <2>1 DEF AllReported, Reported
  <2>7. \A t \in Tasks \ {TaskOf(c)} : status'[t] = status[t]
    BY <1>0, <2>1 DEF TypeOK
  <2>8. RunsPrecedeVerdicts'
    BY <1>0, <2>2, <2>3, <2>4, <2>6, <2>7 DEF RunsPrecedeVerdicts
  <2>9. QED
    BY <2>5, <2>8
<1>7. ASSUME NEW c \in Clones, CloseConsensus(c) PROVE OneRun' /\ RunsPrecedeVerdicts'
  <2>1. /\ UNCHANGED <<status, results>>
        /\ consensus' = [consensus EXCEPT ![c] = "idle"]
    BY <1>7 DEF CloseConsensus, taskVars
  <2>2. QED
    BY <1>0, <2>1 DEF OneRun, RunsPrecedeVerdicts, AllReported, Reported, TypeOK
<1>8. ASSUME NEW t \in Tasks, Purge(t) PROVE OneRun' /\ RunsPrecedeVerdicts'
  <2>1. /\ UNCHANGED <<results, consensus>>
        /\ status' = [status EXCEPT ![t] = "PURGED"]
    BY <1>8 DEF Purge, runVars
  <2>2. QED
    BY <1>0, <2>1 DEF OneRun, RunsPrecedeVerdicts, AllReported, Reported, VerdictStatuses, TypeOK
<1>9. CASE Restart
  BY <1>0, <1>9 DEF Restart, OneRun, RunsPrecedeVerdicts, VerdictStatuses, InStore, TypeOK
<1>10. QED
  BY <1>0, <1>1, <1>2, <1>3, <1>4, <1>5, <1>6, <1>7, <1>8, <1>9, VerdictSteps
  DEF Restatuses, EngineStep

LEMMA RunsInStoreStep ==
  ASSUME VerdictInv, [Next]_vars
  PROVE  RunsInStore'
<1> USE ClonesFacts
<1>0. TypeOK /\ StoreInv /\ CloudOnce /\ RunsPrecedeVerdicts /\ RunsInStore
  BY DEF VerdictInv, StoreInv, CustodyInv
<1>1. CASE Restart
  BY <1>1 DEF Restart, RunsInStore
<1>2. ASSUME \A t \in Tasks : usedCloudFallback[t] => usedCloudFallback'[t]
      PROVE  /\ Quiet => RunsInStore'
             /\ Restatuses => RunsInStore'
             /\ (\E c \in Clones, r \in Reports : AddsReport(c, r)) => RunsInStore'
             /\ (\E c \in Clones : EngineStep(c)) => RunsInStore'
             /\ (\E t \in Tasks : Purge(t)) => RunsInStore'
  <2>1. CASE Quiet
    BY <1>0, <1>2, <2>1 DEF Quiet, RunsInStore, InStore
  <2>2. ASSUME NEW t \in Tasks, NEW s \in {"CLONED", "SLA_BREACHED", "CLOUD_FALLBACK"},
               Restatus(t, s)
        PROVE  RunsInStore'
    BY <1>0, <1>2, <2>2 DEF Restatus, RunsInStore, InStore, TypeOK
  <2>3. ASSUME NEW c \in Clones, NEW r \in Reports, AddsReport(c, r) PROVE RunsInStore'
    <3>1. /\ InStore(TaskOf(c)) /\ UNCHANGED status
          /\ \A d \in Clones \ {c} : consensus'[d] = consensus[d]
      BY <1>0, <2>3 DEF AddsReport, TypeOK
    <3>2. QED
      BY <1>0, <1>2, <3>1 DEF RunsInStore, InStore
  <2>4. ASSUME NEW c \in Clones, EngineStep(c) PROVE RunsInStore'
    <3>1. /\ \/ consensus' = consensus
             \/ /\ consensus' = [consensus EXCEPT ![c] = "paying"]
                /\ consensus[c] = "recording"
             \/ consensus' = [consensus EXCEPT ![c] = "closing"]
             \/ consensus' = [consensus EXCEPT ![c] = "idle"]
          /\ \/ status' = status
             \/ \E s \in VerdictStatuses : status' = [status EXCEPT ![TaskOf(c)] = s]
      BY <2>4 DEF EngineStep, RunConsensus, Pay, Slash, CompleteTask, CloseConsensus,
         taskVars, VerdictStatuses
    <3>2. \A d \in Clones : consensus'[d] \in {"recording", "paying"} =>
                             consensus[d] \in {"recording", "paying"}
      BY <1>0, <3>1 DEF TypeOK
    <3>3. \A t \in Tasks : InStore(t) => InStore(t)'
      BY <1>0, <3>1 DEF InStore, VerdictStatuses, TypeOK
    <3>4. QED
      BY <1>0, <1>2, <3>2, <3>3 DEF RunsInStore
  <2>5. ASSUME NEW t \in Tasks, Purge(t) PROVE RunsInStore'
    <3>1. /\ UNCHANGED consensus
          /\ \A u \in Tasks \ {t} : InStore(u) => InStore(u)'
          /\ status[t] \in VerdictStatuses \union {"CLOUD_FALLBACK"}
      BY <1>0, <2>5 DEF Purge, InStore, IsActive, Terminal, VerdictStatuses, TypeOK, runVars
    <3>2. \A c \in Clones : TaskOf(c) = t /\ consensus[c] \in {"recording", "paying"} =>
                             usedCloudFallback[t]
      BY <1>0, <3>1 DEF RunsPrecedeVerdicts, CloudOnce
    <3>3. QED
      BY <1>0, <1>2, <3>1, <3>2 DEF RunsInStore
  <2>6. QED
    BY <2>1, <2>2, <2>3, <2>4, <2>5 DEF Restatuses
<1>3. QED
  BY <1>0, <1>1, <1>2, VerdictSteps

LEMMA InitVerdict == Init => VerdictInv
<1> SUFFICES ASSUME Init PROVE VerdictInv
  OBVIOUS
<1>1. StoreInv
  BY InitStore
<1>2. OneRun /\ RunsPrecedeVerdicts /\ RunsInStore
  BY DEF Init, OneRun, RunsPrecedeVerdicts, RunsInStore, VerdictStatuses
<1>3. QED
  BY <1>1, <1>2 DEF VerdictInv

LEMMA NextVerdict == VerdictInv /\ [Next]_vars => VerdictInv'
<1> SUFFICES ASSUME VerdictInv, [Next]_vars PROVE VerdictInv'
  OBVIOUS
<1>1. StoreInv' /\ TypeOK'
  BY NextStore DEF VerdictInv, StoreInv, CustodyInv
<1>2. QED
  BY <1>1, VerdictStep, RunsInStoreStep DEF VerdictInv

(* The engine runs once for a task, when all its results are in, and a     *)
(* verdict is in the store only after its run has written it.              *)
THEOREM VerdictsAreOrdered == Spec => []VerdictInv
  BY InitVerdict, NextVerdict, PTL DEF Spec

(* A run of the engine only ever sees a full set of results, and before it *)
(* decides its task can have left the store only if the cloud answered it. *)
THEOREM RunsAreComplete == Spec => []RunsSeeAllResults
<1>1. VerdictInv => RunsSeeAllResults
  BY DEF VerdictInv, StoreInv, CustodyInv, RunsInStore, RunsSeeAllResults
<1>2. QED
  BY <1>1, VerdictsAreOrdered, PTL

(* Once the engine has decided, no second run, no late result and no SLA   *)
(* timer changes the verdict.                                              *)
THEOREM VerdictsAreStable == Spec => VerdictStable
<1> DEFINE Stable ==
      \A t \in Tasks : status[t] \in {"COMPLETED", "FAILED"} =>
        status'[t] \in {status[t], "CLOUD_FALLBACK", "PURGED", "LOST"}
<1>1. ASSUME VerdictInv, [Next]_vars PROVE Stable
  <2>0. TypeOK /\ StoreInv /\ RunsPrecedeVerdicts
    BY <1>1 DEF VerdictInv, StoreInv, CustodyInv
  <2>1. ASSUME UNCHANGED status PROVE Stable
    BY <2>1
  <2>2. ASSUME NEW t \in Tasks, NEW s \in {"CLONED", "SLA_BREACHED", "CLOUD_FALLBACK"},
               Restatus(t, s)
        PROVE  Stable
    BY <2>0, <2>2 DEF Restatus, TypeOK
  <2>3. ASSUME NEW c \in Clones, EngineStep(c) PROVE Stable
    <3>1. \/ UNCHANGED status
          \/ /\ consensus[c] \in {"recording", "paying"}
             /\ \E s \in VerdictStatuses : status' = [status EXCEPT ![TaskOf(c)] = s]
      BY <2>3 DEF EngineStep, RunConsensus, Pay, Slash, CompleteTask, CloseConsensus,
         taskVars, VerdictStatuses
    <3>2. QED
      BY <2>0, <3>1 DEF RunsPrecedeVerdicts, VerdictStatuses, TypeOK
  <2>4. ASSUME NEW t \in Tasks, Purge(t) PROVE Stable
    BY <2>0, <2>4 DEF Purge, TypeOK
  <2>5. ASSUME Restart PROVE Stable
    BY <2>5 DEF Restart
  <2> HIDE DEF Stable
  <2>6. QED
    BY <1>1, <2>0, <2>1, <2>2, <2>3, <2>4, <2>5, VerdictSteps
    DEF Quiet, Restatuses, AddsReport
<1>2. VerdictInv /\ [Next]_vars => [Stable]_status
  BY <1>1
<1>3. QED
  BY <1>2, VerdictsAreOrdered, PTL DEF Spec, VerdictStable

-----------------------------------------------------------------------------
(* Payouts and slashes *)

Untouched(t) == \A n \in Nodes : payouts[t][n] = 0 /\ slashes[t][n] = 0

Payees(t) == {n \in Nodes : payouts[t][n] > 0}

(* What a run has still to settle: entries of its own task, for nodes that *)
(* have neither been paid nor slashed, on one side only.                   *)
EntriesSound(c) ==
  /\ \A e \in toPay[c] \union toSlash[c] :
       /\ e[1] \in ClonesOf(TaskOf(c)) /\ Reported(e[1])
       /\ e[2] = results[e[1]].node
       /\ payouts[TaskOf(c)][e[2]] = 0 /\ slashes[TaskOf(c)][e[2]] = 0
  /\ toPay[c] \intersect toSlash[c] = {}

(* Those paid and those about to be are a majority, and come first. *)
MajorityFirst(c) ==
  /\ Cardinality(Payees(TaskOf(c)) \union {e[2] : e \in toPay[c]}) >= ConsensusMajority
  /\ toPay[c] # {} => \A n \in Nodes : slashes[TaskOf(c)][n] = 0

MajorityBehindSlashes(t) ==
  (\E n \in Nodes : slashes[t][n] > 0) => Cardinality(Payees(t)) >= ConsensusMajority

FairMoney(t) ==
  /\ \A n \in Nodes : payouts[t][n] + slashes[t][n] <= 1
  /\ Untouched(t) \/ AllReported(t) \/ status[t] \in {"PURGED", "LOST"}
  /\ \A c \in ClonesOf(t) : consensus[c] = "recording" => Untouched(t)
  /\ \A c \in ClonesOf(t) : consensus[c] = "paying" => EntriesSound(c) /\ MajorityFirst(c)
  /\ MajorityBehindSlashes(t)

SettlementInv ==
  /\ VerdictInv
  /\ \A t \in Tasks : FairMoney(t)

(* A step that touches neither the money nor the results of a task, and    *)
(* starts no run for it, keeps its money fair.                             *)
LEMMA FairMoneyFrame ==
  ASSUME NEW t \in Tasks, FairMoney(t),
         payouts'[t] = payouts[t], slashes'[t] = slashes[t],
         AllReported(t) => AllReported(t)' \/ status'[t] \in {"PURGED", "LOST"},
         status[t] \in {"PURGED", "LOST"} => status'[t] \in {"PURGED", "LOST"},
         \A c \in ClonesOf(t) : consensus'[c] \in {"recording", "paying"} =>
           consensus'[c] = consensus[c],
         \A c \in ClonesOf(t) : consensus'[c] = "paying" =>
           /\ toPay'[c] = toPay[c] /\ toSlash'[c] = toSlash[c]
           /\ \A d \in ClonesOf(t) : results'[d] = results[d]
  PROVE  FairMoney(t)'
<1>1. Untouched(t)' <=> Untouched(t)
  BY DEF Untouched
<1>2. Payees(t)' = Payees(t)
  BY DEF Payees
<1>3. \A c \in ClonesOf(t) : consensus'[c] = "paying" => EntriesSound(c)' /\ MajorityFirst(c)'
  <2> SUFFICES ASSUME NEW c \in ClonesOf(t), consensus'[c] = "paying"
               PROVE  EntriesSound(c)' /\ MajorityFirst(c)'
    OBVIOUS
  <2>1. EntriesSound(c) /\ MajorityFirst(c) /\ TaskOf(c) = t
    BY ClonesFacts DEF FairMoney
  <2>2. toPay'[c] = toPay[c] /\ toSlash'[c] = toSlash[c]
    OBVIOUS
  <2>3. EntriesSound(c)'
    BY <2>1, <2>2 DEF EntriesSound, Reported
  <2>4. MajorityFirst(c)'
    BY <1>2, <2>1, <2>2 DEF MajorityFirst
  <2>5. QED
    BY <2>3, <2>4
<1>4. MajorityBehindSlashes(t)'
  BY <1>2 DEF FairMoney, MajorityBehindSlashes
<1>5. QED
  BY <1>1, <1>3, <1>4 DEF FairMoney

(* The results of one family name distinct nodes. *)
LEMMA ReportersDiffer ==
  ASSUME CustodyInv, NEW t \in Tasks,
         NEW c \in ClonesOf(t), NEW d \in ClonesOf(t), Reported(c), Reported(d), c # d
  PROVE  results[c].node \in Nodes /\ results[c].node # results[d].node
<1>1. c \in Clones /\ d \in Clones /\ TaskOf(c) = TaskOf(d)
  BY ClonesFacts
<1>2. results[c] \in Reports /\ results[c].node \in Nodes
  BY <1>1, ReportFacts DEF CustodyInv, TypeOK, Reported
<1>3. QED
  BY <1>1, <1>2 DEF CustodyInv, AntiAffinity, Carries, Reported

LEMMA EntriesFacts ==
  ASSUME NEW M
  PROVE  /\ \A e \in Entries(M) : e[1] \in M /\ e = <<e[1], results[e[1]].node>>
         /\ {e[2] : e \in Entries(M)} = {results[c].node : c \in M}
<1>1. \A e \in Entries(M) : e[1] \in M /\ e = <<e[1], results[e[1]].node>>
  BY DEF Entries
<1>2. \A e \in Entries(M) : e[2] = results[e[1]].node
  BY <1>1
<1>3. \A c \in M : \E e \in Entries(M) : e[2] = results[c].node
  <2>1. \A c \in M : <<c, results[c].node>> \in Entries(M)
    BY DEF Entries
  <2>2. \A c \in M : <<c, results[c].node>>[2] = results[c].node
    OBVIOUS
  <2>3. QED
    BY <2>1, <2>2
<1>4. {e[2] : e \in Entries(M)} = {results[c].node : c \in M}
  BY <1>1, <1>2, <1>3
<1>5. QED
  BY <1>1, <1>4

(* As many nodes as results: one entry each *)
LEMMA EntriesCardinality ==
  ASSUME CustodyInv, NEW t \in Tasks,
         NEW M \in SUBSET ClonesOf(t), \A c \in M : Reported(c)
  PROVE  Cardinality({e[2] : e \in Entries(M)}) = Cardinality(M)
<1> DEFINE f == [c \in M |-> results[c].node]
           P == {e[2] : e \in Entries(M)}
<1>1. P = {f[c] : c \in M}
  BY EntriesFacts
<1>2. \A c, d \in M : f[c] = f[d] => c = d
  BY ReportersDiffer
<1>3. IsFiniteSet(M)
  BY ClonesFacts, ClonesFinite
<1>4. f \in Bijection(M, P)
  BY <1>1, <1>2 DEF Bijection, Injection, Surjection, IsInjective
<1>5. ExistsBijection(M, P)
  BY <1>4 DEF ExistsBijection
<1> HIDE DEF P
<1>6. Cardinality(P) = Cardinality(M)
  BY <1>3, <1>5, FS_Bijection
<1>7. QED
  BY <1>6 DEF P

(* What a step about the run of clone c leaves of the other tasks *)
LEMMA OtherTasksFair ==
  ASSUME SettlementInv, NEW t \in Tasks,
         UNCHANGED results,
         \A u \in Tasks \ {t} : /\ status'[u] = status[u]
                                /\ payouts'[u] = payouts[u] /\ slashes'[u] = slashes[u],
         \A d \in Clones : TaskOf(d) # t =>
           consensus'[d] = consensus[d] /\ toPay'[d] = toPay[d] /\ toSlash'[d] = toSlash[d]
  PROVE  \A u \in Tasks \ {t} : FairMoney(u)'
<1> SUFFICES ASSUME NEW u \in Tasks \ {t} PROVE FairMoney(u)'
  OBVIOUS
<1>1. \A c \in ClonesOf(u) : c \in Clones /\ TaskOf(c) = u
  BY ClonesFacts
<1>2. FairMoney(u)
  BY DEF SettlementInv
<1>3. AllReported(u)' <=> AllReported(u)
  BY DEF AllReported, Reported
<1>4. QED
  BY <1>1, <1>2, <1>3, FairMoneyFrame

LEMMA RunConsensusFair ==
  ASSUME SettlementInv, TypeOK', NEW c \in Clones, RunConsensus(c)
  PROVE  \A t \in Tasks : FairMoney(t)'
<1> DEFINE t == TaskOf(c)
<1>0. /\ TypeOK /\ CustodyInv /\ OneRun /\ FairMoney(t)
      /\ t \in Tasks /\ c \in ClonesOf(t)
  BY ClonesFacts DEF SettlementInv, VerdictInv, StoreInv, CustodyInv
<1>1. /\ UNCHANGED <<results, payouts, slashes>>
      /\ consensus[c] = "recording" /\ InStore(t)
  BY DEF RunConsensus, moneyVars
<1>2. \/ \E M \in Majorities(t) :
           /\ consensus' = [consensus EXCEPT ![c] = "paying"]
           /\ toPay' = [toPay EXCEPT ![c] = Entries(M)]
           /\ toSlash' = [toSlash EXCEPT ![c] = Entries({e \in ClonesOf(t) : Reported(e)} \ M)]
           /\ UNCHANGED status
      \/ /\ consensus' = [consensus EXCEPT ![c] = "idle"]
         /\ status' = [status EXCEPT ![t] = "FAILED"]
         /\ UNCHANGED <<toPay, toSlash>>
  BY DEF RunConsensus, payVars
<1>3. \A d \in ClonesOf(t) : d # c => consensus[d] = "idle"
  BY <1>0, <1>1, ClonesFacts DEF OneRun
<1>4. Untouched(t) /\ AllReported(t)
  BY <1>0, <1>1 DEF FairMoney, CustodyInv, RunsComplete
<1>5. AllReported(t)' /\ Untouched(t)'
  BY <1>1, <1>4 DEF AllReported, Reported, Untouched
<1>6. \A u \in Tasks \ {t} : FairMoney(u)'
  <2>1. /\ \A u \in Tasks \ {t} : status'[u] = status[u]
        /\ \A d \in Clones \ {c} :
             consensus'[d] = consensus[d] /\ toPay'[d] = toPay[d] /\ toSlash'[d] = toSlash[d]
    <3>1. /\ status' = status \/ status' = [status EXCEPT ![t] = "FAILED"]
          /\ \E k : consensus' = [consensus EXCEPT ![c] = k]
          /\ toPay' = toPay \/ \E p : toPay' = [toPay EXCEPT ![c] = p]
          /\ toSlash' = toSlash \/ \E p : toSlash' = [toSlash EXCEPT ![c] = p]
      BY <1>2, Zenon
    <3>2. QED
      BY <1>0, <3>1 DEF TypeOK
  <2>2. QED
    BY <1>0, <1>1, <2>1, OtherTasksFair
<1>7. FairMoney(t)'
  <2>1. CASE /\ consensus' = [consensus EXCEPT ![c] = "idle"]
             /\ status' = [status EXCEPT ![t] = "FAILED"]
    <3>1. \A d \in ClonesOf(t) : consensus'[d] = "idle"
      BY <1>0, <1>3, <2>1, ClonesFacts DEF TypeOK
    <3>2. status'[t] = "FAILED" /\ status[t] \notin {"PURGED", "LOST"}
      BY <1>0, <1>1, <2>1 DEF TypeOK, InStore
    <3> HIDE DEF t
    <3>3. QED
      BY <1>0, <1>1, <1>5, <3>1, <3>2, FairMoneyFrame
  <2>2. ASSUME NEW M \in Majorities(t),
               /\ consensus' = [consensus EXCEPT ![c] = "paying"]
               /\ toPay' = [toPay EXCEPT ![c] = Entries(M)]
               /\ toSlash' = [toSlash EXCEPT ![c] =
                                Entries({e \in ClonesOf(t) : Reported(e)} \ M)]
        PROVE  FairMoney(t)'
    <3> DEFINE R == {e \in ClonesOf(t) : Reported(e)}
    <3>1. M \in SUBSET R /\ Cardinality(M) >= ConsensusMajority
      BY DEF Majorities, Matches
    <3>2. /\ consensus'[c] = "paying" /\ toPay'[c] = Entries(M) /\ toSlash'[c] = Entries(R \ M)
          /\ \A d \in ClonesOf(t) : d # c => consensus'[d] = "idle"
      BY <1>0, <1>3, <2>2, ClonesFacts DEF TypeOK
    <3>3. EntriesSound(c)'
      <4>1. \A e \in Entries(M) : e[1] \in M /\ e[2] = results[e[1]].node
        BY EntriesFacts
      <4>2. \A e \in Entries(R \ M) : e[1] \in R \ M /\ e[2] = results[e[1]].node
        BY EntriesFacts
      <4>3. \A e \in Entries(M) \union Entries(R \ M) :
              e[1] \in ClonesOf(t) /\ Reported(e[1]) /\ e[2] = results[e[1]].node
                /\ e[2] \in Nodes
        <5>1. \A e \in Entries(M) \union Entries(R \ M) :
                e[1] \in ClonesOf(t) /\ Reported(e[1]) /\ e[2] = results[e[1]].node
          BY <3>1, <4>1, <4>2
        <5>2. \A d \in ClonesOf(t) : Reported(d) => results[d].node \in Nodes
          BY <1>0, ClonesFacts, ReportFacts DEF TypeOK, Reported
        <5>3. QED
          BY <5>1, <5>2
      <4>4. Entries(M) \intersect Entries(R \ M) = {}
        BY <4>1, <4>2
      <4> HIDE DEF R
      <4>5. QED
        BY <1>1, <1>5, <3>2, <4>3, <4>4 DEF EntriesSound, Reported, Untouched
    <3>4. MajorityFirst(c)'
      <4>1. Payees(t)' = {}
        BY <1>5 DEF Untouched, Payees
      <4>2. {e[2] : e \in toPay'[c]} = {e[2] : e \in Entries(M)}
        BY <3>2
      <4>3. Cardinality({e[2] : e \in Entries(M)}) = Cardinality(M)
        BY <1>0, <3>1, EntriesCardinality
      <4>4. Payees(t)' \union {e[2] : e \in toPay'[c]} = {e[2] : e \in Entries(M)}
        BY <4>1, <4>2
      <4>5. QED
        BY <1>5, <3>1, <4>3, <4>4 DEF MajorityFirst, Untouched
    <3>5. MajorityBehindSlashes(t)'
      BY <1>5 DEF MajorityBehindSlashes, Untouched
    <3>6. \A d \in ClonesOf(t) : consensus'[d] # "recording"
                                 /\ (consensus'[d] = "paying" => d = c)
      BY <3>2
    <3> HIDE DEF t, R
    <3>7. QED
      BY <1>5, <3>3, <3>4, <3>5, <3>6 DEF FairMoney, Untouched
  <2>3. QED
    BY <1>2, <2>1, <2>2
<1> HIDE DEF t
<1>8. QED
  BY <1>6, <1>7

(* The entries that are left name other nodes than the one just settled.   *)
LEMMA OtherEntries ==
  ASSUME CustodyInv, NEW c \in Clones, EntriesSound(c), TypeOK,
         NEW e \in toPay[c] \union toSlash[c], NEW f \in toPay[c] \union toSlash[c], e # f
  PROVE  e[2] # f[2]
<1>1. e \in Clones \X Nodes /\ f \in Clones \X Nodes
  BY DEF TypeOK
<1>2. e = <<e[1], e[2]>> /\ f = <<f[1], f[2]>>
  BY <1>1
<1>3. /\ e[1] \in ClonesOf(TaskOf(c)) /\ Reported(e[1]) /\ e[2] = results[e[1]].node
      /\ f[1] \in ClonesOf(TaskOf(c)) /\ Reported(f[1]) /\ f[2] = results[f[1]].node
  BY DEF EntriesSound
<1>4. e[1] # f[1]
  BY <1>2, <1>3
<1>5. TaskOf(c) \in Tasks
  BY ClonesFacts
<1>6. QED
  BY <1>3, <1>4, <1>5, ReportersDiffer

LEMMA PayFair ==
  ASSUME SettlementInv, TypeOK', NEW c \in Clones, Pay(c)
  PROVE  \A t \in Tasks : FairMoney(t)'
<1> DEFINE t == TaskOf(c)
<1>0. /\ TypeOK /\ CustodyInv /\ OneRun /\ FairMoney(t) /\ StoreInv
      /\ t \in Tasks /\ c \in ClonesOf(t)
  BY ClonesFacts DEF SettlementInv, VerdictInv, StoreInv, CustodyInv
<1>1. PICK e \in toPay[c] :
        /\ toPay' = [toPay EXCEPT ![c] = @ \ {e}]
        /\ payouts' = IF \E d \in ClonesOf(t) : assignedNodes[d] = e[2]
                      THEN [payouts EXCEPT ![t][e[2]] = @ + 1] ELSE payouts
  BY DEF Pay
<1>2. /\ UNCHANGED <<status, results, consensus, toSlash, slashes>>
      /\ consensus[c] = "paying"
  BY DEF Pay, taskVars
<1>4. EntriesSound(c) /\ MajorityFirst(c)
  BY <1>0, <1>2 DEF FairMoney
<1>5. /\ e[1] \in ClonesOf(t) /\ Reported(e[1]) /\ e[2] = results[e[1]].node
      /\ payouts[t][e[2]] = 0 /\ slashes[t][e[2]] = 0
  BY <1>4 DEF EntriesSound
<1>6. e[2] \in Nodes /\ e[1] \in Clones /\ TaskOf(e[1]) = t
  BY <1>0, <1>5, ClonesFacts, ReportFacts DEF TypeOK, Reported
<1>7. assignedNodes[e[1]] = e[2]
  <2>1. Carries(e[2], e[1])
    BY <1>5 DEF Carries, Reported
  <2>2. QED
    BY <1>0, <1>5, <1>6, <2>1 DEF StoreInv, CarriersAssigned, Known
<1>8. payouts' = [payouts EXCEPT ![t][e[2]] = @ + 1]
  BY <1>1, <1>5, <1>7
<1>9. /\ \A u \in Tasks \ {t} : payouts'[u] = payouts[u]
      /\ \A n \in Nodes \ {e[2]} : payouts'[t][n] = payouts[t][n]
      /\ payouts'[t][e[2]] = 1
  BY <1>0, <1>5, <1>6, <1>8 DEF TypeOK
<1>10. /\ \A d \in Clones \ {c} : toPay'[d] = toPay[d]
       /\ toPay'[c] = toPay[c] \ {e}
  BY <1>0, <1>1 DEF TypeOK
<1>11. \A n \in Nodes : slashes[t][n] = 0
  BY <1>1, <1>4 DEF MajorityFirst
<1> HIDE DEF t
<1>12. \A u \in Tasks \ {t} : FairMoney(u)'
  BY <1>0, <1>2, <1>9, <1>10, OtherTasksFair DEF t
<1>13. EntriesSound(c)'
  <2>1. \A f \in toPay'[c] \union toSlash'[c] : f \in toPay[c] \union toSlash[c] /\ f # e
    BY <1>1, <1>2, <1>4, <1>10 DEF EntriesSound
  <2>2. \A f \in toPay'[c] \union toSlash'[c] : f[2] # e[2] /\ f[2] \in Nodes
    <3>1. \A f \in toPay[c] \union toSlash[c] : f[2] \in Nodes
      BY <1>0 DEF TypeOK
    <3>2. QED
      BY <1>0, <1>1, <1>4, <2>1, <3>1, OtherEntries
  <2>3. toPay'[c] \intersect toSlash'[c] = {}
    BY <1>2, <1>4, <1>10 DEF EntriesSound
  <2>4. \A f \in toPay[c] \union toSlash[c] :
          /\ f[1] \in ClonesOf(t) /\ Reported(f[1])
          /\ f[2] = results[f[1]].node
          /\ payouts[t][f[2]] = 0 /\ slashes[t][f[2]] = 0
    BY <1>4 DEF EntriesSound, t
  <2>5. QED
    BY <1>2, <1>9, <2>1, <2>2, <2>3, <2>4 DEF EntriesSound, Reported, t
<1>14. MajorityFirst(c)'
  <2>1. Payees(t)' = Payees(t) \union {e[2]}
    BY <1>0, <1>6, <1>9 DEF Payees, TypeOK
  <2>2. {f[2] : f \in toPay[c]} = {f[2] : f \in toPay'[c]} \union {e[2]}
    BY <1>1, <1>10
  <2>3. Payees(t)' \union {f[2] : f \in toPay'[c]} = Payees(t) \union {f[2] : f \in toPay[c]}
    BY <2>1, <2>2
  <2>4. QED
    BY <1>2, <1>4, <1>11, <2>3 DEF MajorityFirst, t
<1>15. FairMoney(t)'
  <2>1. \A n \in Nodes : payouts'[t][n] + slashes'[t][n] <= 1
    <3>1. \A n \in Nodes : payouts[t][n] + slashes[t][n] <= 1
      BY <1>0 DEF FairMoney
    <3>2. slashes' = slashes
      BY <1>2
    <3>3. QED
      BY <1>5, <1>6, <1>9, <3>1, <3>2
  <2>2. AllReported(t)'
    BY <1>0, <1>2 DEF CustodyInv, RunsComplete, AllReported, Reported, t
  <2>3. \A d \in ClonesOf(t) : consensus'[d] # "recording" /\ (consensus'[d] = "paying" => d = c)
    BY <1>0, <1>2, ClonesFacts DEF OneRun, t
  <2>4. MajorityBehindSlashes(t)'
    BY <1>2, <1>11 DEF MajorityBehindSlashes
  <2>5. QED
    BY <1>13, <1>14, <2>1, <2>2, <2>3, <2>4 DEF FairMoney
<1>16. QED
  BY <1>12, <1>15

LEMMA SlashFair ==
  ASSUME SettlementInv, TypeOK', NEW c \in Clones, Slash(c)
  PROVE  \A t \in Tasks : FairMoney(t)'
<1> DEFINE t == TaskOf(c)
<1>0. /\ TypeOK /\ CustodyInv /\ OneRun /\ FairMoney(t) /\ StoreInv
      /\ t \in Tasks /\ c \in ClonesOf(t)
  BY ClonesFacts DEF SettlementInv, VerdictInv, StoreInv, CustodyInv
<1>1. PICK e \in toSlash[c] :
        /\ toSlash' = [toSlash EXCEPT ![c] = @ \ {e}]
        /\ slashes' = [slashes EXCEPT ![t][e[2]] = @ + 1]
  BY DEF Slash
<1>2. /\ UNCHANGED <<status, results, consensus, toPay, payouts>>
      /\ consensus[c] = "paying" /\ toPay[c] = {}
  BY DEF Slash, taskVars
<1>3. EntriesSound(c) /\ MajorityFirst(c)
  BY <1>0, <1>2 DEF FairMoney
<1>4. e[2] \in Nodes /\ payouts[t][e[2]] = 0 /\ slashes[t][e[2]] = 0
  BY <1>0, <1>1, <1>3 DEF EntriesSound, TypeOK
<1>5. /\ \A u \in Tasks \ {t} : slashes'[u] = slashes[u]
      /\ \A n \in Nodes \ {e[2]} : slashes'[t][n] = slashes[t][n]
      /\ slashes'[t][e[2]] = 1
  BY <1>0, <1>1, <1>4 DEF TypeOK
<1>6. /\ \A d \in Clones \ {c} : toSlash'[d] = toSlash[d]
      /\ toSlash'[c] = toSlash[c] \ {e}
  BY <1>0, <1>1 DEF TypeOK
<1> HIDE DEF t
<1>7. \A u \in Tasks \ {t} : FairMoney(u)'
  BY <1>0, <1>2, <1>5, <1>6, OtherTasksFair DEF t
<1>8. EntriesSound(c)'
  <2>1. \A f \in toSlash'[c] : f \in toSlash[c] /\ f # e
    BY <1>6
  <2>2. \A f \in toSlash'[c] : f[2] # e[2] /\ f[2] \in Nodes
    <3>1. \A f \in toSlash[c] : f[2] \in Nodes
      BY <1>0 DEF TypeOK
    <3>2. QED
      BY <1>0, <1>1, <1>3, <2>1, <3>1, OtherEntries
  <2>3. \A f \in toSlash[c] :
          /\ f[1] \in ClonesOf(t) /\ Reported(f[1])
          /\ f[2] = results[f[1]].node
          /\ payouts[t][f[2]] = 0 /\ slashes[t][f[2]] = 0
    BY <1>3 DEF EntriesSound, t
  <2>4. QED
    BY <1>2, <1>5, <2>1, <2>2, <2>3 DEF EntriesSound, Reported, t
<1>9. Cardinality(Payees(t)) >= ConsensusMajority
  <2>1. Payees(t) \union {f[2] : f \in toPay[c]} = Payees(t)
    BY <1>2
  <2>2. QED
    BY <1>3, <2>1 DEF MajorityFirst, t
<1>10. Payees(t)' = Payees(t)
  BY <1>2 DEF Payees
<1>11. MajorityFirst(c)'
  BY <1>2, <1>3, <1>10 DEF MajorityFirst, t
<1>12. FairMoney(t)'
  <2>1. \A n \in Nodes : payouts'[t][n] + slashes'[t][n] <= 1
    <3>1. \A n \in Nodes : payouts[t][n] + slashes[t][n] <= 1
      BY <1>0 DEF FairMoney
    <3>2. payouts' = payouts
      BY <1>2
    <3>3. QED
      BY <1>4, <1>5, <3>1, <3>2
  <2>2. AllReported(t)'
    BY <1>0, <1>2 DEF CustodyInv, RunsComplete, AllReported, Reported, t
  <2>3. \A d \in ClonesOf(t) : consensus'[d] # "recording" /\ (consensus'[d] = "paying" => d = c)
    BY <1>0, <1>2, ClonesFacts DEF OneRun, t
  <2>4. MajorityBehindSlashes(t)'
    BY <1>9, <1>10 DEF MajorityBehindSlashes
  <2>5. QED
    BY <1>8, <1>11, <2>1, <2>2, <2>3, <2>4 DEF FairMoney
<1>13. QED
  BY <1>7, <1>12

LEMMA SettlementStep ==
  ASSUME SettlementInv, TypeOK', [Next]_vars
  PROVE  \A t \in Tasks : FairMoney(t)'
<1>0. /\ TypeOK /\ CustodyInv /\ StoreInv /\ OneRun /\ RunsPrecedeVerdicts
      /\ RunsComplete /\ OutOfStore /\ \A t \in Tasks : FairMoney(t)
  BY DEF SettlementInv, VerdictInv, StoreInv, CustodyInv
<1>1. CASE Quiet
  <2>1. \A t \in Tasks : AllReported(t)' <=> AllReported(t)
    BY <1>1 DEF Quiet, AllReported, Reported
  <2>2. QED
    BY <1>0, <1>1, <2>1, FairMoneyFrame DEF Quiet, payVars, moneyVars
<1>2. ASSUME NEW u \in Tasks, NEW s \in {"CLONED", "SLA_BREACHED", "CLOUD_FALLBACK"},
             Restatus(u, s)
      PROVE  \A t \in Tasks : FairMoney(t)'
  <2>1. \A t \in Tasks : AllReported(t)' <=> AllReported(t)
    BY <1>2 DEF Restatus, AllReported, Reported
  <2>2. \A t \in Tasks : status[t] \in {"PURGED", "LOST"} => status'[t] \in {"PURGED", "LOST"}
    BY <1>0, <1>2 DEF Restatus, InStore, TypeOK
  <2>3. QED
    BY <1>0, <1>2, <2>1, <2>2, FairMoneyFrame DEF Restatus, payVars, moneyVars
<1>3. ASSUME NEW c \in Clones, NEW r \in Reports, AddsReport(c, r)
      PROVE  \A t \in Tasks : FairMoney(t)'
  <2>1. /\ UNCHANGED <<status, toPay, toSlash, payouts, slashes>>
        /\ \A d \in Clones \ {c} : consensus'[d] = consensus[d] /\ results'[d] = results[d]
        /\ results'[c] = r /\ r # NoReport /\ ~Reported(c)
    BY <1>0, <1>3, ReportFacts DEF AddsReport, Reported, TypeOK, payVars, moneyVars
  <2>2. ~AllReported(TaskOf(c)) /\ status[TaskOf(c)] \notin {"PURGED", "LOST"}
        /\ TaskOf(c) \in Tasks /\ c \in ClonesOf(TaskOf(c))
    BY <1>3, <2>1, ClonesFacts DEF AddsReport, AllReported, InStore
  <2>3. Untouched(TaskOf(c)) /\ \A n \in Nodes : payouts[TaskOf(c)][n] + slashes[TaskOf(c)][n] <= 1
    BY <1>0, <2>2 DEF FairMoney
  <2>4. \A d \in ClonesOf(TaskOf(c)) : consensus'[d] # "paying"
    <3>1. \A d \in ClonesOf(TaskOf(c)) : d \in Clones /\ consensus[d] = "idle"
      BY <1>0, <2>2, ClonesFacts DEF RunsComplete
    <3>2. \A d \in ClonesOf(TaskOf(c)) : consensus'[d] \in {"idle", "recording"}
      BY <1>0, <1>3, <3>1 DEF AddsReport, TypeOK
    <3>3. QED
      BY <3>2
  <2>5. FairMoney(TaskOf(c))'
    BY <2>1, <2>3, <2>4 DEF FairMoney, Untouched, MajorityBehindSlashes
  <2>6. ASSUME NEW t \in Tasks, t # TaskOf(c) PROVE FairMoney(t)'
    <3>1. \A d \in ClonesOf(t) : d \in Clones /\ d # c
      BY <2>6, ClonesFacts
    <3>2. AllReported(t)' <=> AllReported(t)
      BY <2>1, <3>1 DEF AllReported, Reported
    <3>3. QED
      BY <1>0, <2>1, <3>1, <3>2, FairMoneyFrame
  <2>7. QED
    BY <2>5, <2>6
<1>4. ASSUME NEW c \in Clones, CompleteTask(c) \/ CloseConsensus(c)
      PROVE  \A t \in Tasks : FairMoney(t)'
  <2>1. /\ UNCHANGED <<results, toPay, toSlash, payouts, slashes>>
        /\ consensus[c] # "idle"
        /\ \/ consensus' = [consensus EXCEPT ![c] = "closing"]
           \/ consensus' = [consensus EXCEPT ![c] = "idle"]
        /\ \/ /\ InStore(TaskOf(c))
              /\ status' = [status EXCEPT ![TaskOf(c)] = "COMPLETED"]
           \/ UNCHANGED status
    BY <1>4 DEF CompleteTask, CloseConsensus, taskVars, payVars, moneyVars
  <2>3. \A t \in Tasks : AllReported(t)' <=> AllReported(t)
    BY <2>1 DEF AllReported, Reported
  <2>4. \A t \in Tasks : status[t] \in {"PURGED", "LOST"} => status'[t] \in {"PURGED", "LOST"}
    BY <1>0, <2>1 DEF InStore, TypeOK
  <2>5. \A d \in Clones : consensus'[d] \in {"recording", "paying"} => consensus'[d] = consensus[d]
    BY <1>0, <2>1 DEF TypeOK
  <2>6. QED
    BY <1>0, <2>1, <2>3, <2>4, <2>5, ClonesFacts, FairMoneyFrame
<1>5. ASSUME NEW u \in Tasks, Purge(u) PROVE \A t \in Tasks : FairMoney(t)'
  <2>1. /\ UNCHANGED <<results, consensus, toPay, toSlash, payouts, slashes>>
        /\ status' = [status EXCEPT ![u] = "PURGED"]
    BY <1>5 DEF Purge, runVars, payVars, moneyVars
  <2>2. \A t \in Tasks : status'[t] \in {status[t], "PURGED"}
    BY <1>0, <2>1 DEF TypeOK
  <2>3. \A t \in Tasks : AllReported(t)' <=> AllReported(t)
    BY <2>1 DEF AllReported, Reported
  <2>4. QED
    BY <1>0, <2>1, <2>2, <2>3, FairMoneyFrame
<1>6. CASE Restart
  <2>1. /\ UNCHANGED <<payouts, slashes>>
        /\ \A c \in Clones : consensus'[c] = "idle"
        /\ \A t \in Tasks : status'[t] = IF InStore(t) THEN "LOST" ELSE status[t]
    BY <1>6 DEF Restart, moneyVars
  <2>2. ASSUME NEW t \in Tasks PROVE FairMoney(t)'
    <3>1. status'[t] \in {"PURGED", "LOST"} \/ status[t] = "NONE"
      BY <2>1 DEF InStore
    <3>2. status[t] = "NONE" => ~AllReported(t)
      <4>1. <<t, 1>> \in ClonesOf(t)
        BY ClonesFacts, ClonesAssumption
      <4>2. QED
        BY <1>0, <4>1 DEF OutOfStore, AllReported
    <3>3. Untouched(t)' \/ status'[t] \in {"PURGED", "LOST"}
      BY <1>0, <2>1, <3>1, <3>2 DEF FairMoney, Untouched
    <3>4. MajorityBehindSlashes(t)'
      BY <1>0, <2>1 DEF FairMoney, MajorityBehindSlashes, Payees
    <3>5. QED
      BY <1>0, <2>1, <3>3, <3>4, ClonesFacts DEF FairMoney
  <2>3. QED
    BY <2>2
<1>7. QED
  BY <1>0, <1>1, <1>2, <1>3, <1>4, <1>5, <1>6, VerdictSteps, RunConsensusFair, PayFair,
     SlashFair DEF Restatuses, EngineStep

LEMMA InitSettlement == Init => SettlementInv
<1> SUFFICES ASSUME Init PROVE SettlementInv
  OBVIOUS
<1>1. VerdictInv
  BY InitVerdict
<1>2. ASSUME NEW t \in Tasks PROVE FairMoney(t)
  BY ClonesFacts DEF Init, FairMoney, Untouched, MajorityBehindSlashes
<1>3. QED
  BY <1>1, <1>2 DEF SettlementInv

LEMMA NextSettlement == SettlementInv /\ [Next]_vars => SettlementInv'
<1> SUFFICES ASSUME SettlementInv, [Next]_vars PROVE SettlementInv'
  OBVIOUS
<1>1. VerdictInv' /\ TypeOK'
  BY NextVerdict DEF SettlementInv, VerdictInv, StoreInv, CustodyInv
<1>2. QED
  BY <1>1, SettlementStep DEF SettlementInv

(* At every point of a run, the payouts and slashes of a task are those of *)
(* the results the run has gone through, the majority first.               *)
THEOREM SettlementIsInvariant == Spec => []SettlementInv
  BY InitSettlement, NextSettlement, PTL DEF Spec

(* No second run of the engine starts for a task, and no node is paid      *)
(* twice, slashed twice, or both, for one task.                            *)
THEOREM VerdictsAreSettledOnce == Spec => []OneVerdict
<1>1. SettlementInv => OneVerdict
  BY DEF SettlementInv, VerdictInv, OneRun, FairMoney, OneVerdict
<1>2. QED
  BY <1>1, SettlementIsInvariant, PTL

(* Nobody is slashed unless a majority was to be paid: every node of the   *)
(* majority is still assigned its clone when its payment is attempted,     *)
(* whatever happens to the assignments and the store meanwhile.            *)
THEOREM MajoritiesArePaid == Spec => []SlashesHaveMajority
<1>1. SettlementInv => SlashesHaveMajority
  BY DEF SettlementInv, FairMoney, MajorityBehindSlashes, Payees, SlashesHaveMajority
<1>2. QED
  BY <1>1, SettlementIsInvariant, PTL
-----------------------------------------------------------------------------
(* Counting the results of a task *)

LEMMA CopiesCounted ==
  ASSUME NEW t \in Tasks
  PROVE  IsFiniteSet(ClonesOf(t)) /\ Cardinality(ClonesOf(t)) = ClonesPerTask
<1> DEFINE f == [i \in 1..ClonesPerTask |-> <<t, i>>]
<1>1. f \in Bijection(1..ClonesPerTask, ClonesOf(t))
  BY DEF Bijection, Injection, Surjection, IsInjective, ClonesOf
<1>2. ExistsBijection(1..ClonesPerTask, ClonesOf(t))
  BY <1>1 DEF ExistsBijection
<1>3. IsFiniteSet(1..ClonesPerTask) /\ Cardinality(1..ClonesPerTask) = ClonesPerTask
  BY ClonesAssumption, FS_Interval
<1>4. QED
  BY <1>2, <1>3, FS_Bijection

ReportedOf(t) == {c \in ClonesOf(t) : Reported(c)}

LEMMA ReportsCounted ==
  ASSUME NEW t \in Tasks
  PROVE  /\ IsFiniteSet(ReportedOf(t))
         /\ Cardinality(ReportedOf(t)) \in 0..ClonesPerTask
         /\ Cardinality(ReportedOf(t)) = ClonesPerTask <=> AllReported(t)
<1>1. ReportedOf(t) \subseteq ClonesOf(t)
  BY DEF ReportedOf
<1>2. AllReported(t) <=> ReportedOf(t) = ClonesOf(t)
  BY DEF AllReported, ReportedOf
<1>3. IsFiniteSet(ClonesOf(t)) /\ Cardinality(ClonesOf(t)) = ClonesPerTask
  BY CopiesCounted
<1>4. QED
  BY <1>1, <1>2, <1>3, FS_Subset, FS_CardinalityType, ClonesAssumption

-----------------------------------------------------------------------------
(* Orchestrator implements TaskLifecycle *)

Decided(t) == AllReported(t) /\ ~Undecided(t)

(* The variables of TaskLifecycle under the refinement mapping *)
ReportedCounts == [t \in Tasks |-> Cardinality(ReportedOf(t))]
Clouds         == [t \in Tasks |-> CloudOf(t)]
DecidedTasks   == {t \in Tasks : Decided(t)}

LEMMA InitLifecycle == Init => Lifecycle!Init
<1> SUFFICES ASSUME Init PROVE Lifecycle!Init
  OBVIOUS
<1>1. \A t \in Tasks : ReportedOf(t) = {}
  BY ClonesFacts DEF Init, ReportedOf, Reported
<1>2. ReportedCounts = [t \in Tasks |-> 0]
  BY <1>1, FS_EmptySet DEF ReportedCounts
<1>3. Clouds = [t \in Tasks |-> "untimed"]
  BY DEF Init, Clouds, CloudOf
<1>4. DecidedTasks = {}
  <2>1. \A t \in Tasks : <<t, 1>> \in ClonesOf(t) /\ <<t, 1>> \in Clones
    BY ClonesFacts, ClonesAssumption
  <2>2. QED
    BY <2>1 DEF Init, DecidedTasks, Decided, AllReported, Reported
<1>5. QED
  BY <1>2, <1>3, <1>4 DEF Init, Lifecycle!Init, ReportedCounts, ReportedOf, Clouds,
     DecidedTasks, Decided

(* What does not change keeps its image. *)
LEMMA LifecycleKept ==
  /\ UNCHANGED results => ReportedCounts' = ReportedCounts
  /\ UNCHANGED sla => Clouds' = Clouds
  /\ UNCHANGED <<results, consensus>> => DecidedTasks' = DecidedTasks
<1>1. UNCHANGED results => ReportedCounts' = ReportedCounts
  BY DEF ReportedCounts, ReportedOf, Reported
<1>2. UNCHANGED sla => Clouds' = Clouds
  BY DEF Clouds, CloudOf
<1>3. UNCHANGED <<results, consensus>> => DecidedTasks' = DecidedTasks
  BY DEF DecidedTasks, Decided, AllReported, Reported, Undecided
<1>4. QED
  BY <1>1, <1>2, <1>3

(* A timer of one task moves on. *)
LEMMA CloudMoves ==
  ASSUME TypeOK, NEW t \in Tasks, NEW s, sla' = [sla EXCEPT ![t] = s],
         NEW k, k = CloudOf(t)'
  PROVE  Clouds[t] = CloudOf(t) /\ Clouds' = [Clouds EXCEPT ![t] = k]
<1>1. \A u \in Tasks \ {t} : CloudOf(u)' = CloudOf(u)
  BY DEF CloudOf, TypeOK
<1>2. QED
  BY <1>1 DEF Clouds

LEMMA TimerLifecycle ==
  ASSUME VerdictInv, TypeOK', NEW t \in Tasks, TimerStep(t)
  PROVE  \/ Lifecycle!Next
         \/ UNCHANGED <<status, ReportedCounts, Clouds, DecidedTasks>>
<1>0. TypeOK /\ OutOfStore
  BY DEF VerdictInv, StoreInv, CustodyInv
<1>1. UNCHANGED <<results, consensus>>
  BY DEF TimerStep, Submit, TrackTaskSla, Refuse, SlaTimer, CloudAnswer, Purge,
         taskVars, runVars
<1>2. ReportedCounts' = ReportedCounts /\ DecidedTasks' = DecidedTasks
  BY <1>1, LifecycleKept
<1> DEFINE Untimed == status[t] \notin {"NONE", "LOST"} /\ sla[t] = "persisting"
<1>3. CASE Submit(t)
  <2>1. /\ status[t] = "NONE" /\ status' = [status EXCEPT ![t] = "CLONED"]
        /\ sla[t] = "off" /\ sla' = [sla EXCEPT ![t] = "persisting"]
    BY <1>0, <1>3 DEF Submit, OutOfStore
  <2>2. Clouds' = Clouds
    <3>1. \A u \in Tasks : CloudOf(u)' = CloudOf(u)
      BY <1>0, <2>1 DEF CloudOf, TypeOK
    <3>2. QED
      BY <3>1 DEF Clouds
  <2>3. Lifecycle!Accept(t)
    BY <1>2, <2>1, <2>2 DEF Lifecycle!Accept, Clouds, DecidedTasks, Decided,
       ReportedCounts, ReportedOf
  <2>4. QED
    BY <2>3 DEF Lifecycle!Next
<1>4. CASE TrackTaskSla(t)
  <2>1. /\ Untimed /\ sla' = [sla EXCEPT ![t] = "armed"]
        /\ UNCHANGED status
    BY <1>0, <1>4 DEF TrackTaskSla, OutOfStore, taskVars
  <2>2. CloudOf(t) = "untimed" /\ CloudOf(t)' = "timed"
    BY <1>0, <2>1 DEF CloudOf, TypeOK
  <2>3. Clouds[t] = "untimed" /\ Clouds' = [Clouds EXCEPT ![t] = "timed"]
    BY <1>0, <2>1, <2>2, CloudMoves
  <2>4. Lifecycle!Track(t)
    BY <1>2, <2>1, <2>3 DEF Lifecycle!Track, Lifecycle!Untimed, Clouds, DecidedTasks,
       Decided, ReportedCounts, ReportedOf
  <2>5. QED
    BY <2>4 DEF Lifecycle!Next
<1>5. CASE Refuse(t)
  <2>1. /\ Untimed /\ sla' = [sla EXCEPT ![t] = "refused"]
        /\ UNCHANGED status
    BY <1>0, <1>5 DEF Refuse, OutOfStore, taskVars
  <2>2. CloudOf(t) = "untimed" /\ CloudOf(t)' = "refused"
    BY <1>0, <2>1 DEF CloudOf, TypeOK
  <2>3. Clouds[t] = "untimed" /\ Clouds' = [Clouds EXCEPT ![t] = "refused"]
    BY <1>0, <2>1, <2>2, CloudMoves
  <2>4. Lifecycle!Refuse(t)
    BY <1>2, <2>1, <2>3 DEF Lifecycle!Refuse, Lifecycle!Untimed, Clouds, DecidedTasks,
       Decided, ReportedCounts, ReportedOf
  <2>5. QED
    BY <2>4 DEF Lifecycle!Next
<1>6. CASE SlaTimer(t)
  <2>1. /\ sla[t] = "armed"
        /\ \/ /\ status[t] = "CLONED"
              /\ status' = [status EXCEPT ![t] = "SLA_BREACHED"]
              /\ sla' = [sla EXCEPT ![t] = "cloud"]
           \/ UNCHANGED status /\ sla' = [sla EXCEPT ![t] = "done"]
    BY <1>6, Zenon DEF SlaTimer
  <2>2. CASE /\ status[t] = "CLONED"
             /\ status' = [status EXCEPT ![t] = "SLA_BREACHED"]
             /\ sla' = [sla EXCEPT ![t] = "cloud"]
    <3>1. CloudOf(t) = "timed" /\ CloudOf(t)' = "asked"
      BY <1>0, <2>1, <2>2 DEF CloudOf, TypeOK
    <3>2. Clouds[t] = "timed" /\ Clouds' = [Clouds EXCEPT ![t] = "asked"]
      BY <1>0, <2>2, <3>1, CloudMoves
    <3>3. Lifecycle!Breach(t)
      BY <1>2, <2>2, <3>2 DEF Lifecycle!Breach, Clouds, DecidedTasks, Decided,
         ReportedCounts, ReportedOf
    <3>4. QED
      BY <3>3 DEF Lifecycle!Next, Lifecycle!Proceed
  <2>3. CASE UNCHANGED status /\ sla' = [sla EXCEPT ![t] = "done"]
    <3>1. \A u \in Tasks : CloudOf(u)' = CloudOf(u)
      BY <1>0, <2>1, <2>3 DEF CloudOf, TypeOK
    <3>2. Clouds' = Clouds
      BY <3>1 DEF Clouds
    <3>3. QED
      BY <1>2, <2>3, <3>2
  <2>4. QED
    BY <2>1, <2>2, <2>3
<1>7. CASE CloudAnswer(t)
  <2>1. /\ sla[t] = "cloud" /\ sla' = [sla EXCEPT ![t] = "answered"]
        /\ status' = IF InStore(t) THEN [status EXCEPT ![t] = "CLOUD_FALLBACK"] ELSE status
    BY <1>7, Zenon DEF CloudAnswer
  <2>2. CloudOf(t) = "asked" /\ CloudOf(t)' = "answered"
    BY <1>0, <2>1 DEF CloudOf, TypeOK
  <2>3. Clouds[t] = "asked" /\ Clouds' = [Clouds EXCEPT ![t] = "answered"]
    BY <1>0, <2>1, <2>2, CloudMoves
  <2>4. Lifecycle!CloudAnswer(t)
    BY <1>2, <2>1, <2>3 DEF Lifecycle!CloudAnswer, Lifecycle!InStore, InStore, Clouds,
       DecidedTasks, Decided, ReportedCounts, ReportedOf
  <2>5. QED
    BY <2>4 DEF Lifecycle!Next, Lifecycle!Proceed
<1>8. CASE Purge(t)
  <2>1. /\ InStore(t) /\ ~IsActive(t)
        /\ status' = [status EXCEPT ![t] = "PURGED"]
        /\ Clouds' = Clouds
    BY <1>8, LifecycleKept DEF Purge
  <2>2. Lifecycle!InStore(t) /\ ~Lifecycle!IsActive(t)
    BY <2>1 DEF InStore, IsActive, Terminal, Lifecycle!InStore, Lifecycle!IsActive,
       Lifecycle!Terminal, Lifecycle!Verdicts
  <2>3. Lifecycle!Purge(t)
    BY <1>2, <2>1, <2>2 DEF Lifecycle!Purge, Clouds, DecidedTasks, Decided,
       ReportedCounts, ReportedOf
  <2>4. QED
    BY <2>3 DEF Lifecycle!Next, Lifecycle!Proceed
<1>9. QED
  BY <1>3, <1>4, <1>5, <1>6, <1>7, <1>8 DEF TimerStep

LEMMA ReportLifecycle ==
  ASSUME VerdictInv, TypeOK', NEW c \in Clones, NEW r \in Reports, AddsReport(c, r),
         UNCHANGED <<sla, usedCloudFallback>>
  PROVE  Lifecycle!Next
<1> DEFINE t == TaskOf(c)
<1>0. TypeOK /\ RunsComplete /\ t \in Tasks /\ c \in ClonesOf(t)
  BY ClonesFacts DEF VerdictInv, StoreInv, CustodyInv
<1>1. /\ InStore(t) /\ ~Reported(c) /\ UNCHANGED status
      /\ \A d \in Clones \ {c} : results'[d] = results[d] /\ consensus'[d] = consensus[d]
      /\ results'[c] # NoReport
      /\ consensus' = IF \A d \in ClonesOf(t) \ {c} : Reported(d)
                      THEN [consensus EXCEPT ![c] = "recording"] ELSE consensus
  BY <1>0, ReportFacts DEF AddsReport, Reported, TypeOK
<1> HIDE DEF t
<1>2. /\ ReportedOf(t)' = ReportedOf(t) \union {c} /\ c \notin ReportedOf(t)
      /\ \A u \in Tasks \ {t} : ReportedOf(u)' = ReportedOf(u)
  <2>1. \A u \in Tasks : \A d \in ClonesOf(u) : d \in Clones /\ (d = c => u = t)
    BY ClonesFacts DEF t
  <2>2. QED
    BY <1>0, <1>1, <2>1 DEF ReportedOf, Reported
<1>3. Cardinality(ReportedOf(t)') = Cardinality(ReportedOf(t)) + 1
  BY <1>0, <1>2, ReportsCounted, FS_AddElement
<1>4. /\ ReportedCounts[t] < ClonesPerTask
      /\ ReportedCounts' = [ReportedCounts EXCEPT ![t] = @ + 1]
  <2>1. ~AllReported(t)
    BY <1>0, <1>1 DEF AllReported
  <2>2. ReportedCounts[t] < ClonesPerTask
    BY <1>0, <2>1, ReportsCounted, ClonesAssumption DEF ReportedCounts
  <2>3. QED
    BY <1>0, <1>2, <1>3, <2>2 DEF ReportedCounts
<1>5. DecidedTasks' = DecidedTasks
  <2>1. ~Decided(t)
    BY <1>0, <1>1 DEF Decided, AllReported
  <2>2. ~Decided(t)'
    <3>1. CASE AllReported(t)'
      <4>1. \A d \in ClonesOf(t) \ {c} : Reported(d)
        BY <1>1, <3>1, ClonesFacts, <1>0 DEF AllReported, Reported
      <4>2. consensus'[c] = "recording"
        BY <1>0, <1>1, <4>1 DEF TypeOK
      <4>3. QED
        BY <1>0, <4>2 DEF Decided, Undecided
    <3>2. QED
      BY <3>1 DEF Decided
  <2>3. ASSUME NEW u \in Tasks \ {t} PROVE Decided(u)' <=> Decided(u)
    <3>1. \A d \in ClonesOf(u) : d \in Clones /\ d # c
      BY ClonesFacts DEF t
    <3>2. QED
      BY <1>1, <3>1 DEF Decided, AllReported, Reported, Undecided
  <2>4. QED
    BY <2>1, <2>2, <2>3 DEF DecidedTasks
<1>6. Clouds' = Clouds
  BY LifecycleKept
<1>7. Lifecycle!Report(t)
  BY <1>1, <1>4, <1>5, <1>6 DEF Lifecycle!Report, Lifecycle!InStore, InStore, Clouds,
     DecidedTasks, Decided, ReportedCounts, ReportedOf
<1>8. QED
  BY <1>0, <1>7 DEF Lifecycle!Next, Lifecycle!Proceed

(* The engine decides a task when its run has written a verdict; the other *)
(* steps of the run do not show.                                           *)
LEMMA EngineLifecycle ==
  ASSUME VerdictInv, TypeOK', NEW c \in Clones, EngineStep(c),
         UNCHANGED <<sla, usedCloudFallback>>
  PROVE  \/ Lifecycle!Next
         \/ UNCHANGED <<status, ReportedCounts, Clouds, DecidedTasks>>
<1> DEFINE t == TaskOf(c)
<1>0. /\ TypeOK /\ RunsComplete /\ OneRun /\ OutOfStore
      /\ t \in Tasks /\ c \in ClonesOf(t)
  BY ClonesFacts DEF VerdictInv, StoreInv, CustodyInv
<1>1. UNCHANGED results
  BY DEF EngineStep, RunConsensus, Pay, Slash, CompleteTask, CloseConsensus, taskVars
<1>2. \/ UNCHANGED <<status, consensus>>
      \/ /\ UNCHANGED status
         /\ \/ consensus[c] = "recording" /\ consensus' = [consensus EXCEPT ![c] = "paying"]
            \/ consensus[c] = "closing" /\ consensus' = [consensus EXCEPT ![c] = "idle"]
      \/ /\ consensus[c] \in {"recording", "paying"}
         /\ \E k \in {"idle", "closing"} : consensus' = [consensus EXCEPT ![c] = k]
         /\ IF InStore(t)
            THEN \E s \in {"FAILED", "COMPLETED"} : status' = [status EXCEPT ![t] = s]
            ELSE UNCHANGED status
  BY DEF EngineStep, RunConsensus, Pay, Slash, CompleteTask, CloseConsensus, taskVars
<1>3. ReportedCounts' = ReportedCounts /\ Clouds' = Clouds
  BY <1>1, LifecycleKept
<1>4. \A u \in Tasks : AllReported(u)' <=> AllReported(u)
  BY <1>1 DEF AllReported, Reported
<1>5. CASE UNCHANGED <<status, consensus>>
  BY <1>1, <1>3, <1>5, LifecycleKept
<1>6. CASE /\ UNCHANGED status
           /\ \/ consensus[c] = "recording" /\ consensus' = [consensus EXCEPT ![c] = "paying"]
              \/ consensus[c] = "closing" /\ consensus' = [consensus EXCEPT ![c] = "idle"]
  <2>1. \A d \in Clones :
          consensus'[d] \in {"recording", "paying"} <=> consensus[d] \in {"recording", "paying"}
    BY <1>0, <1>6 DEF TypeOK
  <2>2. \A u \in Tasks : Decided(u)' <=> Decided(u)
    BY <1>4, <2>1, ClonesFacts DEF Decided, Undecided
  <2>3. QED
    BY <1>3, <1>6, <2>2 DEF DecidedTasks
<1>7. CASE /\ consensus[c] \in {"recording", "paying"}
           /\ \E k \in {"idle", "closing"} : consensus' = [consensus EXCEPT ![c] = k]
           /\ IF InStore(t)
              THEN \E s \in {"FAILED", "COMPLETED"} : status' = [status EXCEPT ![t] = s]
              ELSE UNCHANGED status
  <2>1. AllReported(t)
    BY <1>0, <1>7 DEF RunsComplete
  <2>2. /\ consensus'[c] \in {"idle", "closing"}
        /\ \A d \in Clones \ {c} : consensus'[d] = consensus[d]
    BY <1>0, <1>7 DEF TypeOK
  <2> HIDE DEF t
  <2>3. ~Decided(t)
    BY <1>0, <1>7 DEF Decided, Undecided
  <2>4. Decided(t)'
    <3>1. \A d \in ClonesOf(t) : d # c => consensus'[d] = "idle"
      BY <1>0, <1>7, <2>2, ClonesFacts DEF OneRun, t
    <3>2. QED
      BY <1>0, <1>4, <2>1, <2>2, <3>1 DEF Decided, Undecided
  <2>5. ASSUME NEW u \in Tasks \ {t} PROVE Decided(u)' <=> Decided(u)
    <3>1. \A d \in ClonesOf(u) : d \in Clones /\ d # c
      BY ClonesFacts DEF t
    <3>2. QED
      BY <1>4, <2>2, <3>1 DEF Decided, Undecided
  <2>6. DecidedTasks' = DecidedTasks \union {t} /\ t \notin DecidedTasks
    BY <1>0, <2>3, <2>4, <2>5 DEF DecidedTasks
  <2>7. ReportedCounts[t] = ClonesPerTask
    BY <1>0, <2>1, ReportsCounted DEF ReportedCounts
  <2>8. Lifecycle!Decide(t)
    BY <1>3, <1>7, <2>6, <2>7 DEF Lifecycle!Decide, Lifecycle!InStore, InStore,
       Lifecycle!Verdicts, Clouds, DecidedTasks, Decided, ReportedCounts, ReportedOf
  <2>9. QED
    BY <1>0, <2>8 DEF Lifecycle!Next, Lifecycle!Proceed
<1>8. QED
  BY <1>2, <1>5, <1>6, <1>7

LEMMA CrashLifecycle ==
  ASSUME Restart
  PROVE  Lifecycle!Next
<1>1. /\ status' = [t \in Tasks |-> IF InStore(t) THEN "LOST" ELSE status[t]]
      /\ \A t \in Tasks : sla'[t] = "off"
      /\ \A c \in Clones : results'[c] = NoReport
  BY DEF Restart
<1>2. ReportedCounts' = [t \in Tasks |-> 0]
  <2>1. \A t \in Tasks : ReportedOf(t)' = {}
    BY <1>1, ClonesFacts DEF ReportedOf, Reported
  <2>2. QED
    BY <2>1, FS_EmptySet DEF ReportedCounts
<1>3. Clouds' = [t \in Tasks |-> "untimed"]
  <2>1. \A t \in Tasks : CloudOf(t)' = "untimed"
    BY <1>1 DEF CloudOf
  <2>2. QED
    BY <2>1 DEF Clouds
<1>4. DecidedTasks' = {}
  <2>1. \A t \in Tasks : <<t, 1>> \in ClonesOf(t) /\ <<t, 1>> \in Clones
    BY ClonesFacts, ClonesAssumption
  <2>2. QED
    BY <1>1, <2>1 DEF DecidedTasks, Decided, AllReported, Reported
<1>5. Lifecycle!Die
  BY <1>1, <1>2, <1>3, <1>4 DEF Lifecycle!Die, Lifecycle!InStore, InStore, Clouds,
     DecidedTasks, Decided, ReportedCounts, ReportedOf
<1>6. QED
  BY <1>5 DEF Lifecycle!Next

LEMMA NextLifecycle ==
  VerdictInv /\ VerdictInv' /\ [Next]_vars => [Lifecycle!Next]_(Lifecycle!lifecycleVars)
<1> SUFFICES ASSUME VerdictInv, VerdictInv', [Next]_vars
             PROVE  [Lifecycle!Next]_(Lifecycle!lifecycleVars)
  OBVIOUS
<1>0. StoreInv /\ TypeOK'
  BY DEF VerdictInv, StoreInv, CustodyInv
<1>1. Lifecycle!Next \/ UNCHANGED <<status, ReportedCounts, Clouds, DecidedTasks>>
  <2>1. CASE Quiet /\ UNCHANGED <<sla, usedCloudFallback>>
    BY <2>1, LifecycleKept DEF Quiet
  <2>2. QED
    BY <1>0, <2>1, StepKinds, TimerLifecycle, ReportLifecycle, EngineLifecycle, CrashLifecycle
<1>2. QED
  BY <1>1 DEF Lifecycle!lifecycleVars, Clouds, DecidedTasks, Decided, ReportedCounts, ReportedOf

(* What the rest of the system sees of a task - one verdict on a full set  *)
(* of results, one breach, one answer of the cloud - is what Orchestrator  *)
(* does.                                                                   *)
THEOREM LifecycleImplemented == Spec => ImplementsLifecycle
<1>1. VerdictInv /\ VerdictInv' /\ [Next]_vars => [Lifecycle!Next]_(Lifecycle!lifecycleVars)
  BY NextLifecycle
<1>2. QED
  BY <1>1, InitLifecycle, VerdictsAreOrdered, PTL DEF Spec, ImplementsLifecycle, Lifecycle!Spec
-----------------------------------------------------------------------------
(* The custody of the clones.  The invariant makes PlaceOf readable: the   *)
(* first case of its definition that applies is the only one.              *)

PlacesSound ==
  \A c \in Clones :
    /\ Queued(c) => PlaceOf(c) = Custody!Waiting
    /\ \A n \in Nodes : c \in activeClones[n] => PlaceOf(c) = Custody!HeldBy(n)
    /\ arriving[c] # NoReport => PlaceOf(c) = Custody!AnsweredBy(arriving[c].node)
    /\ Reported(c) => PlaceOf(c) = Custody!AnsweredBy(results[c].node)
    /\ ~Queued(c) /\ ~Held(c) /\ arriving[c] = NoReport /\ ~Reported(c) =>
         PlaceOf(c) = IF status[TaskOf(c)] = "NONE" THEN Custody!Fresh
                      ELSE Custody!Gone

LEMMA CustodyPlaces == CustodyInv => PlacesSound
<1> SUFFICES ASSUME CustodyInv, NEW c \in Clones
             PROVE  /\ Queued(c) => PlaceOf(c) = Custody!Waiting
                    /\ \A n \in Nodes : c \in activeClones[n] => PlaceOf(c) = Custody!HeldBy(n)
                    /\ arriving[c] # NoReport => PlaceOf(c) = Custody!AnsweredBy(arriving[c].node)
                    /\ Reported(c) => PlaceOf(c) = Custody!AnsweredBy(results[c].node)
                    /\ ~Queued(c) /\ ~Held(c) /\ arriving[c] = NoReport /\ ~Reported(c) =>
                         PlaceOf(c) = IF status[TaskOf(c)] = "NONE" THEN Custody!Fresh
                                      ELSE Custody!Gone
  BY DEF PlacesSound
<1>1. InOnePlace(c) /\ OneHolder
  BY DEF CustodyInv, OnePlace
<1>2. ASSUME NEW n \in Nodes, c \in activeClones[n] PROVE PlaceOf(c) = Custody!HeldBy(n)
  <2>1. Held(c) /\ ~Queued(c)
    BY <1>1, <1>2 DEF Held, InOnePlace
  <2>2. (CHOOSE m \in Nodes : c \in activeClones[m]) = n
    BY <1>1, <1>2 DEF OneHolder
  <2>3. QED
    BY <2>1, <2>2 DEF PlaceOf, Custody!HeldBy
<1>3. QED
  BY <1>1, <1>2 DEF InOnePlace, PlaceOf, Custody!Waiting, Custody!AnsweredBy,
                    Custody!Fresh, Custody!Gone

(* What the place of a clone says of it                                    *)
LEMMA PlacesRead ==
  ASSUME CustodyInv, NEW c \in Clones
  PROVE  /\ PlaceOf(c) = Custody!Waiting => Queued(c)
         /\ \A n \in Nodes : PlaceOf(c).by = n => Carries(n, c)
         /\ PlaceOf(c) = Custody!Fresh <=> status[TaskOf(c)] = "NONE"
<1> USE DEF Custody!Waiting, Custody!HeldBy, Custody!AnsweredBy, Custody!Fresh, Custody!Gone
<1>1. PlacesSound
  BY CustodyPlaces
<1>2. CASE Queued(c)
  <2>1. status[TaskOf(c)] # "NONE"
    BY <1>2 DEF CustodyInv, NoneBeforeSubmission
  <2>2. QED
    BY <1>1, <1>2, <2>1, UndefinedAssumption DEF PlacesSound
<1>3. ASSUME NEW n \in Nodes, PlaceOf(c) = Custody!HeldBy(n) \/ PlaceOf(c) = Custody!AnsweredBy(n),
             Carries(n, c), status[TaskOf(c)] # "NONE"
      PROVE  /\ PlaceOf(c) = Custody!Waiting => Queued(c)
             /\ \A m \in Nodes : PlaceOf(c).by = m => Carries(m, c)
             /\ PlaceOf(c) = Custody!Fresh <=> status[TaskOf(c)] = "NONE"
  BY <1>3
<1>4. CASE Held(c)
  <2>1. PICK n \in Nodes : c \in activeClones[n]
    BY <1>4 DEF Held
  <2>2. PlaceOf(c) = Custody!HeldBy(n) /\ Carries(n, c)
    BY <1>1, <2>1 DEF PlacesSound, Carries
  <2>3. status[TaskOf(c)] # "NONE"
    BY <1>4 DEF CustodyInv, NoneBeforeSubmission
  <2>4. QED
    BY <1>3, <2>2, <2>3
<1>5. CASE arriving[c] # NoReport
  <2>1. arriving[c].node \in Nodes
    BY <1>5, ReportFacts DEF CustodyInv, TypeOK
  <2>2. PlaceOf(c) = Custody!AnsweredBy(arriving[c].node) /\ Carries(arriving[c].node, c)
    BY <1>1, <1>5 DEF PlacesSound, Carries
  <2>3. status[TaskOf(c)] # "NONE"
    BY <1>5 DEF CustodyInv, NoneBeforeSubmission
  <2>4. QED
    BY <1>3, <2>1, <2>2, <2>3
<1>6. CASE Reported(c)
  <2>1. results[c].node \in Nodes
    BY <1>6, ReportFacts DEF CustodyInv, TypeOK, Reported
  <2>2. PlaceOf(c) = Custody!AnsweredBy(results[c].node) /\ Carries(results[c].node, c)
    BY <1>1, <1>6 DEF PlacesSound, Carries, Reported
  <2>3. status[TaskOf(c)] # "NONE"
    BY <1>6 DEF CustodyInv, NoneBeforeSubmission
  <2>4. QED
    BY <1>3, <2>1, <2>2, <2>3
<1>7. CASE ~Queued(c) /\ ~Held(c) /\ arriving[c] = NoReport /\ ~Reported(c)
  BY <1>1, <1>7, UndefinedAssumption DEF PlacesSound
<1>8. QED
  BY <1>2, <1>4, <1>5, <1>6, <1>7

(* Nothing that PlaceOf(c) reads changes                                   *)
Undisturbed(c) ==
  /\ Queued(c)' <=> Queued(c)
  /\ \A n \in Nodes : c \in activeClones'[n] <=> c \in activeClones[n]
  /\ arriving'[c] = arriving[c] /\ results'[c] = results[c]
  /\ status'[TaskOf(c)] = "NONE" <=> status[TaskOf(c)] = "NONE"

LEMMA PlaceKept ==
  ASSUME CustodyInv, CustodyInv', NEW c \in Clones, Undisturbed(c)
  PROVE  PlaceOf(c)' = PlaceOf(c)
<1>1. PlacesSound
  BY CustodyPlaces
<1>2. PlacesSound'
  BY CustodyPlaces, PTL
<1>3. Held(c)' <=> Held(c)
  BY DEF Undisturbed, Held
<1>4. Reported(c)' <=> Reported(c)
  BY DEF Undisturbed, Reported
<1>5. CASE Queued(c)
  BY <1>1, <1>2, <1>5 DEF Undisturbed, PlacesSound, Custody!Waiting
<1>6. CASE Held(c)
  <2>1. PICK n \in Nodes : c \in activeClones[n]
    BY <1>6 DEF Held
  <2>2. PlaceOf(c) = Custody!HeldBy(n)
    BY <1>1, <2>1 DEF PlacesSound
  <2>3. PlaceOf(c)' = Custody!HeldBy(n)
    BY <1>2, <2>1 DEF Undisturbed, PlacesSound, Custody!HeldBy
  <2>4. QED
    BY <2>2, <2>3
<1>7. CASE arriving[c] # NoReport
  BY <1>1, <1>2, <1>7 DEF Undisturbed, PlacesSound, Custody!AnsweredBy
<1>8. CASE Reported(c)
  BY <1>1, <1>2, <1>4, <1>8 DEF Undisturbed, PlacesSound, Custody!AnsweredBy
<1>9. CASE ~Queued(c) /\ ~Held(c) /\ arriving[c] = NoReport /\ ~Reported(c)
  BY <1>1, <1>2, <1>3, <1>4, <1>9 DEF Undisturbed, PlacesSound, Custody!Fresh, Custody!Gone
<1>10. QED
  BY <1>5, <1>6, <1>7, <1>8, <1>9

(* The steps of CloneCustody, read on the places                           *)

Stays == \A c \in Clones : PlaceOf(c)' = PlaceOf(c)

LEMMA MovesToQueue ==
  ASSUME NEW S \in SUBSET Clones,
         \A c \in S : PlaceOf(c)' = IF Queued(c)' THEN Custody!Waiting ELSE Custody!Gone,
         \A c \in Clones \ S : PlaceOf(c)' = PlaceOf(c)
  PROVE  Custody!PutInQueue(S)
<1> DEFINE kept == {c \in S : Queued(c)'}
<1>1. \A c \in Clones : PlaceOf(c)' = IF c \in kept THEN Custody!Waiting
                                      ELSE IF c \in S THEN Custody!Gone ELSE PlaceOf(c)
  OBVIOUS
<1>2. kept \in SUBSET S
  OBVIOUS
<1> HIDE DEF kept
<1>3. QED
  BY <1>1, <1>2 DEF Custody!PutInQueue

LEMMA DropsAnswers ==
  ASSUME NEW t, NEW S \in SUBSET Clones,
         \A c \in S : TaskOf(c) = t /\ PlaceOf(c).at = "answered" /\ PlaceOf(c)' = Custody!Gone,
         \A c \in Clones \ S : PlaceOf(c)' = PlaceOf(c)
  PROVE  Custody!Forget(t)
<1>1. S \in SUBSET {c \in Custody!Family(t) : [d \in Clones |-> PlaceOf(d)][c].at = "answered"}
  BY DEF Custody!Family
<1>2. [d \in Clones |-> PlaceOf(d)'] =
        [c \in Clones |-> IF c \in S THEN Custody!Gone ELSE [d \in Clones |-> PlaceOf(d)][c]]
  OBVIOUS
<1>3. QED
  BY <1>1, <1>2 DEF Custody!Forget

LEMMA SubmitIssues ==
  ASSUME CustodyInv, CustodyInv', NEW t \in Tasks, Submit(t)
  PROVE  Custody!Issue(t)
<1>1. /\ status[t] = "NONE"
      /\ status' = [status EXCEPT ![t] = "CLONED"]
      /\ UNCHANGED <<results, activeClones, arriving>>
  BY DEF Submit, connVars, cloneVars, runVars
<1>2. \A c \in Clones : c \in ClonesOf(t) <=> TaskOf(c) = t
  BY ClonesFacts
<1>3. \A c \in Clones : status'[TaskOf(c)] = IF TaskOf(c) = t THEN "CLONED" ELSE status[TaskOf(c)]
  BY <1>1, ClonesFacts DEF CustodyInv, TypeOK
<1>4. ASSUME NEW c \in Clones \ ClonesOf(t) PROVE PlaceOf(c)' = PlaceOf(c)
  <2>1. Queued(c)' <=> Queued(c)
    BY SubmitQueues
  <2>2. Undisturbed(c)
    BY <1>1, <1>2, <1>3, <2>1 DEF Undisturbed
  <2>3. QED
    BY <2>2, PlaceKept
<1>5. ASSUME NEW c \in ClonesOf(t)
      PROVE  /\ PlaceOf(c) = Custody!Fresh
             /\ PlaceOf(c)' = IF Queued(c)' THEN Custody!Waiting ELSE Custody!Gone
  <2>1. c \in Clones /\ TaskOf(c) = t
    BY ClonesFacts
  <2>2. PlacesSound'
    BY CustodyPlaces, PTL
  <2>3. ~Held(c)' /\ arriving'[c] = NoReport /\ ~Reported(c)'
    BY <1>1, <2>1 DEF CustodyInv, NoneBeforeSubmission, Held, Reported
  <2>4. status'[TaskOf(c)] # "NONE"
    BY <1>3, <2>1
  <2>5. PlaceOf(c)' = IF Queued(c)' THEN Custody!Waiting ELSE Custody!Gone
    BY <2>1, <2>2, <2>3, <2>4 DEF PlacesSound, Custody!Waiting, Custody!Gone
  <2>6. QED
    BY <1>1, <2>1, <2>5, PlacesRead
<1>6. Custody!Family(t) = ClonesOf(t) /\ ClonesOf(t) \in SUBSET Clones
  BY <1>2, ClonesFacts DEF Custody!Family
<1>7. Custody!PutInQueue(Custody!Family(t))
  BY <1>4, <1>5, <1>6, MovesToQueue
<1>8. QED
  BY <1>5, <1>6, <1>7 DEF Custody!Issue

LEMMA StealMoves ==
  ASSUME CustodyInv, CustodyInv', NEW n \in Nodes, Steal(n)
  PROVE  \E c \in Clones : Custody!Take(n, c)
<1>1. PICK c \in Clones : Takes(n, c)
  BY StealTakes
<1>2. PlacesSound /\ PlacesSound'
  BY CustodyPlaces, PTL
<1>3. \A m \in Nodes : activeClones'[m] = IF m = n THEN activeClones[m] \union {c}
                                          ELSE activeClones[m]
  BY <1>1 DEF Takes, CustodyInv, TypeOK
<1>4. PlaceOf(c) = Custody!Waiting
  BY <1>1, <1>2 DEF Takes, PlacesSound
<1>5. PlaceOf(c)' = Custody!HeldBy(n)
  BY <1>2, <1>3 DEF PlacesSound, Custody!HeldBy
<1>6. ASSUME NEW d \in Clones \ {c} PROVE PlaceOf(d)' = PlaceOf(d)
  BY <1>1, <1>3, PlaceKept DEF Takes, Undisturbed
<1>7. ASSUME NEW d \in Clones, TaskOf(d) = TaskOf(c) PROVE PlaceOf(d).by # n
  <2>1. ~AllReported(TaskOf(c))
    BY <1>1, ClonesFacts DEF Takes, CustodyInv, OnePlace, InOnePlace, AllReported
  <2>2. ~Carries(n, d)
    BY <1>1, <1>7, <2>1 DEF Takes, CustodyInv, FamilyCovers
  <2>3. QED
    BY <2>2, PlacesRead
<1>8. QED
  BY <1>4, <1>5, <1>6, <1>7 DEF Custody!Take, Custody!Family

(* What a node gives up is queued again or gone.                           *)
LEMMA GivenUpMoves ==
  ASSUME CustodyInv, CustodyInv', NEW n, NEW L, NEW S, GivesUp(n, L, S)
  PROVE  Custody!GiveBack(n)
<1>1. L \subseteq Clones /\ L \subseteq activeClones[n] /\ n \in Nodes
  BY DEF GivesUp, CustodyInv, TypeOK
<1>2. PlacesSound /\ PlacesSound'
  BY CustodyPlaces, PTL
<1>3. OneHolder
  BY DEF CustodyInv, OnePlace
<1>4. \A m \in Nodes : activeClones'[m] = activeClones[m] \ L
  BY <1>1, <1>3 DEF GivesUp, OneHolder, CustodyInv, TypeOK
<1>5. ASSUME NEW c \in L
      PROVE  /\ PlaceOf(c) = Custody!HeldBy(n)
             /\ PlaceOf(c)' = IF Queued(c)' THEN Custody!Waiting ELSE Custody!Gone
  <2>1. PlaceOf(c) = Custody!HeldBy(n)
    BY <1>1, <1>2 DEF PlacesSound
  <2>2. Held(c) /\ arriving[c] = NoReport /\ ~Reported(c) /\ status[TaskOf(c)] # "NONE"
    BY <1>1 DEF CustodyInv, OnePlace, InOnePlace, NoneBeforeSubmission, Held
  <2>3. ~Held(c)' /\ arriving'[c] = NoReport /\ ~Reported(c)' /\ status'[TaskOf(c)] # "NONE"
    BY <1>4, <2>2 DEF GivesUp, Held, Reported
  <2>4. PlaceOf(c)' = IF Queued(c)' THEN Custody!Waiting ELSE Custody!Gone
    BY <1>1, <1>2, <2>3 DEF PlacesSound, Custody!Waiting, Custody!Gone
  <2>5. QED
    BY <2>1, <2>4
<1>6. ASSUME NEW c \in Clones \ L PROVE PlaceOf(c)' = PlaceOf(c)
  BY <1>4, PlaceKept DEF GivesUp, Undisturbed
<1>7. Custody!PutInQueue(L)
  BY <1>1, <1>5, <1>6, MovesToQueue
<1>8. L \in SUBSET {c \in Clones : [d \in Clones |-> PlaceOf(d)][c] = Custody!HeldBy(n)}
  BY <1>1, <1>5
<1>9. QED
  BY <1>7, <1>8 DEF Custody!GiveBack

LEMMA SlaTimerMoves ==
  ASSUME CustodyInv, CustodyInv', NEW t \in Tasks, SlaTimer(t)
  PROVE  Custody!Withdraw(t) \/ Stays
<1>1. UNCHANGED <<results, activeClones, arriving>>
  BY DEF SlaTimer, connVars, cloneVars, runVars
<1>2. CASE /\ status[t] = "CLONED"
           /\ status' = [status EXCEPT ![t] = "SLA_BREACHED"]
           /\ queue' = [tier \in Tiers |-> RemoveByTaskId(queue[tier], t)]
  <2>1. \A c \in Clones : Queued(c)' <=> Queued(c) /\ TaskOf(c) # t
    <3>1. \A tier \in Tiers : \A c \in Clones :
            Contains(queue'[tier], c) <=> Contains(queue[tier], c) /\ c \notin ClonesOf(t)
      BY <1>2, RemoveByTaskIdFacts DEF CustodyInv, TypeOK
    <3>2. QED
      BY <3>1, ClonesFacts DEF Queued
  <2>2. \A u \in Tasks : status'[u] = "NONE" <=> status[u] = "NONE"
    BY <1>2 DEF CustodyInv, TypeOK
  <2>3. PlacesSound /\ PlacesSound'
    BY CustodyPlaces, PTL
  <2>4. ASSUME NEW c \in Clones, TaskOf(c) = t /\ PlaceOf(c) = Custody!Waiting
        PROVE  PlaceOf(c)' = Custody!Gone
    <3>1. Queued(c)
      BY <2>4, PlacesRead
    <3>2. ~Held(c) /\ arriving[c] = NoReport /\ ~Reported(c)
      BY <3>1 DEF CustodyInv, OnePlace, InOnePlace
    <3>3. ~Queued(c)' /\ ~Held(c)' /\ arriving'[c] = NoReport /\ ~Reported(c)'
      BY <1>1, <2>1, <2>4, <3>2 DEF Held, Reported
    <3>4. status'[TaskOf(c)] # "NONE"
      BY <1>2, <2>2, <2>4
    <3>5. QED
      BY <2>3, <3>3, <3>4 DEF PlacesSound, Custody!Gone
  <2>5. ASSUME NEW c \in Clones, ~(TaskOf(c) = t /\ PlaceOf(c) = Custody!Waiting)
        PROVE  PlaceOf(c)' = PlaceOf(c)
    <3>1. Queued(c)' <=> Queued(c)
      BY <2>1, <2>3, <2>5 DEF PlacesSound
    <3>2. Undisturbed(c)
      BY <1>1, <2>2, <3>1, ClonesFacts DEF Undisturbed
    <3>3. QED
      BY <3>2, PlaceKept
  <2>6. QED
    BY <2>4, <2>5 DEF Custody!Withdraw
<1>3. CASE UNCHANGED <<status, queue>>
  <2>1. \A c \in Clones : Undisturbed(c)
    BY <1>1, <1>3 DEF Undisturbed, Queued
  <2>2. QED
    BY <2>1, PlaceKept DEF Stays
<1>4. QED
  BY <1>2, <1>3, Zenon DEF SlaTimer

LEMMA TaskResultMoves ==
  ASSUME CustodyInv, CustodyInv', NEW n \in Nodes, NEW c \in Clones, TaskResult(n, c)
  PROVE  Custody!Answer(n, c) \/ Custody!GiveBack(n)
<1>1. /\ UNCHANGED <<status, queue, familyNodeMap>>
      /\ activeClones' = [activeClones EXCEPT ![n] = @ \ {c}]
      /\ executing' = [executing EXCEPT ![n] = @ \ {c}]
      /\ stale' = [stale EXCEPT ![n] = @ \ {c}]
      /\ c \in executing[n]
  BY DEF TaskResult, DropClone, queueVars
<1>2. c \in activeClones[n] /\ OneHolder /\ ~Queued(c)
  BY <1>1 DEF CustodyInv, OnePlace, OneHolder, InOnePlace, Held
<1>3. arriving[c] = NoReport /\ results[c] = NoReport
  BY <1>2 DEF CustodyInv, OnePlace, InOnePlace, Reported, Held
<1>4. \A m \in Nodes : activeClones'[m] = activeClones[m] \ {c}
  BY <1>1, <1>2 DEF CustodyInv, TypeOK, OneHolder
<1>5. PICK r \in Reports :
        /\ r.node = n
        /\ \/ arriving' = [arriving EXCEPT ![c] = r] /\ UNCHANGED <<results, consensus>>
           \/ AddResult(c, r) /\ UNCHANGED arriving
  BY TaskResultReport
<1>6. PlacesSound /\ PlacesSound'
  BY CustodyPlaces, PTL
<1>7. ASSUME arriving'[c] = r \/ results'[c] = r,
             \A d \in Clones \ {c} : arriving'[d] = arriving[d] /\ results'[d] = results[d]
      PROVE  Custody!Answer(n, c)
  <2>1. PlaceOf(c) = Custody!HeldBy(n)
    BY <1>2, <1>6 DEF PlacesSound
  <2>2. PlaceOf(c)' = Custody!AnsweredBy(n)
    BY <1>5, <1>6, <1>7, ReportFacts DEF PlacesSound, Reported, Custody!AnsweredBy
  <2>3. ASSUME NEW d \in Clones \ {c} PROVE PlaceOf(d)' = PlaceOf(d)
    BY <1>1, <1>4, <1>7, PlaceKept DEF Undisturbed, Queued
  <2>4. QED
    BY <2>1, <2>2, <2>3 DEF Custody!Answer
<1>8. CASE arriving' = [arriving EXCEPT ![c] = r] /\ UNCHANGED <<results, consensus>>
  BY <1>7, <1>8 DEF CustodyInv, TypeOK
<1>9. CASE InStore(TaskOf(c)) /\ AddResult(c, r) /\ UNCHANGED arriving
  BY <1>7, <1>9 DEF AddResult, CustodyInv, TypeOK
<1>10. CASE ~InStore(TaskOf(c)) /\ AddResult(c, r) /\ UNCHANGED arriving
  <2>1. GivesUp(n, {c}, {})
    BY <1>1, <1>2, <1>4, <1>10
    DEF GivesUp, AddResult, CustodyInv, TypeOK, OnePlace, OneHolder, QueuesSound, Queued
  <2>2. QED
    BY <2>1, GivenUpMoves
<1>11. QED
  BY <1>5, <1>8, <1>9, <1>10

LEMMA OnCloneResultMoves ==
  ASSUME CustodyInv, CustodyInv', NEW c \in Clones, OnCloneResult(c)
  PROVE  Custody!Forget(TaskOf(c)) \/ Stays
<1>1. /\ UNCHANGED <<status, queue, activeClones>>
      /\ AddResult(c, arriving[c])
      /\ arriving' = [arriving EXCEPT ![c] = NoReport]
      /\ arriving[c] # NoReport
  BY DEF OnCloneResult, queueVars, connVars, cloneVars
<1>2. PlacesSound /\ PlacesSound'
  BY CustodyPlaces, PTL
<1>3. /\ PlaceOf(c) = Custody!AnsweredBy(arriving[c].node)
      /\ ~Queued(c) /\ ~Held(c) /\ status[TaskOf(c)] # "NONE" /\ ~Reported(c)
  BY <1>1, <1>2 DEF PlacesSound, CustodyInv, OnePlace, InOnePlace, NoneBeforeSubmission
<1>4. ASSUME NEW d \in Clones \ {c} PROVE PlaceOf(d)' = PlaceOf(d)
  <2>1. results' = [results EXCEPT ![c] = arriving[c]] \/ results' = results
    BY <1>1, Zenon DEF AddResult
  <2>2. results'[d] = results[d] /\ arriving'[d] = arriving[d]
    BY <1>1, <2>1 DEF CustodyInv, TypeOK
  <2>3. QED
    BY <1>1, <2>2, PlaceKept DEF Undisturbed, Queued
<1>5. CASE InStore(TaskOf(c))
  <2>1. results'[c] = arriving[c]
    BY <1>1, <1>5 DEF AddResult, CustodyInv, TypeOK
  <2>2. PlaceOf(c)' = PlaceOf(c)
    BY <1>1, <1>2, <1>3, <2>1 DEF PlacesSound, Reported, Custody!AnsweredBy
  <2>3. QED
    BY <1>4, <2>2 DEF Stays
<1>6. CASE ~InStore(TaskOf(c))
  <2>1. ~Queued(c)' /\ ~Held(c)' /\ arriving'[c] = NoReport /\ ~Reported(c)'
    BY <1>1, <1>3, <1>6 DEF AddResult, Queued, Held, Reported, CustodyInv, TypeOK
  <2>2. PlaceOf(c)' = Custody!Gone
    BY <1>1, <1>2, <1>3, <2>1 DEF PlacesSound, Custody!Gone
  <2>3. PlaceOf(c).at = "answered"
    BY <1>3 DEF Custody!AnsweredBy
  <2>4. \A d \in {c} : /\ TaskOf(d) = TaskOf(c) /\ PlaceOf(d).at = "answered"
                       /\ PlaceOf(d)' = Custody!Gone
    BY <2>2, <2>3
  <2>5. \A d \in Clones \ {c} : PlaceOf(d)' = PlaceOf(d)
    BY <1>4
  <2>6. {c} \in SUBSET Clones
    OBVIOUS
  <2>7. QED
    BY <2>4, <2>5, <2>6, DropsAnswers
<1>7. QED
  BY <1>5, <1>6

LEMMA CrashResets ==
  ASSUME CustodyInv, CustodyInv', Restart
  PROVE  Custody!Reset
<1>1. PlacesSound'
  BY CustodyPlaces, PTL
<1>2. ASSUME NEW c \in Clones
      PROVE  ~Queued(c)' /\ ~Held(c)' /\ arriving'[c] = NoReport /\ ~Reported(c)'
  BY DEF Restart, Queued, Held, Reported, Contains
<1>3. ASSUME NEW c \in Clones
      PROVE  PlaceOf(c)' = IF PlaceOf(c) = Custody!Fresh THEN Custody!Fresh ELSE Custody!Gone
  <2>1. status'[TaskOf(c)] = "NONE" <=> status[TaskOf(c)] = "NONE"
    BY ClonesFacts DEF Restart, InStore
  <2>2. PlaceOf(c)' = IF status'[TaskOf(c)] = "NONE" THEN Custody!Fresh ELSE Custody!Gone
    BY <1>1, <1>2 DEF PlacesSound, Custody!Fresh, Custody!Gone
  <2>3. QED
    BY <2>1, <2>2, PlacesRead
<1>4. QED
  BY <1>3 DEF Custody!Reset

(* The steps that move no clone                                            *)
LEMMA OthersStay ==
  ASSUME CustodyInv, CustodyInv',
         UNCHANGED <<results, queue, activeClones, arriving>>,
         \A t \in Tasks : status'[t] = "NONE" <=> status[t] = "NONE"
  PROVE  Stays
<1>1. \A c \in Clones : Undisturbed(c)
  BY ClonesFacts DEF Undisturbed, Queued
<1>2. QED
  BY <1>1, PlaceKept DEF Stays

LEMMA InitCustodyPlaces == Init => Custody!Init
<1> SUFFICES ASSUME Init PROVE Custody!Init
  OBVIOUS
<1>1. CustodyInv /\ \A t \in Tasks : status[t] = "NONE"
  BY InitCustody DEF Init
<1>2. \A c \in Clones : PlaceOf(c) = Custody!Fresh
  BY <1>1, PlacesRead, ClonesFacts
<1>3. QED
  BY <1>2 DEF Custody!Init

LEMMA StepMovesClones ==
  ASSUME StoreInv, StoreInv', [Next]_vars
  PROVE  Custody!Next \/ Stays
<1>0. TypeOK /\ CustodyInv /\ CustodyInv'
  BY DEF StoreInv, CustodyInv
<1> DEFINE Frame == /\ UNCHANGED <<results, queue, activeClones, arriving>>
                    /\ \A t \in Tasks : status'[t] = "NONE" <=> status[t] = "NONE"
           Goal  == Custody!Next \/ Stays
<1>fr. Frame => Goal
  BY <1>0, OthersStay
<1> HIDE DEF Goal
<1>1. ASSUME NEW t \in Tasks, Submit(t) PROVE Goal
  BY <1>0, <1>1, SubmitIssues DEF Goal, Custody!Next
<1>2. ASSUME NEW t \in Tasks, TrackTaskSla(t) \/ Refuse(t) PROVE Frame
  BY <1>2 DEF TrackTaskSla, Refuse, taskVars, queueVars, connVars, cloneVars, runVars
<1>3. ASSUME NEW t \in Tasks, SlaTimer(t) PROVE Goal
  BY <1>0, <1>3, SlaTimerMoves DEF Goal, Custody!Next
<1>4. ASSUME NEW t \in Tasks, Purge(t) PROVE Frame
  BY <1>0, <1>4 DEF Purge, InStore, TypeOK, queueVars, connVars, cloneVars, runVars
<1>5. ASSUME NEW n \in Nodes, Register(n) \/ Reconnect(n) \/ CloseWhileRegistering(n)
      PROVE  Frame
  BY <1>5 DEF Register, Reconnect, CloseWhileRegistering, taskVars, queueVars, cloneVars,
              runVars
<1>6. ASSUME NEW n \in Nodes, Disconnect(n) \/ CloseReplaced(n) PROVE Goal
  BY <1>0, <1>6, DisconnectGivesUp, CloseReplacedGivesUp, GivenUpMoves DEF Goal, Custody!Next
<1>7. ASSUME NEW n \in Nodes, Steal(n) PROVE Goal
  BY <1>0, <1>7, StealMoves DEF Goal, Custody!Next
<1>8. ASSUME NEW n \in Nodes, NEW c \in Clones, SendAssignment(n, c) \/ AckEviction(n, c)
      PROVE  Frame
  BY <1>8 DEF SendAssignment, AckEviction, taskVars, queueVars, cloneVars, runVars
<1>9. ASSUME NEW n \in Nodes, NEW c \in Clones, TaskResult(n, c) PROVE Goal
  BY <1>0, <1>9, TaskResultMoves DEF Goal, Custody!Next
<1>10. ASSUME NEW n \in Nodes, NEW c \in Clones, TaskEviction(n, c) PROVE Goal
  BY <1>0, <1>10, TaskEvictionGivesUp, GivenUpMoves DEF Goal, Custody!Next
<1>11. ASSUME NEW c \in Clones, OnCloneResult(c) PROVE Goal
  BY <1>0, <1>11, OnCloneResultMoves, ClonesFacts DEF Goal, Custody!Next
<1>12. ASSUME Restart PROVE Goal
  BY <1>0, <1>12, CrashResets DEF Goal, Custody!Next
<1>13. ASSUME NEW t \in Tasks, CloudAnswer(t) PROVE Frame
  <2>1. /\ UNCHANGED <<results, queue, activeClones, arriving>>
        /\ status' = status \/ status' = [status EXCEPT ![t] = "CLOUD_FALLBACK"]
        /\ sla[t] = "cloud"
    BY <1>13 DEF CloudAnswer, queueVars, connVars, cloneVars, runVars
  <2>2. status[t] # "NONE"
    BY <2>1 DEF StoreInv, OutOfStore
  <2>3. QED
    BY <1>0, <2>1, <2>2 DEF TypeOK
<1>14. ASSUME NEW c \in Clones, EngineStep(c) PROVE Frame
  <2>1. UNCHANGED <<results, queue, activeClones, arriving>> /\ consensus[c] # "idle"
    BY <1>14 DEF EngineStep, RunConsensus, Pay, Slash, CompleteTask, CloseConsensus,
                 taskVars, queueVars, connVars, cloneVars
  <2>2. status' = status \/ \E s \in {"FAILED", "COMPLETED"} :
                               status' = [status EXCEPT ![TaskOf(c)] = s]
    BY <1>14 DEF EngineStep, RunConsensus, Pay, Slash, CompleteTask, CloseConsensus, taskVars
  <2>3. status[TaskOf(c)] # "NONE"
    BY <1>0, <2>1, ClonesFacts DEF StoreInv, OutOfStore
  <2>4. QED
    BY <1>0, <2>1, <2>2, <2>3 DEF TypeOK
<1>15. ASSUME UNCHANGED vars PROVE Frame
  BY <1>15 DEF vars, taskVars, queueVars, connVars, cloneVars, runVars
<1> HIDE DEF Frame
<1>16. QED
  BY <1>fr, <1>1, <1>2, <1>3, <1>4, <1>5, <1>6, <1>7, <1>8, <1>9, <1>10, <1>11, <1>12,
     <1>13, <1>14, <1>15
  DEF Next, Goal, EngineStep, CrashAndRestart, RunConsensusThrows

(* The orchestrator implements the custody of clones: whatever it does to  *)
(* a clone, with queues, sockets and timers, is a step of CloneCustody.    *)
THEOREM CustodyImplemented == Spec => ImplementsCustody
<1>1. Init => Custody!Init
  BY InitCustodyPlaces
<1>2. StoreInv /\ StoreInv' /\ [Next]_vars
        => [Custody!Next]_([c \in Clones |-> PlaceOf(c)])
  BY StepMovesClones DEF Stays
<1>3. QED
  BY <1>1, <1>2, StoreIsInvariant, PTL DEF Spec, ImplementsCustody, Custody!Spec
-----------------------------------------------------------------------------
(* What the custody promises: anti-affinity survives every way of giving   *)
(* clones back.                                                            *)

DistinctInv == Custody!CustodyTypeOK /\ Custody!DistinctNodes

LEMMA PutInQueueKeeps ==
  ASSUME DistinctInv, NEW S \in SUBSET Clones, Custody!PutInQueue(S)
  PROVE  DistinctInv'
<1>1. PICK kept \in SUBSET S :
        \A c \in Clones : PlaceOf(c)' = IF c \in kept THEN Custody!Waiting
                                     ELSE IF c \in S THEN Custody!Gone ELSE PlaceOf(c)
  BY DEF Custody!PutInQueue
<1>2. /\ Custody!Waiting.by = NoNode /\ Custody!Waiting \in Custody!Places
      /\ Custody!Gone.by = NoNode /\ Custody!Gone \in Custody!Places
  BY DEF Custody!Waiting, Custody!Gone, Custody!Places
<1>3. Custody!CustodyTypeOK'
  BY <1>1, <1>2 DEF DistinctInv, Custody!CustodyTypeOK
<1>4. \A c \in Clones : PlaceOf(c)'.by = NoNode \/ PlaceOf(c)' = PlaceOf(c)
  BY <1>1, <1>2
<1>5. QED
  BY <1>3, <1>4 DEF DistinctInv, Custody!DistinctNodes

(* Clones that go nowhere but out of the swarm *)
LEMMA LeavingKeeps ==
  ASSUME DistinctInv, Custody!CustodyTypeOK',
         \A c \in Clones : PlaceOf(c)' = PlaceOf(c) \/ PlaceOf(c)' = Custody!Gone
  PROVE  DistinctInv'
<1>1. Custody!Gone.by = NoNode
  BY DEF Custody!Gone
<1>2. \A c \in Clones : PlaceOf(c)'.by = NoNode \/ PlaceOf(c)' = PlaceOf(c)
  BY <1>1
<1>3. QED
  BY <1>2 DEF DistinctInv, Custody!DistinctNodes

(* Through every way of giving clones back, withdrawing and forgetting     *)
(* them, the clones a node holds or answered are of different families.    *)
THEOREM NodesStayDistinct == Custody!Spec => []Custody!DistinctNodes
<1>1. Custody!Init => DistinctInv
  BY DEF Custody!Init, DistinctInv, Custody!CustodyTypeOK, Custody!DistinctNodes,
         Custody!Fresh, Custody!Places
<1>2. DistinctInv /\ [Custody!Next]_([c \in Clones |-> PlaceOf(c)]) => DistinctInv'
  <2> SUFFICES ASSUME DistinctInv, [Custody!Next]_([c \in Clones |-> PlaceOf(c)]) PROVE DistinctInv'
    OBVIOUS
  <2>1. ASSUME NEW t \in Tasks, Custody!Issue(t) PROVE DistinctInv'
    <3>1. Custody!Family(t) \in SUBSET Clones /\ Custody!PutInQueue(Custody!Family(t))
      BY <2>1 DEF Custody!Family, Custody!Issue
    <3>2. QED
      BY <3>1, PutInQueueKeeps
  <2>2. ASSUME NEW n \in Nodes, Custody!GiveBack(n) PROVE DistinctInv'
    <3>1. PICK S \in SUBSET {c \in Clones : PlaceOf(c) = Custody!HeldBy(n)} :
            Custody!PutInQueue(S)
      BY <2>2 DEF Custody!GiveBack
    <3>2. S \in SUBSET Clones
      BY <3>1
    <3>3. QED
      BY <3>1, <3>2, PutInQueueKeeps
  <2>3. ASSUME NEW n \in Nodes, NEW c \in Clones, Custody!Take(n, c) PROVE DistinctInv'
    <3>1. Custody!HeldBy(n).by = n /\ Custody!HeldBy(n) \in Custody!Places
      BY DEF Custody!HeldBy, Custody!Places
    <3>2. \A e \in Clones : PlaceOf(e)' = IF e = c THEN Custody!HeldBy(n) ELSE PlaceOf(e)
      BY <2>3 DEF Custody!Take, DistinctInv, Custody!CustodyTypeOK
    <3>3. Custody!CustodyTypeOK'
      BY <2>3, <3>1 DEF Custody!Take, DistinctInv, Custody!CustodyTypeOK
    <3>4. \A e \in Clones : TaskOf(e) = TaskOf(c) => PlaceOf(e).by # n
      BY <2>3 DEF Custody!Take, Custody!Family
    <3>5. Custody!DistinctNodes'
      BY <3>1, <3>2, <3>4 DEF DistinctInv, Custody!DistinctNodes
    <3>6. QED
      BY <3>3, <3>5 DEF DistinctInv
  <2>4. ASSUME NEW n \in Nodes, NEW c \in Clones, Custody!Answer(n, c) PROVE DistinctInv'
    <3>1. /\ Custody!HeldBy(n).by = n /\ Custody!AnsweredBy(n).by = n
          /\ Custody!AnsweredBy(n) \in Custody!Places
      BY DEF Custody!HeldBy, Custody!AnsweredBy, Custody!Places
    <3>2. \A e \in Clones : PlaceOf(e)' = IF e = c THEN Custody!AnsweredBy(n) ELSE PlaceOf(e)
      BY <2>4 DEF Custody!Answer, DistinctInv, Custody!CustodyTypeOK
    <3>3. \A e \in Clones : PlaceOf(e)'.by = PlaceOf(e).by
      BY <2>4, <3>1, <3>2 DEF Custody!Answer
    <3>4. Custody!CustodyTypeOK'
      BY <2>4, <3>1 DEF Custody!Answer, DistinctInv, Custody!CustodyTypeOK
    <3>5. QED
      BY <3>3, <3>4 DEF DistinctInv, Custody!DistinctNodes
  <2>5. Custody!Gone \in Custody!Places /\ Custody!Fresh \in Custody!Places
    BY DEF Custody!Places
  <2>6. ASSUME NEW t \in Tasks, Custody!Withdraw(t) PROVE DistinctInv'
    BY <2>5, <2>6, LeavingKeeps DEF Custody!Withdraw, DistinctInv, Custody!CustodyTypeOK
  <2>7. ASSUME NEW t \in Tasks, Custody!Forget(t) PROVE DistinctInv'
    BY <2>5, <2>7, LeavingKeeps DEF Custody!Forget, DistinctInv, Custody!CustodyTypeOK
  <2>8. ASSUME Custody!Reset PROVE DistinctInv'
    BY <2>5, <2>8, LeavingKeeps DEF Custody!Reset, DistinctInv, Custody!CustodyTypeOK
  <2>9. CASE UNCHANGED [c \in Clones |-> PlaceOf(c)]
    BY <2>9 DEF DistinctInv, Custody!CustodyTypeOK, Custody!DistinctNodes
  <2>10. QED
    BY <2>1, <2>2, <2>3, <2>4, <2>6, <2>7, <2>8, <2>9 DEF Custody!Next
<1>3. DistinctInv => Custody!DistinctNodes
  BY DEF DistinctInv
<1>4. QED
  BY <1>1, <1>2, <1>3, PTL DEF Custody!Spec

(* So the clones the orchestrator counts as held or answered by one node   *)
(* are of different families, wherever they were before.                   *)
THEOREM NodesAreDistinct == Spec => []Custody!DistinctNodes
  BY CustodyImplemented, NodesStayDistinct, PTL DEF ImplementsCustody

-----------------------------------------------------------------------------
(* With room in the queues for every clone, none is refused.               *)

LEMMA RoomForAll ==
  ASSUME MaxDepth >= Cardinality(Clones), NEW q \in Seq(Clones), IsInjective(q),
         NEW S \in SUBSET Clones, \A c \in S : ~Contains(q, c)
  PROVE  Len(q) + Cardinality(S) <= MaxDepth
<1>1. PICK R \in SUBSET Clones : R = {c \in Clones : Contains(q, c)}
  OBVIOUS
<1>2. Len(q) \in Nat /\ q \in [1..Len(q) -> Clones]
  OBVIOUS
<1>3. q \in Bijection(1..Len(q), R)
  <2>1. \A i \in 1..Len(q) : q[i] \in R
    BY <1>1, <1>2 DEF Contains
  <2>2. \A c \in R : \E i \in 1..Len(q) : q[i] = c
    BY <1>1 DEF Contains
  <2>3. q \in [1..Len(q) -> R]
    BY <1>2, <2>1
  <2>4. QED
    BY <2>2, <2>3 DEF Bijection, Injection, Surjection
<1>4. IsFiniteSet(1..Len(q)) /\ Cardinality(1..Len(q)) = Len(q)
  BY <1>2, FS_Interval
<1>5. Cardinality(R) = Len(q)
  BY <1>3, <1>4, FS_Bijection DEF ExistsBijection
<1>6. IsFiniteSet(R) /\ IsFiniteSet(S) /\ IsFiniteSet(R \union S) /\ IsFiniteSet(Clones)
  <2>1. R \union S \in SUBSET Clones
    OBVIOUS
  <2>2. QED
    BY <2>1, ClonesFinite
<1>7. R \intersect S = {}
  BY <1>1
<1>8. Cardinality(R \union S) = Cardinality(R) + Cardinality(S)
  <2>1. Cardinality(R \union S) = Cardinality(R) + Cardinality(S) - Cardinality(R \intersect S)
    BY <1>6, FS_Union
  <2>2. Cardinality(R \intersect S) = 0
    BY <1>7, FS_EmptySet
  <2>3. QED
    BY <1>6, <2>1, <2>2, FS_CardinalityType
<1>9. Cardinality(R \union S) <= Cardinality(Clones)
  <2>1. R \union S \in SUBSET Clones
    OBVIOUS
  <2>2. QED
    BY <1>6, <2>1, FS_Subset
<1>10. Cardinality(Clones) \in Nat /\ Cardinality(S) \in Nat
  BY <1>6, FS_CardinalityType
<1>11. QED
  BY <1>5, <1>8, <1>9, <1>10, MaxDepthAssumption

LEMMA RoomInQueue ==
  ASSUME CustodyInv, MaxDepth >= Cardinality(Clones), NEW tier \in Tiers,
         NEW S \in SUBSET Clones, \A c \in S : ~Queued(c)
  PROVE  Len(queue[tier]) + Cardinality(S) <= MaxDepth
<1>1. queue[tier] \in Seq(Clones) /\ IsInjective(queue[tier])
  BY DEF CustodyInv, TypeOK, OnePlace, QueuesSound
<1>2. \A c \in S : ~Contains(queue[tier], c)
  BY DEF Queued
<1>3. QED
  BY <1>1, <1>2, RoomForAll

Somewhere(c) == Queued(c) \/ Held(c) \/ arriving[c] # NoReport \/ Reported(c)

(* Every clone of a task that is CLONED is somewhere.                      *)
NoneLost == \A c \in Clones : status[TaskOf(c)] = "CLONED" => Somewhere(c)

LEMMA NoneLostStep ==
  ASSUME StoreInv, StoreInv', NoneLost, MaxDepth >= Cardinality(Clones), [Next]_vars
  PROVE  NoneLost'
<1>0. TypeOK /\ CustodyInv /\ CustodyInv'
  BY DEF StoreInv, CustodyInv
<1> DEFINE Frame == /\ \A c \in Clones : Somewhere(c) => Somewhere(c)'
                    /\ \A t \in Tasks : status'[t] = "CLONED" => status[t] = "CLONED"
<1>fr. ASSUME Frame PROVE NoneLost'
  BY <1>fr, ClonesFacts DEF NoneLost
<1>st. ASSUME UNCHANGED <<results, queue, activeClones, arriving>>
       PROVE  \A c \in Clones : Somewhere(c) => Somewhere(c)'
  BY <1>st DEF Somewhere, Queued, Held, Reported
<1> HIDE DEF Frame
<1>1. ASSUME NEW t \in Tasks, Submit(t) PROVE NoneLost'
  <2>1. \A c \in ClonesOf(t) : Queued(c)'
    <3>1. status[t] = "NONE"
      BY <1>1 DEF Submit
    <3>2. \A c \in ClonesOf(t) : c \in Clones /\ ~Queued(c)
      BY <1>0, <3>1, ClonesFacts DEF CustodyInv, NoneBeforeSubmission
    <3>3. ClonesOf(t) \in SUBSET Clones /\ TaskTier[t] \in Tiers
      BY <3>2, TierAssumption
    <3>4. Len(queue[TaskTier[t]]) + ClonesPerTask <= MaxDepth
      BY <1>0, <3>2, <3>3, RoomInQueue, CopiesCounted
    <3>5. QED
      BY <1>0, <1>1, <3>4, SubmitQueues
  <2>2. \A c \in Clones : Somewhere(c) => Somewhere(c)'
    BY <1>0, <1>1, SubmitQueues
    DEF Submit, Somewhere, Held, Reported, connVars, cloneVars, runVars
  <2>3. \A c \in Clones : c \notin ClonesOf(t) => status'[TaskOf(c)] = status[TaskOf(c)]
    BY <1>0, <1>1, ClonesFacts DEF Submit, TypeOK
  <2>4. \A c \in ClonesOf(t) : Somewhere(c)'
    BY <2>1 DEF Somewhere
  <2>5. QED
    BY <2>2, <2>3, <2>4 DEF NoneLost
<1>2. ASSUME NEW t \in Tasks, TrackTaskSla(t) \/ Refuse(t) PROVE Frame
  BY <1>2, <1>st DEF TrackTaskSla, Refuse, taskVars, queueVars, connVars, cloneVars, runVars, Frame
<1>3. ASSUME NEW t \in Tasks, SlaTimer(t) PROVE NoneLost'
  <2>1. UNCHANGED <<results, activeClones, arriving>>
    BY <1>3 DEF SlaTimer, connVars, cloneVars, runVars
  <2>2. CASE /\ status' = [status EXCEPT ![t] = "SLA_BREACHED"]
             /\ queue' = [tier \in Tiers |-> RemoveByTaskId(queue[tier], t)]
    <3>1. ASSUME NEW c \in Clones, TaskOf(c) # t, Queued(c) PROVE Queued(c)'
      <4>1. PICK tier \in Tiers : Contains(queue[tier], c)
        BY <3>1 DEF Queued
      <4>2. c \notin ClonesOf(t)
        BY <3>1, ClonesFacts
      <4>3. Contains(queue'[tier], c)
        BY <1>0, <2>2, <4>1, <4>2, RemoveByTaskIdFacts DEF TypeOK
      <4>4. QED
        BY <4>3 DEF Queued
    <3>2. ASSUME NEW c \in Clones, status'[TaskOf(c)] = "CLONED"
          PROVE  TaskOf(c) # t /\ status[TaskOf(c)] = "CLONED"
      BY <1>0, <2>2, <3>2, ClonesFacts DEF TypeOK
    <3>3. QED
      BY <2>1, <3>1, <3>2 DEF NoneLost, Somewhere, Held, Reported
  <2>3. CASE UNCHANGED <<status, queue>>
    BY <1>fr, <1>st, <2>1, <2>3 DEF Frame
  <2>4. QED
    BY <1>3, <2>2, <2>3, Zenon DEF SlaTimer
<1>4. ASSUME NEW t \in Tasks, CloudAnswer(t) PROVE Frame
  <2>1. \A u \in Tasks : status'[u] = "CLONED" => status[u] = "CLONED"
    BY <1>0, <1>4 DEF CloudAnswer, TypeOK
  <2>2. QED
    BY <1>4, <1>st, <2>1 DEF CloudAnswer, queueVars, connVars, cloneVars, runVars, Frame
<1>5. ASSUME NEW t \in Tasks, Purge(t) PROVE Frame
  <2>1. \A u \in Tasks : status'[u] = "CLONED" => status[u] = "CLONED"
    BY <1>0, <1>5 DEF Purge, TypeOK
  <2>2. QED
    BY <1>5, <1>st, <2>1 DEF Purge, queueVars, connVars, cloneVars, runVars, Frame
<1>6. ASSUME NEW n \in Nodes, Register(n) \/ Reconnect(n) \/ CloseWhileRegistering(n)
      PROVE  Frame
  BY <1>6, <1>st DEF Register, Reconnect, CloseWhileRegistering, taskVars, queueVars,
                     cloneVars, runVars, Frame
<1>7. ASSUME NEW n \in Nodes, Disconnect(n) \/ CloseReplaced(n) PROVE NoneLost'
  <2>1. PICK L :
          /\ GivesUp(n, L, Requeueable(n, L))
          /\ Len(queue[NodeTier[n]]) + Cardinality(Requeueable(n, L)) <= MaxDepth
               => \A c \in Requeueable(n, L) : Queued(c)'
    BY <1>0, <1>7, DisconnectGivesUp, CloseReplacedGivesUp
  <2>2. L \subseteq activeClones[n]
    BY <2>1 DEF GivesUp
  <2>3. /\ Requeueable(n, L) \in SUBSET Clones
        /\ \A c \in Requeueable(n, L) : ~Queued(c)
    BY <1>0, <2>2 DEF Requeueable, TypeOK, CustodyInv, OnePlace, InOnePlace, Held
  <2>4. \A c \in Requeueable(n, L) : Queued(c)'
    BY <1>0, <2>1, <2>3, TierAssumption, RoomInQueue
  <2>5. ASSUME NEW c \in Clones, c \in L, status[TaskOf(c)] = "CLONED"
        PROVE  c \in Requeueable(n, L)
    <3>1. InStore(TaskOf(c)) /\ IsActive(TaskOf(c)) /\ Carries(n, c)
      BY <2>2, <2>5 DEF InStore, IsActive, Terminal, Carries
    <3>2. assignedNodes[c] = n
      BY <3>1 DEF StoreInv, CarriersAssigned, Known
    <3>3. QED
      BY <2>5, <3>1, <3>2, UndefinedAssumption DEF Requeueable
  <2>6. ASSUME NEW c \in Clones, status[TaskOf(c)] = "CLONED", Somewhere(c)
        PROVE  Somewhere(c)'
    <3>1. CASE c \in L
      BY <2>4, <2>5, <2>6, <3>1 DEF Somewhere
    <3>2. CASE c \notin L
      <4>1. \A m \in Nodes : c \in activeClones[m] => c \in activeClones'[m]
        BY <1>0, <2>1, <3>2 DEF GivesUp, TypeOK
      <4>2. QED
        BY <2>1, <2>6, <4>1 DEF GivesUp, Somewhere, Held, Reported
    <3>3. QED
      BY <3>1, <3>2
  <2>7. status' = status
    BY <2>1 DEF GivesUp
  <2>8. QED
    BY <2>6, <2>7 DEF NoneLost
<1>8. ASSUME NEW n \in Nodes, Steal(n) PROVE Frame
  <2>1. PICK c \in Clones : Takes(n, c)
    BY <1>0, <1>8, StealTakes
  <2>2. \A m \in Nodes : activeClones'[m] = IF m = n THEN activeClones[m] \union {c}
                                            ELSE activeClones[m]
    BY <1>0, <2>1 DEF Takes, TypeOK
  <2>3. QED
    BY <2>1, <2>2 DEF Takes, Frame, Somewhere, Held, Reported
<1>9. ASSUME NEW n \in Nodes, NEW c \in Clones, SendAssignment(n, c) \/ AckEviction(n, c)
      PROVE  Frame
  BY <1>9, <1>st
  DEF SendAssignment, AckEviction, taskVars, queueVars, cloneVars, runVars, Frame
<1>10. ASSUME NEW c \in Clones, NEW r \in Reports, InStore(TaskOf(c)), AddResult(c, r)
       PROVE  Reported(c)' /\ \A d \in Clones : Reported(d) => Reported(d)'
  BY <1>0, <1>10, ReportFacts DEF AddResult, Reported, TypeOK
<1>11. ASSUME NEW n \in Nodes, NEW c \in Clones, TaskResult(n, c) PROVE NoneLost'
  <2>1. /\ UNCHANGED <<status, queue>>
        /\ \A d \in Clones \ {c} : Held(d) => Held(d)'
    BY <1>0, <1>11 DEF TaskResult, DropClone, TypeOK, Held, queueVars
  <2>2. PICK r \in Reports :
           \/ arriving' = [arriving EXCEPT ![c] = r] /\ UNCHANGED results
           \/ AddResult(c, r) /\ UNCHANGED arriving
    BY <1>11, TaskResultReport
  <2>3. ASSUME NEW d \in Clones, status[TaskOf(d)] = "CLONED", Somewhere(d)
        PROVE  Somewhere(d)'
    <3>1. CASE arriving' = [arriving EXCEPT ![c] = r] /\ UNCHANGED results
      BY <1>0, <2>1, <2>3, <3>1, ReportFacts DEF Somewhere, Queued, Reported, TypeOK
    <3>2. CASE InStore(TaskOf(c)) /\ AddResult(c, r) /\ UNCHANGED arriving
      BY <1>10, <2>1, <2>3, <3>2 DEF Somewhere, Queued
    <3>3. CASE ~InStore(TaskOf(c)) /\ AddResult(c, r) /\ UNCHANGED arriving
      <4>1. d # c
        BY <2>3, <3>3 DEF InStore
      <4>2. QED
        BY <2>1, <2>3, <3>3, <4>1 DEF Somewhere, Queued, AddResult, Reported
    <3>4. QED
      BY <2>2, <3>1, <3>2, <3>3
  <2>4. QED
    BY <2>1, <2>3 DEF NoneLost
<1>12. ASSUME NEW n \in Nodes, NEW c \in Clones, TaskEviction(n, c) PROVE NoneLost'
  <2>1. PICK S : GivesUp(n, {c}, S)
    BY <1>0, <1>12, TaskEvictionGivesUp
  <2>2. \A d \in Clones \ {c} : Held(d) => Held(d)'
    BY <1>0, <2>1 DEF GivesUp, TypeOK, Held
  <2>3. ASSUME status[TaskOf(c)] = "CLONED" PROVE Queued(c)'
    <3>1. ~Queued(c)
      BY <1>0, <2>1 DEF GivesUp, CustodyInv, OnePlace, InOnePlace, Held
    <3>2. TaskTier[TaskOf(c)] \in Tiers
      BY TierAssumption, ClonesFacts
    <3>3. Len(queue[TaskTier[TaskOf(c)]]) + Cardinality({c}) <= MaxDepth
      BY <1>0, <3>1, <3>2, RoomInQueue
    <3>4. Cardinality({c}) = 1 /\ Len(queue[TaskTier[TaskOf(c)]]) \in Nat
      <4>1. queue[TaskTier[TaskOf(c)]] \in Seq(Clones)
        BY <1>0, <3>2 DEF TypeOK
      <4>2. Cardinality({c}) = 1
        BY FS_Singleton
      <4>3. QED
        BY <4>1, <4>2
    <3>5. Len(queue[TaskTier[TaskOf(c)]]) < MaxDepth
      BY <3>3, <3>4, MaxDepthAssumption
    <3>6. InStore(TaskOf(c))
      BY <2>3 DEF InStore
    <3>7. QED
      BY <1>0, <1>12, <3>5, <3>6, TaskEvictionGivesUp
  <2>4. QED
    BY <2>1, <2>2, <2>3 DEF GivesUp, NoneLost, Somewhere, Reported
<1>13. ASSUME NEW c \in Clones, OnCloneResult(c) PROVE NoneLost'
  <2>1. /\ UNCHANGED <<status, queue, activeClones>>
        /\ AddResult(c, arriving[c]) /\ arriving[c] \in Reports
        /\ \A d \in Clones \ {c} : arriving'[d] = arriving[d]
    BY <1>0, <1>13 DEF OnCloneResult, TypeOK, queueVars, connVars, cloneVars
  <2>2. ASSUME NEW d \in Clones, status[TaskOf(d)] = "CLONED", Somewhere(d)
        PROVE  Somewhere(d)'
    <3>1. CASE InStore(TaskOf(c))
      BY <1>10, <2>1, <2>2, <3>1 DEF Somewhere, Queued, Held
    <3>2. CASE ~InStore(TaskOf(c))
      <4>1. d # c
        BY <2>2, <3>2 DEF InStore
      <4>2. QED
        BY <2>1, <2>2, <3>2, <4>1 DEF Somewhere, Queued, Held, AddResult, Reported
    <3>3. QED
      BY <3>1, <3>2
  <2>3. QED
    BY <2>1, <2>2 DEF NoneLost
<1>14. ASSUME NEW c \in Clones, EngineStep(c) PROVE Frame
  <2>1. UNCHANGED <<results, queue, activeClones, arriving>>
    BY <1>14 DEF EngineStep, RunConsensus, Pay, Slash, CompleteTask, CloseConsensus,
                 taskVars, queueVars, connVars, cloneVars
  <2>2. status' = status \/ \E s \in {"FAILED", "COMPLETED"} :
                               status' = [status EXCEPT ![TaskOf(c)] = s]
    BY <1>14 DEF EngineStep, RunConsensus, Pay, Slash, CompleteTask, CloseConsensus, taskVars
  <2>3. \A t \in Tasks : status'[t] = "CLONED" => status[t] = "CLONED"
    BY <1>0, <2>2 DEF TypeOK
  <2>4. QED
    BY <1>st, <2>1, <2>3 DEF Frame
<1>15. ASSUME Restart PROVE NoneLost'
  <2>1. \A t \in Tasks : status'[t] # "CLONED"
    BY <1>15 DEF Restart, InStore
  <2>2. QED
    BY <2>1, ClonesFacts DEF NoneLost
<1>16. ASSUME UNCHANGED vars PROVE Frame
  BY <1>16, <1>st DEF vars, taskVars, queueVars, connVars, cloneVars, runVars, Frame
<1>17. QED
  BY <1>fr, <1>1, <1>2, <1>3, <1>4, <1>5, <1>6, <1>7, <1>8, <1>9, <1>11, <1>12, <1>13,
     <1>14, <1>15, <1>16 DEF Next, EngineStep, CrashAndRestart, RunConsensusThrows

(* With queues as deep as there are clones, a clone of a task that waits   *)
(* for its SLA is queued, held or answered: a disconnection or an eviction *)
(* always finds the clone assigned, and the room to queue it again.        *)
THEOREM NoneIsLost == Spec => []NoCloneLost
<1>1. Init => NoCloneLost
  BY ClonesFacts DEF Init, NoCloneLost
<1>2. StoreInv /\ StoreInv' /\ NoCloneLost /\ [Next]_vars => NoCloneLost'
  <2>1. NoCloneLost <=> (MaxDepth >= Cardinality(Clones) => NoneLost)
    BY DEF NoCloneLost, NoneLost, Somewhere
  <2>2. NoCloneLost' <=> (MaxDepth >= Cardinality(Clones) => NoneLost')
    BY DEF NoCloneLost, NoneLost, Somewhere
  <2>3. QED
    BY <2>1, <2>2, NoneLostStep
<1>3. QED
  BY <1>1, <1>2, StoreIsInvariant, PTL DEF Spec
=============================================================================
