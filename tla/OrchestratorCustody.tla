------------------------- MODULE OrchestratorCustody -------------------------
(***************************************************************************)
(* Orchestrator implements CloneCustody: the place of a clone, read off    *)
(* the queues, the connections, the suspended results and the task store.  *)
(***************************************************************************)
EXTENDS Orchestrator

PlaceOf(c) ==
  IF Queued(c) THEN [at |-> "queued", by |-> NoNode]
  ELSE IF Held(c)
    THEN [at |-> "held", by |-> CHOOSE n \in Nodes : c \in activeClones[n]]
  ELSE IF arriving[c] # NoReport THEN [at |-> "answered", by |-> arriving[c].node]
  ELSE IF Reported(c) THEN [at |-> "answered", by |-> results[c].node]
  ELSE IF status[TaskOf(c)] = "NONE" THEN [at |-> "fresh", by |-> NoNode]
  ELSE [at |-> "gone", by |-> NoNode]

Custody == INSTANCE CloneCustody WITH place <- [c \in Clones |-> PlaceOf(c)]

(* Every step of the orchestrator is a step of the custody of its clones,  *)
(* or leaves it alone.                                                     *)
ImplementsCustody == Custody!Spec
=============================================================================
