------------------------ MODULE OrchestratorLifecycle ------------------------
(***************************************************************************)
(* Orchestrator implements TaskLifecycle.  A task counts as decided from   *)
(* the moment its verdict is due: all its results are in and no run of the *)
(* engine is still to write one.                                           *)
(***************************************************************************)
EXTENDS Orchestrator

Undecided(t) ==
  \E c \in ClonesOf(t) : consensus[c] \in {"recording", "paying"}

CloudOf(t) ==
  IF sla[t] = "cloud" THEN "asked"
  ELSE IF sla[t] \in {"answered", "refused"} THEN sla[t]
  ELSE IF sla[t] \in {"armed", "done"} THEN "timed"
  ELSE "untimed"

Lifecycle == INSTANCE TaskLifecycle WITH
  Copies   <- ClonesPerTask,
  reported <- [t \in Tasks |-> Cardinality({c \in ClonesOf(t) : Reported(c)})],
  cloud    <- [t \in Tasks |-> CloudOf(t)],
  decided  <- {t \in Tasks : AllReported(t) /\ ~Undecided(t)}

(* Clones, queues, connections, the consensus engine and the SLA monitor   *)
(* together treat a task the way the rest of the system relies on: one     *)
(* verdict, on a full set of results and never taken back by the swarm;    *)
(* one breach, of a task that was timed and not over; one cloud answer,    *)
(* only after a breach; and nothing that a purge leaves suspended gives    *)
(* the task a status again.                                                *)
ImplementsLifecycle == Lifecycle!Spec
=============================================================================
