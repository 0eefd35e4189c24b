-------------------------- MODULE OrchestratorClaims --------------------------
(***************************************************************************)
(* What a comment of the repository says of the orchestrator and the code  *)
(* does not do; the run finds a behaviour that breaks it.                  *)
(***************************************************************************)
EXTENDS Orchestrator

(* fallback.ts:7: a task that breaches its SLA is forwarded to the cloud,  *)
(* which guarantees a response.  A node that leaves while a handler is     *)
(* suspended takes the process and every task in its memory with it.       *)
EveryTaskIsAnswered ==
  \A t \in Tasks : status[t] = "SLA_BREACHED" ~> status[t] \in Terminal
=============================================================================
