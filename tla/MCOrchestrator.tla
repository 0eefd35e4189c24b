--------------------------- MODULE MCOrchestrator ---------------------------
(***************************************************************************)
(* Instances of Orchestrator for TLC.  One tier, except where a run says   *)
(* otherwise: queues of different tiers share nothing.                     *)
(***************************************************************************)
EXTENDS OrchestratorCustody, OrchestratorLifecycle, OrchestratorClaims

CONSTANTS t1, t2, n1, n2, n3, a, b, T1, ip1

OneTier == [t \in Tasks |-> T1]
NodesOneTier == [n \in Nodes |-> T1]

(* Every node on an address of its own *)
OwnIps == [n \in Nodes |-> n]

(* n1 and n2 behind one address *)
SharedIp == [n \in Nodes |-> IF n \in {n1, n2} THEN ip1 ELSE n]
SharedIps == {ip1} \union (Nodes \ {n1, n2})

(* Outputs that only agree with themselves *)
Equality == {<<v, v>> : v \in Values}

(* Permuting nodes, tasks or outputs is sound where they differ in nothing *)
(* but their names.  n1 and n2 share their address and both may have a     *)
(* second connection; outputs that agree only when equal are alike.        *)
NodeSymmetry == Permutations(Nodes \ EvictingNodes)
TaskAndNodeSymmetry == NodeSymmetry \union Permutations(Tasks)
OneTaskSymmetry == Permutations({n1, n2}) \union Permutations(Values)
=============================================================================
