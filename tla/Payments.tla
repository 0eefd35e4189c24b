------------------------------- MODULE Payments -------------------------------
(***************************************************************************)
(* applyConsensusEconomics against the rows of the database: what the      *)
(* consensus engine says of itself, and what comes of it.                  *)
(***************************************************************************)
EXTENDS Rows

CONSTANTS
  ConsensusMajority,   \* config.consensusMajority
  NoRun

VARIABLES
  run,          \* task -> whom its consensus run has still to pay and slash,
                \* and whether the rows of its clones were there when it began
  payoutRow,    \* rows of payouts: task and node
  slashRow      \* slashes executed on rows of nodes: task and node

paymentVars == <<run, payoutRow, slashRow>>

(* createAndEnqueueClones makes ids in memory (clone.ts:45); createClones  *)
(* sends none, and the database makes its own (schema.ts:220).             *)
CloneIds(t)    == {<<"memory", t, i>> : i \in 1 .. Copies}
CloneRowIds(t) == {<<"row", t, i>> : i \in 1 .. Copies}

PaymentsInit ==
  /\ RowsInit
  /\ run = [t \in Tasks |-> NoRun]
  /\ payoutRow = {} /\ slashRow = {}

(* All results are in, of Copies different nodes: runConsensus accepts a   *)
(* majority of them, or none.                                              *)
RunConsensus(t) ==
  /\ InStore(t) /\ reported[t] = Copies /\ t \notin decided /\ run[t] = NoRun
  /\ \E all \in {S \in SUBSET Nodes : Cardinality(S) = Copies} :
       \E M \in {{}} \union {S \in SUBSET all : Cardinality(S) >= ConsensusMajority} :
         run' = [run EXCEPT ![t] =
           [accepted |-> M # {}, stored |-> t \in cloneRow,
            pay |-> M, slash |-> IF M = {} THEN {} ELSE all \ M]]
  /\ UNCHANGED <<vars, payoutRow, slashRow>>

(* recordPayout names a clone by its id in memory, and payouts.clone_id    *)
(* references task_clones.id.  An error is caught, and the next node       *)
(* follows.                                                                *)
Pay(t, n) ==
  LET rowIds == UNION {CloneRowIds(u) : u \in cloneRow}
      paid   == IF CloneIds(t) \intersect rowIds # {} THEN {<<t, n>>} ELSE {}
  IN  /\ run[t] # NoRun /\ n \in run[t].pay
      /\ run' = [run EXCEPT ![t].pay = @ \ {n}]
      /\ payoutRow' \in {payoutRow \union paid}
                        \union (IF DatabaseFails THEN {payoutRow} ELSE {})
      /\ UNCHANGED <<vars, slashRow>>

(* slashReputation names the node by its id. *)
Slash(t, n) ==
  /\ run[t] # NoRun /\ run[t].pay = {} /\ n \in run[t].slash
  /\ run' = [run EXCEPT ![t].slash = @ \ {n}]
  /\ slashRow' \in {slashRow \union {<<t, n>>}}
                   \union (IF DatabaseFails THEN {slashRow} ELSE {})
  /\ UNCHANGED <<vars, payoutRow>>

(* The verdict follows when everybody is paid and slashed, and a run ends  *)
(* with its verdict or with the process.                                   *)
RestOfSystem ==
  /\ RowsNext
  /\ \A t \in decided' \ decided :
       /\ run[t] # NoRun /\ run[t].pay = {} /\ run[t].slash = {}
       /\ IF InStore(t)
          THEN status'[t] = IF run[t].accepted THEN "COMPLETED" ELSE "FAILED"
          ELSE run[t].accepted
  /\ run' = [t \in Tasks |-> IF t \in decided' \/ reported'[t] < Copies THEN NoRun
                             ELSE run[t]]
  /\ UNCHANGED <<payoutRow, slashRow>>

PaymentsNext ==
  \/ \E t \in Tasks : RunConsensus(t) \/ \E n \in Nodes : Pay(t, n) \/ Slash(t, n)
  \/ RestOfSystem

PaymentsSpec == PaymentsInit /\ [][PaymentsNext]_<<vars, paymentVars>>

(* engine.ts:9-13: the engine pays the two correct nodes, and slashes the  *)
(* dissenting node.  Even when every clone had its row and no statement    *)
(* fails, a run that accepted a majority ends without one payout row,      *)
(* whereas its slashes are executed.                                       *)
CorrectNodesPaid ==
  \A t \in Tasks :
    run[t] # NoRun /\ run[t].accepted /\ run[t].stored /\ run[t].pay = {} =>
      Cardinality({n \in Nodes : <<t, n>> \in payoutRow}) >= ConsensusMajority
=============================================================================
