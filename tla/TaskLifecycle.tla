---------------------------- MODULE TaskLifecycle ----------------------------
(***************************************************************************)
(* What the rest of the system sees of a task in the orchestrator's        *)
(* memory: accepted, timed, answered clone by clone, decided at most once, *)
(* breached at most once, answered by the cloud after a breach, purged     *)
(* once it is over, whatever is still under way about it.                  *)
(* How the swarm gets there is module Orchestrator's, which implements     *)
(* this one (module OrchestratorLifecycle); the database rows, the stream  *)
(* to the client and the RAG jobs are built on this module.                *)
(***************************************************************************)
EXTENDS Naturals

CONSTANTS
  Tasks,
  Copies       \* config.clonesPerTask

ASSUME CopiesAssumption == Copies \in Nat \ {0}

VARIABLES
  status,      \* task -> TaskState.status, NONE before, GONE after the store
  reported,    \* task -> TaskState.results.size
  cloud,       \* task -> the SLA timer and the request it makes
  decided      \* the tasks whose verdict was written

lifecycleVars == <<status, reported, cloud, decided>>

Statuses == {"NONE", "CLONED", "SLA_BREACHED", "CLOUD_FALLBACK",
             "COMPLETED", "FAILED", "PURGED", "LOST"}

Verdicts == {"COMPLETED", "FAILED"}

Terminal == Verdicts \union {"CLOUD_FALLBACK"}

(* taskStore.getTask(t) finds a task *)
InStore(t) == status[t] \notin {"NONE", "PURGED", "LOST"}

(* taskStore.getActiveTasks() *)
IsActive(t) == InStore(t) /\ status[t] \notin Terminal

LifecycleTypeOK ==
  /\ status \in [Tasks -> Statuses]
  /\ reported \in [Tasks -> 0 .. Copies]
  /\ cloud \in [Tasks -> {"untimed", "timed", "refused", "asked", "answered"}]
  /\ decided \subseteq Tasks

Init ==
  /\ status = [t \in Tasks |-> "NONE"]
  /\ reported = [t \in Tasks |-> 0]
  /\ cloud = [t \in Tasks |-> "untimed"]
  /\ decided = {}

(* createTask and createAndEnqueueClones *)
Accept(t) ==
  /\ status[t] = "NONE"
  /\ status' = [status EXCEPT ![t] = "CLONED"]
  /\ UNCHANGED <<reported, cloud, decided>>

(* The submission of t is under way: there is no timer yet. *)
Untimed(t) == status[t] \notin {"NONE", "LOST"} /\ cloud[t] = "untimed"

(* trackTaskSla *)
Track(t) ==
  /\ Untimed(t)
  /\ cloud' = [cloud EXCEPT ![t] = "timed"]
  /\ UNCHANGED <<status, reported, decided>>

(* The submission is answered 500 after the task was made: no timer. *)
Refuse(t) ==
  /\ Untimed(t)
  /\ cloud' = [cloud EXCEPT ![t] = "refused"]
  /\ UNCHANGED <<status, reported, decided>>

(* Mutant: a result that is there already counts again. *)
ReportAgain(t) ==
  /\ InStore(t)
  /\ reported' = [reported EXCEPT ![t] = @ + 1]
  /\ UNCHANGED <<status, cloud, decided>>

(* addResult *)
Report(t) ==
  /\ InStore(t) /\ reported[t] < Copies
  /\ reported' = [reported EXCEPT ![t] = @ + 1]
  /\ UNCHANGED <<status, cloud, decided>>

(* Mutant: every result that is late runs the consensus again. *)
DecideAgain(t) ==
  /\ reported[t] = Copies
  /\ IF InStore(t)
     THEN \E verdict \in Verdicts : status' = [status EXCEPT ![t] = verdict]
     ELSE UNCHANGED status
  /\ decided' = decided \union {t}
  /\ UNCHANGED <<reported, cloud>>

(* completeTask or updateStatus(FAILED), whatever the status has become; a *)
(* task that was purged during its run has none.                           *)
Decide(t) ==
  /\ reported[t] = Copies /\ t \notin decided
  /\ IF InStore(t)
     THEN \E verdict \in Verdicts : status' = [status EXCEPT ![t] = verdict]
     ELSE UNCHANGED status
  /\ decided' = decided \union {t}
  /\ UNCHANGED <<reported, cloud>>

(* The SLA timer finds a task that is not over. *)
Breach(t) ==
  /\ status[t] = "CLONED" /\ cloud[t] = "timed"
  /\ status' = [status EXCEPT ![t] = "SLA_BREACHED"]
  /\ cloud' = [cloud EXCEPT ![t] = "asked"]
  /\ UNCHANGED <<reported, decided>>

(* markCloudFallback, whatever the status has become *)
CloudAnswer(t) ==
  /\ cloud[t] = "asked"
  /\ status' = IF InStore(t) THEN [status EXCEPT ![t] = "CLOUD_FALLBACK"] ELSE status
  /\ cloud' = [cloud EXCEPT ![t] = "answered"]
  /\ UNCHANGED <<reported, decided>>

(* purgeOld; what is suspended about t goes on without it. *)
Purge(t) ==
  /\ InStore(t) /\ ~IsActive(t)
  /\ status' = [status EXCEPT ![t] = "PURGED"]
  /\ UNCHANGED <<reported, cloud, decided>>

(* The process ends, and its memory with it. *)
Die ==
  /\ status' = [t \in Tasks |-> IF InStore(t) THEN "LOST" ELSE status[t]]
  /\ reported' = [t \in Tasks |-> 0]
  /\ cloud' = [t \in Tasks |-> "untimed"]
  /\ decided' = {}

(* What happens to a task without the submission's handler. *)
Proceed(t) == Report(t) \/ Decide(t) \/ Breach(t) \/ CloudAnswer(t) \/ Purge(t)

Next == Die \/ \E t \in Tasks : Accept(t) \/ Track(t) \/ Refuse(t) \/ Proceed(t)

Spec == Init /\ [][Next]_lifecycleVars

(* The timer fires and the request to the cloud ends, see TimerFairness *)
(* of module Orchestrator; nothing is said of the swarm.                   *)
TimerFairness ==
  \A t \in Tasks : WF_lifecycleVars(Breach(t)) /\ WF_lifecycleVars(CloudAnswer(t))
=============================================================================
