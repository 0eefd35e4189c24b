----------------------------- MODULE Orchestrator -----------------------------
(***************************************************************************)
(* The life of a task inside the orchestrator process: REST submission,    *)
(* cloning, work stealing, result collection, 2-of-3 consensus, eviction,  *)
(* the SLA timer with its cloud fallback, the purge of old tasks, and the  *)
(* loss of all of it when the process dies.                                *)
(*                                                                         *)
(* The orchestrator is one Node.js event loop.  A handler runs without     *)
(* interruption up to its first `await' and its continuation runs as a     *)
(* step of its own, any time later, against whatever the state has become. *)
(* Each such stretch is one action here, and what a suspended handler will *)
(* do is kept in variables:                                                *)
(*                                                                         *)
(*   sla[t]        where the submission and then the SLA timer of t stand  *)
(*   activeClones  a clone held but not yet in executing[n] is a steal     *)
(*                 whose TASK_ASSIGNMENT is sent after three DB writes     *)
(*   acking[n]     evictions of n whose EVICTION_ACK is still to be sent   *)
(*   sendOnClosed  one of these finds its socket closed when it resumes    *)
(*   arriving[c]   a result that waits for the write of the node's status  *)
(*   consensus[c]  how far the handler of c's result is in the engine, and *)
(*                 in toPay[c] and toSlash[c] what it has still to pay and *)
(*                 to slash                                                *)
(*                                                                         *)
(* A node whose network fails may open and register a connection before    *)
(* the server has seen the end of the one before (or the server may end    *)
(* the registration of a dead connection after that of the live one).  The *)
(* connections of a node that its daemon no longer uses are replaced; they *)
(* keep their clones until they close, and closing takes the node out of   *)
(* the registries by its name, whichever connection it is live on.         *)
(*                                                                         *)
(* An await that only delays logging is not a step.  The rows written to   *)
(* the database are not part of this module.                               *)
(***************************************************************************)
EXTENDS TierQueue

CONSTANTS
  Tiers, TaskTier, NodeTier,  \* hardware tiers; the tier of a task, of a node
  IPs, NodeIp,                \* the remote address of each node
  EvictingNodes,              \* nodes whose daemon sends TASK_EVICTION
  Reconnecting,               \* nodes that may have a second connection
  Values, Agree,              \* outputs, and the pairs the engine matches
  ConsensusMajority,          \* config.consensusMajority
  NoNode, NoReport            \* undefined

ASSUME TierAssumption ==
  /\ TaskTier \in [Tasks -> Tiers]
  /\ NodeTier \in [Nodes -> Tiers]
  /\ NodeIp \in [Nodes -> IPs]
  /\ EvictingNodes \subseteq Nodes
  /\ Reconnecting \subseteq Nodes

(* Equal outputs have equal hashes, so every output agrees with itself.    *)
(* Numeric outputs agree when they are closer than 0.00001, a relation     *)
(* that is symmetric but not transitive.                                   *)
ASSUME AgreeAssumption ==
  /\ Agree \subseteq Values \X Values
  /\ \A v \in Values : <<v, v>> \in Agree
  /\ \A v, w \in Values : <<v, w>> \in Agree => <<w, v>> \in Agree

Reports == [node : Nodes, value : Values]

ASSUME UndefinedAssumption ==
  /\ NoNode \notin Nodes
  /\ NoReport \notin Reports

VARIABLES
  status,             \* task -> TaskState.status, NONE before, GONE after the store
  usedCloudFallback,  \* task -> TaskState.usedCloudFallback
  assignedNodes,      \* clone -> TaskState.assignedNodes, NoNode when unset
  results,            \* clone -> TaskState.results, NoReport when unset
  sla,                \* task -> the submission and SLA timer, see above
  queue,              \* tier -> the clones waiting, head first
  familyNodeMap,      \* family -> the nodes that took one of its clones
  connected,          \* the nodes whose daemon uses a registered connection
  nodeIpMap,          \* the nodes whose address the server knows
  replaced,           \* the nodes that have a replaced connection, not closed
  activeClones,       \* node -> WsUserData.activeClones of its connections
  stale,              \* node -> those of them on replaced connections
  executing,          \* node -> the clones its daemon was assigned
  acking,             \* node -> evicted clones still to be acknowledged
  sendOnClosed,       \* a suspended handler will send on a closed socket
  arriving,           \* clone -> a result not yet given to the engine
  consensus,          \* clone -> the engine run its result started
  toPay, toSlash,     \* clone -> the entries that run has still to settle
  payouts, slashes    \* task -> node -> payouts and slashes attempted

taskVars  == <<status, usedCloudFallback, assignedNodes, results>>
queueVars == <<queue, familyNodeMap>>
registryVars == <<connected, nodeIpMap, replaced>>
cloneVars == <<activeClones, stale, executing>>
connVars  == <<registryVars, cloneVars, acking, sendOnClosed>>
payVars   == <<toPay, toSlash>>
runVars   == <<arriving, consensus, payVars>>
moneyVars == <<payouts, slashes>>
vars == <<taskVars, sla, queueVars, connVars, runVars, moneyVars>>

(* NONE: not submitted yet.  PURGED and LOST: no longer in the store.      *)
(* QUEUED lasts only inside the submission handler; no code sets           *)
(* IN_PROGRESS or CONSENSUS_PENDING.                                       *)
Statuses == {"NONE", "CLONED", "SLA_BREACHED", "CLOUD_FALLBACK",
             "COMPLETED", "FAILED", "PURGED", "LOST"}

Terminal == {"COMPLETED", "FAILED", "CLOUD_FALLBACK"}

(* Mutant: the answer of the cloud takes the task out of the store. *)
InStoreUntilCloud(t) == status[t] \notin {"NONE", "PURGED", "LOST", "CLOUD_FALLBACK"}

(* taskStore.getTask(t) finds a task *)
InStore(t) == status[t] \notin {"NONE", "PURGED", "LOST"}

(* taskStore.getActiveTasks(): "non-terminal", SLA_BREACHED included *)
IsActive(t) == InStore(t) /\ status[t] \notin Terminal

Reported(c) == results[c] # NoReport

AllReported(t) == \A c \in ClonesOf(t) : Reported(c)

(* The clones on the connection the daemon of n uses *)
Current(n) == activeClones[n] \ stale[n]

(* Assigned there, and the TASK_ASSIGNMENT not yet sent *)
Sending(n) == Current(n) \ executing[n]

(* Mutant: the addresses of the other connections are not looked at. *)
SameIpIgnored(n) == {}

(* The other nodes known at the address of n; none when the address of n   *)
(* itself is no longer known.                                              *)
SameIp(n) == {m \in nodeIpMap \ {n} : n \in nodeIpMap /\ NodeIp[m] = NodeIp[n]}

TypeOK ==
  /\ status \in [Tasks -> Statuses]
  /\ usedCloudFallback \in [Tasks -> BOOLEAN]
  /\ assignedNodes \in [Clones -> Nodes \union {NoNode}]
  /\ results \in [Clones -> Reports \union {NoReport}]
  /\ sla \in [Tasks -> {"off", "persisting", "armed", "cloud", "answered",
                      "done", "refused"}]
  /\ queue \in [Tiers -> Seq(Clones)]
  /\ IsFamilyMap(familyNodeMap)
  /\ connected \subseteq Nodes
  /\ nodeIpMap \subseteq connected
  /\ replaced \subseteq Nodes
  /\ activeClones \in [Nodes -> SUBSET Clones]
  /\ stale \in [Nodes -> SUBSET Clones]
  /\ executing \in [Nodes -> SUBSET Clones]
  /\ acking \in [Nodes -> SUBSET Clones]
  /\ sendOnClosed \in BOOLEAN
  /\ arriving \in [Clones -> Reports \union {NoReport}]
  /\ consensus \in [Clones -> {"idle", "recording", "paying", "closing"}]
  /\ toPay \in [Clones -> SUBSET (Clones \X Nodes)]
  /\ toSlash \in [Clones -> SUBSET (Clones \X Nodes)]
  /\ payouts \in [Tasks -> [Nodes -> Nat]]
  /\ slashes \in [Tasks -> [Nodes -> Nat]]

Init ==
  /\ status = [t \in Tasks |-> "NONE"]
  /\ usedCloudFallback = [t \in Tasks |-> FALSE]
  /\ assignedNodes = [c \in Clones |-> NoNode]
  /\ results = [c \in Clones |-> NoReport]
  /\ sla = [t \in Tasks |-> "off"]
  /\ queue = [tier \in Tiers |-> << >>]
  /\ familyNodeMap = << >>
  /\ connected = {}
  /\ nodeIpMap = {}
  /\ replaced = {}
  /\ activeClones = [n \in Nodes |-> {}]
  /\ stale = [n \in Nodes |-> {}]
  /\ executing = [n \in Nodes |-> {}]
  /\ acking = [n \in Nodes |-> {}]
  /\ sendOnClosed = FALSE
  /\ arriving = [c \in Clones |-> NoReport]
  /\ consensus = [c \in Clones |-> "idle"]
  /\ toPay = [c \in Clones |-> {}]
  /\ toSlash = [c \in Clones |-> {}]
  /\ payouts = [t \in Tasks |-> [n \in Nodes |-> 0]]
  /\ slashes = [t \in Tasks |-> [n \in Nodes |-> 0]]

-----------------------------------------------------------------------------
(* REST: POST /api/task *)

(* createTask and createAndEnqueueClones run before the first await.  A    *)
(* clone refused by a full queue is given up; the task is CLONED anyway.   *)
Submit(t) ==
  LET tier == TaskTier[t]
  IN  /\ status[t] = "NONE"
      /\ status' = [status EXCEPT ![t] = "CLONED"]
      /\ queue' = [queue EXCEPT ![tier] = EnqueueClones(@, t)]
      /\ familyNodeMap' = IF IsFull(queue[tier]) THEN familyNodeMap
                          ELSE InitFamily(familyNodeMap, t)
      /\ sla' = [sla EXCEPT ![t] = "persisting"]
      /\ UNCHANGED <<usedCloudFallback, assignedNodes, results, connVars,
                     runVars, moneyVars>>

(* Mutant: a task whose rows could not be written has no SLA timer. *)
TrackIfPersisted(t) ==
  /\ sla[t] = "persisting"
  /\ \E next \in {"armed", "off"} : sla' = [sla EXCEPT ![t] = next]
  /\ UNCHANGED <<taskVars, queueVars, connVars, runVars, moneyVars>>

(* The task and clone rows are written, or failed to be: the response is   *)
(* sent and only then does the SLA timer start.                            *)
TrackTaskSla(t) ==
  /\ sla[t] = "persisting"
  /\ sla' = [sla EXCEPT ![t] = "armed"]
  /\ UNCHANGED <<taskVars, queueVars, connVars, runVars, moneyVars>>

(* A timeoutMs that is no number of milliseconds makes an invalid deadline *)
(* that the response cannot express: it is 500 instead, and the task, with *)
(* its clones in the queue, has no SLA timer.                              *)
Refuse(t) ==
  /\ sla[t] = "persisting"
  /\ sla' = [sla EXCEPT ![t] = "refused"]
  /\ UNCHANGED <<taskVars, queueVars, connVars, runVars, moneyVars>>

-----------------------------------------------------------------------------
(* Connections *)

(* Mutant: the registry is written before the connection knows its node. *)
RegisterUnset(n) ==
  /\ n \notin connected
  /\ connected' = connected \union {NoNode}
  /\ nodeIpMap' = nodeIpMap \union {n}
  /\ UNCHANGED <<taskVars, sla, queueVars, replaced, cloneVars, acking,
                 sendOnClosed, runVars, moneyVars>>

(* NODE_REGISTER accepted: the node's row is written, and the connection   *)
(* enters the registries.  REGISTER_ACK follows; a daemon that reconnects  *)
(* does not wait for it to steal.                                          *)
Register(n) ==
  /\ n \notin connected
  /\ connected' = connected \union {n}
  /\ nodeIpMap' = nodeIpMap \union {n}
  /\ UNCHANGED <<taskVars, sla, queueVars, replaced, cloneVars, acking,
                 sendOnClosed, runVars, moneyVars>>

(* A second connection of n is registered.  The daemon uses either the new *)
(* one, and the clones of the other are stale, or the one it had, when the *)
(* registration of a dead connection ends late.                            *)
Reconnect(n) ==
  /\ n \in connected \intersect Reconnecting
  /\ nodeIpMap' = nodeIpMap \union {n}
  /\ replaced' = replaced \union {n}
  /\ stale' \in {stale, [stale EXCEPT ![n] = activeClones[n]]}
  /\ UNCHANGED <<taskVars, sla, queueVars, connected, activeClones, executing,
                 acking, sendOnClosed, runVars, moneyVars>>

(* A socket closes while its registration waits for the database: before   *)
(* the node's row is written nothing is known of it yet, and after it this *)
(* follows one of the closes below.  The registration then uses a closed   *)
(* socket.                                                                 *)
CloseWhileRegistering(n) ==
  /\ n \in connected => n \in Reconnecting
  /\ sendOnClosed' = TRUE
  /\ UNCHANGED <<taskVars, sla, queueVars, registryVars, cloneVars, acking,
                 runVars, moneyVars>>

(* Mutant: the assignments of all clones of the evicted clone's task go. *)
UnassignFamily(S, n) ==
  LET T == {TaskOf(c) : c \in S}
  IN  /\ assignedNodes' = [c \in Clones |-> IF TaskOf(c) \in T THEN NoNode
                                            ELSE assignedNodes[c]]
      /\ results' = [c \in Clones |-> IF c \in S THEN NoReport ELSE results[c]]
      /\ familyNodeMap' = ReleaseAntiAffinity(familyNodeMap, T, n)

(* What requeueEvictedClone leaves of the store and the family map when    *)
(* node n gives up the clones S; the queue is set by the caller.           *)
Unassign(S, n) ==
  /\ assignedNodes' = [c \in Clones |-> IF c \in S THEN NoNode ELSE assignedNodes[c]]
  /\ results' = [c \in Clones |-> IF c \in S THEN NoReport ELSE results[c]]
  /\ familyNodeMap' = ReleaseAntiAffinity(familyNodeMap, {TaskOf(c) : c \in S}, n)

(* Mutant: the store's assignments are re-queued, answered clones included. *)
RequeueableByStore(n, S) ==
  {c \in Clones : IsActive(TaskOf(c)) /\ assignedNodes[c] = n}

(* Mutant: only the clones that were sent are re-queued. *)
RequeueableIfSent(n, S) ==
  {c \in S \intersect executing[n] :
     IsActive(TaskOf(c)) /\ assignedNodes[c] # NoNode}

(* The clones of S whose task handleCloneEvictionOnDisconnect finds *)
Requeueable(n, S) ==
  {c \in S : IsActive(TaskOf(c)) /\ assignedNodes[c] # NoNode}

(* handleClose, of a connection of n whose active clones are S *)
CloseConnection(n, S) ==
  LET R == Requeueable(n, S)
  IN  /\ nodeIpMap' = nodeIpMap \ {n}
      /\ Unassign(R, n)
      /\ \E q \in PriorityQueues(queue[NodeTier[n]], R) :
           queue' = [queue EXCEPT ![NodeTier[n]] = q]
      /\ activeClones' = [activeClones EXCEPT ![n] = @ \ S]
      /\ executing' = [executing EXCEPT ![n] = @ \ S]

(* The socket closes: network failure, heartbeat timeout or daemon exit.   *)
(* The daemon drops what it was executing for this session.  A steal or an *)
(* eviction suspended at this point will later send on the closed socket.  *)
Disconnect(n) ==
  /\ n \in connected
  /\ CloseConnection(n, Current(n))
  /\ connected' = connected \ {n}
  /\ sendOnClosed' = (sendOnClosed \/ Sending(n) # {} \/ acking[n] # {})
  /\ acking' = [acking EXCEPT ![n] = {}]
  /\ UNCHANGED <<status, usedCloudFallback, sla, replaced, stale, runVars,
                 moneyVars>>

(* One of the replaced connections of n closes, late: the address of n is  *)
(* forgotten, whether n is live on another connection or not.  What was to *)
(* be sent on it reached nobody, or is still to be sent.                   *)
CloseReplaced(n) ==
  /\ n \in replaced
  /\ \E S \in SUBSET stale[n] :
       /\ CloseConnection(n, S)
       /\ stale' = [stale EXCEPT ![n] = @ \ S]
       /\ \/ UNCHANGED replaced
          \/ S = stale[n] /\ replaced' = replaced \ {n}
       /\ \/ UNCHANGED sendOnClosed
          \/ ~(S \subseteq executing[n]) /\ sendOnClosed' = TRUE
          \/ acking[n] # {} /\ sendOnClosed' = TRUE
  /\ UNCHANGED <<status, usedCloudFallback, sla, connected, acking, runVars,
                 moneyVars>>

(* The process ends and starts again with an empty memory, and every       *)
(* daemon has lost its session.                                            *)
Restart ==
  /\ status' = [t \in Tasks |-> IF InStore(t) THEN "LOST" ELSE status[t]]
  /\ usedCloudFallback' = [t \in Tasks |-> FALSE]
  /\ assignedNodes' = [c \in Clones |-> NoNode]
  /\ results' = [c \in Clones |-> NoReport]
  /\ sla' = [t \in Tasks |-> "off"]
  /\ queue' = [tier \in Tiers |-> << >>]
  /\ familyNodeMap' = << >>
  /\ connected' = {}
  /\ nodeIpMap' = {}
  /\ replaced' = {}
  /\ activeClones' = [n \in Nodes |-> {}]
  /\ stale' = [n \in Nodes |-> {}]
  /\ executing' = [n \in Nodes |-> {}]
  /\ acking' = [n \in Nodes |-> {}]
  /\ sendOnClosed' = FALSE
  /\ arriving' = [c \in Clones |-> NoReport]
  /\ consensus' = [c \in Clones |-> "idle"]
  /\ toPay' = [c \in Clones |-> {}]
  /\ toSlash' = [c \in Clones |-> {}]
  /\ UNCHANGED moneyVars

(* Using a closed socket throws inside an async handler that nobody        *)
(* awaits: the unhandled rejection ends the process.                       *)
CrashAndRestart == sendOnClosed /\ Restart

-----------------------------------------------------------------------------
(* TASK_STEAL *)

(* The stretch of handleTaskSteal before its first await.  A clone whose   *)
(* task has left the store is stolen all the same: assignClone ignores it. *)
(* A TASK_STEAL can also be the last message of a replaced connection.     *)
Steal(n) ==
  LET tier == NodeTier[n]
  IN  \E i \in DOMAIN queue[tier] :
        LET c == queue[tier][i]
        IN  /\ IsFirstEligible(i, queue[tier], familyNodeMap, n, SameIp(n))
            /\ queue' = [queue EXCEPT ![tier] = RemoveAt(@, i)]
            /\ familyNodeMap' = RecordThief(familyNodeMap, TaskOf(c), n)
            /\ assignedNodes' = IF InStore(TaskOf(c))
                                THEN [assignedNodes EXCEPT ![c] = n]
                                ELSE assignedNodes
            /\ activeClones' = [activeClones EXCEPT ![n] = @ \union {c}]
            /\ \/ n \in connected /\ UNCHANGED stale
               \/ n \in replaced /\ stale' = [stale EXCEPT ![n] = @ \union {c}]
            /\ UNCHANGED <<status, usedCloudFallback, results, sla, registryVars,
                           executing, acking, sendOnClosed, runVars, moneyVars>>

(* The DB writes are over: TASK_ASSIGNMENT is sent.  uWS may drop it, and  *)
(* the daemon then never answers.                                          *)
SendAssignment(n, c) ==
  /\ c \in Sending(n)
  /\ executing' = [executing EXCEPT ![n] = @ \union {c}]
  /\ UNCHANGED <<taskVars, sla, queueVars, registryVars, activeClones, stale,
                 acking, sendOnClosed, runVars, moneyVars>>

-----------------------------------------------------------------------------
(* TASK_EVICTION *)

(* The clone leaves the active clones of the connection it came on. *)
DropClone(n, c) ==
  /\ activeClones' = [activeClones EXCEPT ![n] = @ \ {c}]
  /\ stale' = [stale EXCEPT ![n] = @ \ {c}]
  /\ executing' = [executing EXCEPT ![n] = @ \ {c}]

(* The handler looks at no status: a clone of a task that is over, or in   *)
(* the cloud, is re-queued like any other.                                 *)
TaskEviction(n, c) ==
  /\ n \in EvictingNodes
  /\ c \in executing[n]
  /\ DropClone(n, c)
  /\ IF InStore(TaskOf(c))
     THEN /\ Unassign({c}, n)
          /\ queue' = [queue EXCEPT ![TaskTier[TaskOf(c)]] = EnqueuePriority(@, c)]
          /\ acking' = [acking EXCEPT ![n] = @ \union {c}]
     ELSE UNCHANGED <<assignedNodes, results, queueVars, acking>>
  /\ UNCHANGED <<status, usedCloudFallback, sla, registryVars, sendOnClosed,
                 runVars, moneyVars>>

(* The eviction is logged in the DB and EVICTION_ACK is sent. *)
AckEviction(n, c) ==
  /\ c \in acking[n]
  /\ acking' = [acking EXCEPT ![n] = @ \ {c}]
  /\ UNCHANGED <<taskVars, sla, queueVars, registryVars, cloneVars,
                 sendOnClosed, runVars, moneyVars>>

-----------------------------------------------------------------------------
(* TASK_RESULT and the consensus engine *)

(* Mutant: two results are taken for a full set. *)
AddResultEarly(c, r) ==
  IF InStore(TaskOf(c))
  THEN /\ results' = [results EXCEPT ![c] = r]
       /\ consensus' = IF \E d \in ClonesOf(TaskOf(c)) \ {c} : Reported(d)
                       THEN [consensus EXCEPT ![c] = "recording"]
                       ELSE consensus
  ELSE UNCHANGED <<results, consensus>>

(* taskStore.addResult, and the branch of onCloneResult on the count it    *)
(* returns: with fewer than three results, or without a task, the handler  *)
(* ends after its DB writes.                                               *)
AddResult(c, r) ==
  IF InStore(TaskOf(c))
  THEN /\ results' = [results EXCEPT ![c] = r]
       /\ consensus' = IF \A d \in ClonesOf(TaskOf(c)) \ {c} : Reported(d)
                       THEN [consensus EXCEPT ![c] = "recording"]
                       ELSE consensus
  ELSE UNCHANGED <<results, consensus>>

(* The sets of active clones that the connection c comes on can have: of   *)
(* the replaced connections it is not known which has which stale clones.  *)
OnConnectionOf(n, c) ==
  IF c \in stale[n] THEN {S \in SUBSET stale[n] : c \in S} ELSE {Current(n)}

(* A daemon finished executing c, with some output.  When this was the     *)
(* connection's last clone the handler first awaits the write of ONLINE.   *)
TaskResult(n, c) ==
  /\ c \in executing[n]
  /\ DropClone(n, c)
  /\ \E v \in Values, S \in OnConnectionOf(n, c) :
       LET r == [node |-> n, value |-> v]
       IN  IF S = {c}
           THEN /\ arriving' = [arriving EXCEPT ![c] = r]
                /\ UNCHANGED <<results, consensus>>
           ELSE AddResult(c, r) /\ UNCHANGED arriving
  /\ UNCHANGED <<status, usedCloudFallback, assignedNodes, sla, queueVars,
                 registryVars, acking, sendOnClosed, payVars, moneyVars>>

OnCloneResult(c) ==
  /\ arriving[c] # NoReport
  /\ AddResult(c, arriving[c])
  /\ arriving' = [arriving EXCEPT ![c] = NoReport]
  /\ UNCHANGED <<status, usedCloudFallback, assignedNodes, sla, queueVars,
                 connVars, payVars, moneyVars>>

(* The results of t that match the result of d *)
Matches(t, d) ==
  {e \in ClonesOf(t) : /\ Reported(e)
                       /\ <<results[e].value, results[d].value>> \in Agree}

(* Mutant: one result fewer makes a majority. *)
LooseMajorities(t) ==
  {M \in {Matches(t, d) : d \in {e \in ClonesOf(t) : Reported(e)}} :
     Cardinality(M) >= ConsensusMajority - 1}

(* The majorities runConsensus can accept: the matches of the first target *)
(* that has enough of them.  Which target is first depends on the order in *)
(* which the results arrived, so any is possible.                          *)
Majorities(t) ==
  {M \in {Matches(t, d) : d \in {e \in ClonesOf(t) : Reported(e)}} :
     Cardinality(M) >= ConsensusMajority}

(* The entries of a set of results name the node that reported each. *)
Entries(S) == {<<e, results[e].node>> : e \in S}

(* The result is in the DB: runConsensus reads the results and decides.    *)
(* Without a majority applyConsensusEconomics returns at once and the task *)
(* has FAILED before the next timer or message.                            *)
RunConsensus(c) ==
  LET t == TaskOf(c)
  IN  /\ consensus[c] = "recording"
      /\ InStore(t)
      /\ \/ \E M \in Majorities(t) :
              /\ consensus' = [consensus EXCEPT ![c] = "paying"]
              /\ toPay' = [toPay EXCEPT ![c] = Entries(M)]
              /\ toSlash' = [toSlash EXCEPT ![c] =
                   Entries({e \in ClonesOf(t) : Reported(e)} \ M)]
              /\ UNCHANGED status
         \/ /\ Majorities(t) = {}
            /\ consensus' = [consensus EXCEPT ![c] = "idle"]
            /\ status' = [status EXCEPT ![t] = "FAILED"]
            /\ UNCHANGED payVars
      /\ UNCHANGED <<usedCloudFallback, assignedNodes, results, sla, queueVars,
                     connVars, arriving, moneyVars>>

(* The task was purged while the result was written: runConsensus throws   *)
(* in a handler that nobody awaits, and the process ends.                  *)
RunConsensusThrows(c) ==
  consensus[c] = "recording" /\ ~InStore(TaskOf(c)) /\ Restart

(* One majority entry: its node is paid if the store still assigns it some *)
(* clone of the task.                                                      *)
Pay(c) ==
  LET t == TaskOf(c)
  IN  /\ consensus[c] = "paying"
      /\ \E e \in toPay[c] :
           /\ toPay' = [toPay EXCEPT ![c] = @ \ {e}]
           /\ payouts' = IF \E d \in ClonesOf(t) : assignedNodes[d] = e[2]
                         THEN [payouts EXCEPT ![t][e[2]] = @ + 1]
                         ELSE payouts
      /\ UNCHANGED <<taskVars, sla, queueVars, connVars, arriving, consensus,
                     toSlash, slashes>>

(* One dissenting entry, once the majority is paid *)
Slash(c) ==
  /\ consensus[c] = "paying"
  /\ toPay[c] = {}
  /\ \E e \in toSlash[c] :
       /\ toSlash' = [toSlash EXCEPT ![c] = @ \ {e}]
       /\ slashes' = [slashes EXCEPT ![TaskOf(c)][e[2]] = @ + 1]
  /\ UNCHANGED <<taskVars, sla, queueVars, connVars, arriving, consensus,
                 toPay, payouts>>

(* completeTask, whatever the status of the task has become; a task that   *)
(* has left the store has none.                                            *)
CompleteTask(c) ==
  /\ consensus[c] = "paying"
  /\ toPay[c] = {} /\ toSlash[c] = {}
  /\ status' = IF InStore(TaskOf(c)) THEN [status EXCEPT ![TaskOf(c)] = "COMPLETED"]
               ELSE status
  /\ consensus' = [consensus EXCEPT ![c] = "closing"]
  /\ UNCHANGED <<usedCloudFallback, assignedNodes, results, sla, queueVars,
                 connVars, arriving, payVars, moneyVars>>

(* COMPLETED is in the DB: forget the family. *)
CloseConsensus(c) ==
  /\ consensus[c] = "closing"
  /\ familyNodeMap' = CleanupFamily(familyNodeMap, TaskOf(c))
  /\ consensus' = [consensus EXCEPT ![c] = "idle"]
  /\ UNCHANGED <<taskVars, sla, queue, connVars, arriving, payVars, moneyVars>>

-----------------------------------------------------------------------------
(* SLA monitor *)

(* The timer fires: enforceSlaBreach up to the call of the cloud server.   *)
(* Nothing clears the timer of a task that reached consensus, so it fires  *)
(* and returns early.                                                      *)
SlaTimer(t) ==
  /\ sla[t] = "armed"
  /\ IF status[t] = "CLONED" /\ ~usedCloudFallback[t]
     THEN /\ status' = [status EXCEPT ![t] = "SLA_BREACHED"]
          /\ queue' = [tier \in Tiers |-> RemoveByTaskId(queue[tier], t)]
          /\ sla' = [sla EXCEPT ![t] = "cloud"]
     ELSE /\ sla' = [sla EXCEPT ![t] = "done"]
          /\ UNCHANGED <<status, queue>>
  /\ UNCHANGED <<usedCloudFallback, assignedNodes, results, familyNodeMap,
                 connVars, runVars, moneyVars>>

(* Mutant: an answer with status ERROR makes the task FAILED. *)
CloudAnswerOrFail(t) ==
  /\ sla[t] = "cloud"
  /\ sla' = [sla EXCEPT ![t] = "answered"]
  /\ IF InStore(t)
     THEN /\ \E s \in {"CLOUD_FALLBACK", "FAILED"} : status' = [status EXCEPT ![t] = s]
          /\ usedCloudFallback' = [usedCloudFallback EXCEPT ![t] = TRUE]
     ELSE UNCHANGED <<status, usedCloudFallback>>
  /\ UNCHANGED <<assignedNodes, results, queueVars, connVars, runVars, moneyVars>>

(* forwardToCloud returned, with an output or with status ERROR: it never  *)
(* rejects, and markCloudFallback looks neither at the answer nor at what  *)
(* became of the task meanwhile, as long as the store has it.              *)
CloudAnswer(t) ==
  /\ sla[t] = "cloud"
  /\ sla' = [sla EXCEPT ![t] = "answered"]
  /\ IF InStore(t)
     THEN /\ status' = [status EXCEPT ![t] = "CLOUD_FALLBACK"]
          /\ usedCloudFallback' = [usedCloudFallback EXCEPT ![t] = TRUE]
     ELSE UNCHANGED <<status, usedCloudFallback>>
  /\ UNCHANGED <<assignedNodes, results, queueVars, connVars, runVars, moneyVars>>

-----------------------------------------------------------------------------
(* purgeOld: a terminal task submitted more than an hour ago leaves the    *)
(* store, whatever handlers are suspended.  A run of the engine keeps the  *)
(* task's object, with its results and its assigned nodes.                 *)
Purge(t) ==
  /\ InStore(t) /\ ~IsActive(t)
  /\ status' = [status EXCEPT ![t] = "PURGED"]
  /\ UNCHANGED <<usedCloudFallback, assignedNodes, results, sla, queueVars,
                 connVars, runVars, moneyVars>>

-----------------------------------------------------------------------------
Next ==
  \/ \E t \in Tasks : Submit(t) \/ TrackTaskSla(t) \/ Refuse(t) \/ SlaTimer(t)
                      \/ CloudAnswer(t) \/ Purge(t)
  \/ \E n \in Nodes : Register(n) \/ Reconnect(n) \/ CloseWhileRegistering(n)
                      \/ Disconnect(n) \/ CloseReplaced(n) \/ Steal(n)
  \/ \E n \in Nodes, c \in Clones : SendAssignment(n, c) \/ TaskResult(n, c)
                                    \/ TaskEviction(n, c) \/ AckEviction(n, c)
  \/ \E c \in Clones : OnCloneResult(c) \/ RunConsensus(c) \/ RunConsensusThrows(c)
                       \/ Pay(c) \/ Slash(c) \/ CompleteTask(c) \/ CloseConsensus(c)
  \/ CrashAndRestart

Spec == Init /\ [][Next]_vars

(* The event loop resumes every suspended handler, as the database calls   *)
(* it waits for end.                                                       *)
HandlerFairness ==
  \A c \in Clones : WF_vars(OnCloneResult(c)) /\ WF_vars(RunConsensus(c))
                    /\ WF_vars(Pay(c) \/ Slash(c) \/ CompleteTask(c))

(* Submissions end, with a timer or without; timers fire, and              *)
(* forwardToCloud aborts its request after cloudFallbackTimeoutMs.         *)
TimerFairness ==
  \A t \in Tasks : WF_vars(TrackTaskSla(t) \/ Refuse(t)) /\ WF_vars(SlaTimer(t))
                   /\ WF_vars(CloudAnswer(t))

(* Nodes keep polling for work and answer what they are assigned: daemons  *)
(* steal in a loop (ws/client.rs:251) and executions have a timeout.  This *)
(* is what the swarm needs of its nodes, not what they always do: a send   *)
(* that uWS drops and an execution that panics leave an assigned clone     *)
(* without an answer (module Fleet).                                       *)
NodeFairness ==
  /\ \A n \in Nodes : WF_vars(Steal(n))
  /\ \A n \in Nodes, c \in Clones : WF_vars(SendAssignment(n, c))
                                   /\ WF_vars(TaskResult(n, c))

HandlerSpec == Spec /\ HandlerFairness

FairSpec == HandlerSpec /\ TimerFairness

-----------------------------------------------------------------------------
(* Where a clone can be *)

Queued(c) == \E tier \in Tiers : Contains(queue[tier], c)

Held(c) == \E n \in Nodes : c \in activeClones[n]

(* Node n works on c or has answered it: what anti-affinity must separate. *)
Carries(n, c) ==
  \/ c \in activeClones[n]
  \/ arriving[c] # NoReport /\ arriving[c].node = n
  \/ results[c] # NoReport /\ results[c].node = n

QueuesSound ==
  \A tier \in Tiers :
    /\ IsInjective(queue[tier])
    /\ \A c \in Clones : Contains(queue[tier], c) => TaskTier[TaskOf(c)] = tier

OneHolder ==
  /\ \A n, m \in Nodes : \A c \in activeClones[n] : c \in activeClones[m] => n = m
  /\ \A n \in Nodes : executing[n] \subseteq activeClones[n]
  /\ \A n \in Nodes : stale[n] \subseteq activeClones[n]

InOnePlace(c) ==
  /\ Queued(c) => ~Held(c)
  /\ Queued(c) \/ Held(c) => arriving[c] = NoReport
  /\ Queued(c) \/ Held(c) \/ arriving[c] # NoReport => ~Reported(c)

(* Every clone is in at most one of: one position of the queue of its own  *)
(* tier, the hands of one node, a result on its way to the engine, the     *)
(* results of its task.  A clone in two places would be executed twice and *)
(* could complete a result set with two answers for one copy.              *)
OnePlace == QueuesSound /\ OneHolder /\ \A c \in Clones : InOnePlace(c)

(* REQ-ORC-02 (queue/tier-queue.ts:103): the clones of one family are      *)
(* worked on and answered by distinct nodes, through every eviction,       *)
(* re-queue and reconnection.                                              *)
AntiAffinity ==
  \A c, d \in Clones : TaskOf(c) = TaskOf(d) /\ c # d =>
    \A n \in Nodes : ~(Carries(n, c) /\ Carries(n, d))

(* A consensus run only ever sees a full set of results, although the      *)
(* count that starts it is taken before an await and the results are read  *)
(* after it (consensus/engine.ts:46-105).                                  *)
RunsComplete ==
  \A c \in Clones : consensus[c] # "idle" => AllReported(TaskOf(c))

(* Moreover the store still has its task until it has decided, except for  *)
(* a task the cloud answered too: only such a task can be old and terminal *)
(* before its verdict, be purged, and end the process (engine.ts:91).      *)
RunsSeeAllResults ==
  /\ RunsComplete
  /\ \A c \in Clones : consensus[c] \in {"recording", "paying"} =>
       InStore(TaskOf(c)) \/ usedCloudFallback[TaskOf(c)]

(* One verdict per task: no second run starts, and no node is paid twice,  *)
(* slashed twice, or both, for one task.                                   *)
OneVerdict ==
  /\ \A c, d \in Clones :
       TaskOf(c) = TaskOf(d) /\ consensus[c] # "idle" /\ consensus[d] # "idle" => c = d
  /\ \A t \in Tasks, n \in Nodes : payouts[t][n] + slashes[t][n] <= 1

(* A node is slashed only where the payment of a majority of other nodes   *)
(* was attempted: every majority node still has its clone assigned when    *)
(* its payment is.  (None succeeds in the database: module Payments.)      *)
SlashesHaveMajority ==
  \A t \in Tasks : (\E n \in Nodes : slashes[t][n] > 0) =>
    Cardinality({n \in Nodes : payouts[t][n] > 0}) >= ConsensusMajority

(* Every node that carries a clone is in the record of the clone's family  *)
(* that steal() consults, as long as a clone of the family can be stolen.  *)
FamilyCovers ==
  \A n \in Nodes, c \in Clones : Carries(n, c) =>
    n \in FamilyNodes(familyNodeMap, TaskOf(c)) \/ AllReported(TaskOf(c))

(* The clones of a task are nowhere before it is submitted. *)
NoneBeforeSubmission ==
  \A c \in Clones : status[TaskOf(c)] = "NONE" =>
    ~Queued(c) /\ ~Held(c) /\ arriving[c] = NoReport /\ ~Reported(c)

(* A node only holds clones of its own tier. *)
HeldInTier ==
  \A n \in Nodes : \A c \in activeClones[n] : TaskTier[TaskOf(c)] = NodeTier[n]

(* The inductive invariant behind OnePlace, AntiAffinity and               *)
(* RunsComplete: none of the three is inductive alone.                     *)
CustodyInv ==
  /\ TypeOK
  /\ OnePlace
  /\ HeldInTier
  /\ NoneBeforeSubmission
  /\ RunsComplete
  /\ FamilyCovers
  /\ AntiAffinity

(* The store's assignments, which the disconnect handler uses to find the  *)
(* clones to re-queue, follow the connections' active clones.              *)
AssignmentsFollowHolders ==
  \A n \in Nodes : \A c \in activeClones[n] :
    InStore(TaskOf(c)) => assignedNodes[c] = n

(* With room in the queues for every clone, no clone of a task that still  *)
(* waits for its SLA is ever lost: it is queued, held or answered.         *)
NoCloneLost ==
  MaxDepth >= Cardinality(Clones) =>
    \A c \in Clones : status[TaskOf(c)] = "CLONED" =>
      Queued(c) \/ Held(c) \/ arriving[c] # NoReport \/ Reported(c)

(* No clone goes to a node while another node that the server knows at its *)
(* address works on, or has answered, a clone of the family: through every *)
(* eviction and re-queue the family's record names all of them (handlers   *)
(* 236-246).  A node whose address a late close has erased is not covered. *)
IpAntiAffinity ==
  [][\A n, m \in nodeIpMap : n # m /\ NodeIp[n] = NodeIp[m] =>
       \A c \in activeClones'[n] \ activeClones[n] :
         \A d \in ClonesOf(TaskOf(c)) : ~Carries(m, d)]_vars

(* What the engine decided stays decided: only the cloud overwrites the    *)
(* status of a task that reached a verdict, until it leaves the store.     *)
VerdictStable ==
  [][\A t \in Tasks : status[t] \in {"COMPLETED", "FAILED"} =>
       status'[t] \in {status[t], "CLOUD_FALLBACK", "PURGED", "LOST"}]_status

(* REQ-SLA-02: every task that was accepted is settled, by a verdict or by *)
(* the cloud, unless the process dies or its submission was answered 500.  *)
(* It needs timers, and no node.                                           *)
EventuallySettled ==
  TimerFairness =>
    \A t \in Tasks : status[t] = "CLONED" ~>
      status[t] \in Terminal \union {"LOST"} \/ sla[t] = "refused"

(* Once the third result is in, the verdict follows, whatever the SLA      *)
(* monitor does to the task meanwhile; only a task the cloud has answered  *)
(* can be purged first.                                                    *)
FullReportDecided ==
  \A c \in Clones : LET t == TaskOf(c) IN
    consensus[c] = "recording" ~> \/ status[t] \in {"COMPLETED", "FAILED", "LOST"}
                                  \/ status[t] = "PURGED" /\ usedCloudFallback[t]

(* With every node connected, each by one connection, from some point on,  *)
(* and every assignment answered, the swarm decides every task by itself,  *)
(* even if no SLA timer ever fires: no anti-affinity record left behind by *)
(* an evicted clone keeps the last clone of a family from the only node    *)
(* that may take it.                                                       *)
SwarmDecides ==
  NodeFairness /\ <>[](connected = Nodes /\ replaced = {}) =>
    \A t \in Tasks : status[t] = "CLONED" ~> status[t] # "CLONED"
=============================================================================
