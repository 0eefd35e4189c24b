-------------------------------- MODULE Fleet --------------------------------
(***************************************************************************)
(* The connections between edge daemons and the orchestrator, both ends of *)
(* them: the orchestrator's registry of nodes, with several sockets per    *)
(* node, and the daemon's sessions, steal loop and executions.             *)
(*                                                                         *)
(* A connection has two ends that close at different times.  A daemon that *)
(* lost its session connects again at once, with an old socket the         *)
(* orchestrator may take for alive until a timeout, and it goes on         *)
(* executing what it was assigned in the old session.  Nor is every        *)
(* assignment answered: uWS may drop the message, and an execution may     *)
(* panic, after which nobody reports it or counts it out.  Work is kept to *)
(* what the connections need of it: `available' stands for the queues of   *)
(* module Orchestrator, without tiers and anti-affinity.                   *)
(***************************************************************************)
EXTENDS Naturals, FiniteSets, Functions

CONSTANTS
  Nodes, Sockets, Clones,
  Trusted,             \* nodes that present config.nodeAuthSecret
  Profiled,            \* nodes whose hardware determineTier gives a tier
  Capacity,            \* a daemon steals below this many tasks in progress
  MaxSteals,           \* bound: steals of one session under way
  NoNode, NoSocket

ASSUME FleetAssumption ==
  /\ Trusted \subseteq Nodes /\ Profiled \subseteq Nodes
  /\ Capacity \in Nat /\ MaxSteals \in Nat
  /\ NoNode \notin Nodes /\ NoSocket \notin Sockets

ASSUME ClonesFinite == IsFiniteSet(Clones)

VARIABLES
  owner,           \* socket -> the node whose daemon opened it
  serverOpen,      \* the sockets the orchestrator holds open
  registering,     \* socket -> where its NODE_REGISTER stands
  registered,      \* the sockets with WsUserData.isRegistered
  connectedNodes,  \* node -> socket; nodeIpMap has the same keys
  activeClones,    \* socket -> WsUserData.activeClones
  sending,         \* socket -> clones whose assignment waits for DB writes
  available,       \* the clones in the queues
  doomed,          \* a promise nobody awaits is going to be rejected
  answers,         \* clone -> results the engine was given
  session,         \* node -> the socket of the daemon's session
  ranked,          \* node -> DaemonStatus.tier is not PENDING_PROFILE
  inProgress,      \* node -> DaemonStatus.tasks_in_progress
  running,         \* node -> clones the present session executes
  orphans,         \* node -> clone -> executions of past sessions
  leaked,          \* node -> executions that panicked: counted, but gone
  steals,          \* socket -> TASK_STEAL messages on their way
  acks,            \* socket -> REGISTER_ACK on its way
  assigned,        \* socket -> TASK_ASSIGNMENT messages on their way
  reported,        \* socket -> TASK_RESULT messages on their way
  unanswered       \* socket -> active clones that nobody works on

registryVars == <<serverOpen, registering, registered, connectedNodes>>
workVars     == <<activeClones, sending, available, answers>>
daemonVars   == <<session, ranked, inProgress, running, orphans, leaked>>
upVars       == <<steals, reported>>
downVars     == <<acks, assigned>>
vars == <<owner, registryVars, workVars, doomed, daemonVars, upVars, downVars,
          unanswered>>

Stages == {"idle", "sent", "row", "pairing"}
Acks   == {"none", "ranked", "pending", "refused"}

TypeOK ==
  /\ owner \in [Sockets -> Nodes \union {NoNode}]
  /\ serverOpen \subseteq Sockets
  /\ registering \in [Sockets -> Stages]
  /\ registered \subseteq serverOpen
  /\ connectedNodes \in [Nodes -> Sockets \union {NoSocket}]
  /\ activeClones \in [Sockets -> SUBSET Clones]
  /\ sending \in [Sockets -> SUBSET Clones]
  /\ available \subseteq Clones
  /\ doomed \in BOOLEAN
  /\ answers \in [Clones -> Nat]
  /\ session \in [Nodes -> Sockets \union {NoSocket}]
  /\ ranked \in [Nodes -> BOOLEAN]
  /\ inProgress \in [Nodes -> Nat]
  /\ running \in [Nodes -> SUBSET Clones]
  /\ orphans \in [Nodes -> [Clones -> Nat]]
  /\ steals \in [Sockets -> 0 .. MaxSteals]
  /\ acks \in [Sockets -> Acks]
  /\ assigned \in [Sockets -> SUBSET Clones]
  /\ reported \in [Sockets -> SUBSET Clones]
  /\ leaked \in [Nodes -> Nat]
  /\ unanswered \in [Sockets -> SUBSET Clones]

Init ==
  /\ owner = [s \in Sockets |-> NoNode]
  /\ serverOpen = {}
  /\ registering = [s \in Sockets |-> "idle"]
  /\ registered = {}
  /\ connectedNodes = [n \in Nodes |-> NoSocket]
  /\ activeClones = [s \in Sockets |-> {}]
  /\ sending = [s \in Sockets |-> {}]
  /\ available = Clones
  /\ doomed = FALSE
  /\ answers = [c \in Clones |-> 0]
  /\ session = [n \in Nodes |-> NoSocket]
  /\ ranked = [n \in Nodes |-> FALSE]
  /\ inProgress = [n \in Nodes |-> 0]
  /\ running = [n \in Nodes |-> {}]
  /\ orphans = [n \in Nodes |-> [c \in Clones |-> 0]]
  /\ steals = [s \in Sockets |-> 0]
  /\ acks = [s \in Sockets |-> "none"]
  /\ assigned = [s \in Sockets |-> {}]
  /\ reported = [s \in Sockets |-> {}]
  /\ leaked = [n \in Nodes |-> 0]
  /\ unanswered = [s \in Sockets |-> {}]

(* The daemon at the other end still has the session. *)
DaemonOpen(s) == owner[s] # NoNode /\ session[owner[s]] = s

-----------------------------------------------------------------------------
(* Connecting and registering *)

(* connect_async succeeds: upgrade() gives the socket fresh user data, and *)
(* run_session sends NODE_REGISTER first of all.                           *)
Connect(n, s) ==
  /\ session[n] = NoSocket
  /\ owner[s] = NoNode
  /\ session' = [session EXCEPT ![n] = s]
  /\ owner' = [owner EXCEPT ![s] = n]
  /\ serverOpen' = serverOpen \union {s}
  /\ registering' = [registering EXCEPT ![s] = "sent"]
  /\ UNCHANGED <<registered, connectedNodes, workVars, doomed, ranked,
                 inProgress, running, orphans, leaked, upVars, downVars,
                 unanswered>>

(* Mutant: the registry is written before the node's row, and so before    *)
(* the close handler knows the node.                                       *)
NodeRegisterEager(s) ==
  /\ registering[s] = "sent"
  /\ registering' = [registering EXCEPT ![s] = "row"]
  /\ connectedNodes' = [connectedNodes EXCEPT ![owner[s]] = s]
  /\ UNCHANGED <<owner, serverOpen, registered, workVars, doomed, daemonVars,
                 upVars, downVars, unanswered>>

(* handleNodeRegister up to its first await.  A wrong token is answered,   *)
(* and ws.end runs the close handler of a socket without a node.           *)
NodeRegister(s) ==
  /\ registering[s] = "sent"
  /\ IF owner[s] \in Trusted
     THEN /\ registering' = [registering EXCEPT ![s] = "row"]
          /\ UNCHANGED <<owner, serverOpen, acks>>
     ELSE /\ registering' = [registering EXCEPT ![s] = "idle"]
          /\ serverOpen' = serverOpen \ {s}
          /\ IF DaemonOpen(s)
             THEN acks' = [acks EXCEPT ![s] = "refused"] /\ UNCHANGED owner
             ELSE owner' = [owner EXCEPT ![s] = NoNode] /\ UNCHANGED acks
  /\ UNCHANGED <<registered, connectedNodes, workVars, doomed, daemonVars,
                 upVars, assigned, unanswered>>

(* The ack goes nowhere when the daemon has left the session. *)
SendAck(s, ack) == acks' = IF DaemonOpen(s) THEN [acks EXCEPT ![s] = ack] ELSE acks

(* registerNode is over.  With the row written the connection enters the   *)
(* registries, replacing an older socket of the node; without, the daemon  *)
(* is told and the socket stays as it is.                                  *)
EnterRegistry(s) ==
  /\ registering[s] = "row"
  /\ \/ /\ registered' = registered \union {s}
        /\ connectedNodes' = [connectedNodes EXCEPT ![owner[s]] = s]
        /\ registering' = [registering EXCEPT ![s] = "pairing"]
        /\ UNCHANGED acks
     \/ /\ registering' = [registering EXCEPT ![s] = "idle"]
        /\ SendAck(s, "refused")
        /\ UNCHANGED <<registered, connectedNodes>>
  /\ UNCHANGED <<owner, serverOpen, workVars, doomed, daemonVars, upVars,
                 assigned, unanswered>>

(* The queries about pairing codes are over, and REGISTER_ACK is sent; or  *)
(* one of the two outside the try block failed.                            *)
AckRegistration(s) ==
  /\ registering[s] = "pairing"
  /\ registering' = [registering EXCEPT ![s] = "idle"]
  /\ \/ /\ SendAck(s, IF owner[s] \in Profiled THEN "ranked" ELSE "pending")
        /\ UNCHANGED doomed
     \/ doomed' = TRUE /\ UNCHANGED acks
  /\ UNCHANGED <<owner, serverOpen, registered, connectedNodes, workVars,
                 daemonVars, upVars, assigned, unanswered>>

(* The daemon's tier changes only with an ack of success; a refused daemon *)
(* stays connected and never asks again in this session.                   *)
ReceiveAck(n) ==
  LET s == session[n]
  IN  /\ s # NoSocket
      /\ acks[s] # "none"
      /\ acks' = [acks EXCEPT ![s] = "none"]
      /\ ranked' = [ranked EXCEPT ![n] = IF acks[s] = "ranked" THEN TRUE ELSE @]
      /\ UNCHANGED <<owner, registryVars, workVars, doomed, session, inProgress,
                     running, orphans, leaked, upVars, assigned, unanswered>>

-----------------------------------------------------------------------------
(* Closing *)

(* handleClose re-queues every active clone of the connection. *)
Requeue(s) == available \union activeClones[s]

(* Mutant: a socket that is not its node's entry in the registry is left as *)
(* it is.                                                                  *)
ForgetEntry(s) ==
  IF connectedNodes[owner[s]] = s THEN registered \ {s} ELSE registered

(* The user data goes with the socket. *)
Forget(s) == registered \ {s}

(* handleClose: the registries are cleared by node, whatever socket they   *)
(* hold for it.  A handler suspended on this socket will use it closed.    *)
HandleClose(s) ==
  /\ s \in serverOpen
  /\ serverOpen' = serverOpen \ {s}
  /\ registered' = Forget(s)
  /\ connectedNodes' = IF s \in registered
                       THEN [connectedNodes EXCEPT ![owner[s]] = NoSocket]
                       ELSE connectedNodes
  /\ available' = Requeue(s)
  /\ activeClones' = [activeClones EXCEPT ![s] = {}]
  /\ sending' = [sending EXCEPT ![s] = {}]
  /\ doomed' = (doomed \/ sending[s] # {} \/ registering[s] \in {"row", "pairing"})
  /\ registering' = [registering EXCEPT ![s] = "idle"]
  /\ steals' = [steals EXCEPT ![s] = 0]
  /\ reported' = [reported EXCEPT ![s] = {}]
  /\ unanswered' = [unanswered EXCEPT ![s] = {}]
  /\ owner' = IF DaemonOpen(s) THEN owner ELSE [owner EXCEPT ![s] = NoNode]
  /\ UNCHANGED <<answers, daemonVars, downVars>>

(* The network fails the orchestrator's end, or the process that had the   *)
(* other end is gone and the peer is told.                                 *)
ConnectionLost(s) == DaemonOpen(s) /\ HandleClose(s)

(* startHeartbeatMonitor only looks at the sockets of the registry. *)
HeartbeatTimeout(s) ==
  /\ \E n \in Nodes : connectedNodes[n] = s
  /\ ~DaemonOpen(s)
  /\ HandleClose(s)

(* Mutant: nothing but the heartbeat monitor finds a dead peer. *)
IdleTimeoutOfRegistry(s) ==
  /\ \E n \in Nodes : connectedNodes[n] = s
  /\ ~DaemonOpen(s)
  /\ HandleClose(s)

(* idleTimeout: a socket that answers no ping is closed by the library. *)
IdleTimeout(s) ==
  /\ ~DaemonOpen(s)
  /\ HandleClose(s)

(* Mutant: the tier of the lost session is kept. *)
SessionEndsRanked(n) ==
  LET s == session[n]
  IN  /\ s # NoSocket
      /\ session' = [session EXCEPT ![n] = NoSocket]
      /\ running' = [running EXCEPT ![n] = {}]
      /\ orphans' = [orphans EXCEPT ![n] =
           [c \in Clones |-> IF c \in running[n] THEN @[c] + 1 ELSE @[c]]]
      /\ acks' = [acks EXCEPT ![s] = "none"]
      /\ assigned' = [assigned EXCEPT ![s] = {}]
      /\ owner' = IF s \in serverOpen THEN owner ELSE [owner EXCEPT ![s] = NoNode]
      /\ UNCHANGED <<registryVars, workVars, doomed, ranked, inProgress, leaked,
                     upVars, unanswered>>

(* The daemon's end of the session: a close frame, an error, a dead peer.  *)
(* The tasks for heartbeats and stealing are aborted and the tier is       *)
(* forgotten, but executions go on.                                        *)
SessionEnds(n) ==
  LET s == session[n]
  IN  /\ s # NoSocket
      /\ session' = [session EXCEPT ![n] = NoSocket]
      /\ ranked' = [ranked EXCEPT ![n] = FALSE]
      /\ running' = [running EXCEPT ![n] = {}]
      /\ orphans' = [orphans EXCEPT ![n] =
           [c \in Clones |-> IF c \in running[n] THEN @[c] + 1 ELSE @[c]]]
      /\ acks' = [acks EXCEPT ![s] = "none"]
      /\ assigned' = [assigned EXCEPT ![s] = {}]
      /\ owner' = IF s \in serverOpen THEN owner ELSE [owner EXCEPT ![s] = NoNode]
      /\ UNCHANGED <<registryVars, workVars, doomed, inProgress, leaked, upVars,
                     unanswered>>

(* A rejection nobody handles ends the process; the one that follows has   *)
(* no connections and no work.                                             *)
CrashAndRestart ==
  /\ doomed
  /\ doomed' = FALSE
  /\ serverOpen' = {}
  /\ registered' = {}
  /\ registering' = [s \in Sockets |-> "idle"]
  /\ connectedNodes' = [n \in Nodes |-> NoSocket]
  /\ activeClones' = [s \in Sockets |-> {}]
  /\ sending' = [s \in Sockets |-> {}]
  /\ available' = {}
  /\ steals' = [s \in Sockets |-> 0]
  /\ reported' = [s \in Sockets |-> {}]
  /\ unanswered' = [s \in Sockets |-> {}]
  /\ owner' = [s \in Sockets |-> IF DaemonOpen(s) THEN owner[s] ELSE NoNode]
  /\ UNCHANGED <<answers, daemonVars, downVars>>

-----------------------------------------------------------------------------
(* Work *)

(* The steal loop: what is in progress is counted when an assignment       *)
(* arrives, so several steals can be under way for one free place.         *)
StealLoop(n) ==
  LET s == session[n]
  IN  /\ s # NoSocket
      /\ ranked[n]
      /\ inProgress[n] < Capacity
      /\ s \in serverOpen /\ steals[s] < MaxSteals
      /\ steals' = [steals EXCEPT ![s] = @ + 1]
      /\ UNCHANGED <<owner, registryVars, workVars, doomed, daemonVars, downVars,
                     reported, unanswered>>

(* handleTaskSteal up to its first await, or NO_TASK_AVAILABLE *)
TaskSteal(s) ==
  /\ steals[s] > 0
  /\ steals' = [steals EXCEPT ![s] = @ - 1]
  /\ \/ \E c \in available :
          /\ available' = available \ {c}
          /\ activeClones' = [activeClones EXCEPT ![s] = @ \union {c}]
          /\ sending' = [sending EXCEPT ![s] = @ \union {c}]
     \/ available = {} /\ UNCHANGED <<available, activeClones, sending>>
  /\ UNCHANGED <<owner, registryVars, answers, doomed, daemonVars, downVars,
                 reported, unanswered>>

(* The writes are over, or have failed: TASK_ASSIGNMENT is sent.  Nobody   *)
(* looks at what ws.send returns: over a congested connection uWS drops    *)
(* the message, and a daemon that has left the session never sees it.      *)
SendAssignment(s, c) ==
  /\ c \in sending[s]
  /\ sending' = [sending EXCEPT ![s] = @ \ {c}]
  /\ \/ /\ DaemonOpen(s)
        /\ assigned' = [assigned EXCEPT ![s] = @ \union {c}]
        /\ UNCHANGED unanswered
     \/ /\ unanswered' = [unanswered EXCEPT ![s] = @ \union {c}]
        /\ UNCHANGED assigned
  /\ UNCHANGED <<owner, registryVars, activeClones, available, answers, doomed,
                 daemonVars, upVars, acks>>

(* Mutant: a daemon that is full drops the assignment. *)
ReceiveIfRoom(n, c) ==
  LET s == session[n]
  IN  /\ s # NoSocket
      /\ c \in assigned[s]
      /\ assigned' = [assigned EXCEPT ![s] = @ \ {c}]
      /\ IF inProgress[n] < Capacity
         THEN /\ inProgress' = [inProgress EXCEPT ![n] = @ + 1]
              /\ running' = [running EXCEPT ![n] = @ \union {c}]
         ELSE UNCHANGED <<inProgress, running>>
      /\ UNCHANGED <<owner, registryVars, workVars, doomed, session, ranked,
                     orphans, leaked, upVars, acks, unanswered>>

(* TASK_ASSIGNMENT arrives and its execution is spawned, however many are  *)
(* in progress.                                                            *)
ReceiveAssignment(n, c) ==
  LET s == session[n]
  IN  /\ s # NoSocket
      /\ c \in assigned[s]
      /\ assigned' = [assigned EXCEPT ![s] = @ \ {c}]
      /\ inProgress' = [inProgress EXCEPT ![n] = @ + 1]
      /\ running' = [running EXCEPT ![n] = @ \union {c}]
      /\ UNCHANGED <<owner, registryVars, workVars, doomed, session, ranked,
                     orphans, leaked, upVars, acks, unanswered>>

(* The execution ends, with an output or an error; both are reported.      *)
FinishExecution(n, c) ==
  LET s == session[n]
  IN  /\ c \in running[n]
      /\ running' = [running EXCEPT ![n] = @ \ {c}]
      /\ inProgress' = [inProgress EXCEPT ![n] = IF @ > 0 THEN @ - 1 ELSE 0]
      /\ reported' = IF s \in serverOpen
                     THEN [reported EXCEPT ![s] = @ \union {c}] ELSE reported
      /\ UNCHANGED <<owner, registryVars, workVars, doomed, session, ranked,
                     orphans, leaked, steals, downVars, unanswered>>

(* compute() returns an offset that execute_wasm_task does not check (a    *)
(* negative one is cast to a huge usize): the spawned task panics, without *)
(* a TASK_RESULT and without giving its place back.                        *)
ExecutionPanics(n, c) ==
  LET s == session[n]
  IN  /\ c \in running[n]
      /\ running' = [running EXCEPT ![n] = @ \ {c}]
      /\ leaked' = [leaked EXCEPT ![n] = @ + 1]
      /\ unanswered' = IF s \in serverOpen
                       THEN [unanswered EXCEPT ![s] = @ \union {c}]
                       ELSE unanswered
      /\ UNCHANGED <<owner, registryVars, workVars, doomed, session, ranked,
                     inProgress, orphans, upVars, downVars>>

(* Mutant: the result of an old session is sent on the present one. *)
FinishOrphanResend(n, c) ==
  LET s == session[n]
  IN  /\ orphans[n][c] > 0
      /\ orphans' = [orphans EXCEPT ![n][c] = @ - 1]
      /\ inProgress' = [inProgress EXCEPT ![n] = IF @ > 0 THEN @ - 1 ELSE 0]
      /\ reported' = IF s \in registered
                     THEN [reported EXCEPT ![s] = @ \union {c}] ELSE reported
      /\ UNCHANGED <<owner, registryVars, workVars, doomed, session, ranked,
                     running, leaked, steals, downVars, unanswered>>

(* Mutant: an execution whose session is over gives its place back to      *)
(* nobody.                                                                 *)
FinishOrphanLeaks(n, c) ==
  /\ orphans[n][c] > 0
  /\ orphans' = [orphans EXCEPT ![n][c] = @ - 1]
  /\ UNCHANGED <<owner, registryVars, workVars, doomed, session, ranked,
                 running, inProgress, leaked, upVars, downVars, unanswered>>

(* An execution that outlived its session ends: its channel is closed, and *)
(* the result is dropped.                                                  *)
FinishOrphan(n, c) ==
  /\ orphans[n][c] > 0
  /\ orphans' = [orphans EXCEPT ![n][c] = @ - 1]
  /\ inProgress' = [inProgress EXCEPT ![n] = IF @ > 0 THEN @ - 1 ELSE 0]
  /\ UNCHANGED <<owner, registryVars, workVars, doomed, session, ranked,
                 running, leaked, upVars, downVars, unanswered>>

OrphanPanics(n, c) ==
  /\ orphans[n][c] > 0
  /\ orphans' = [orphans EXCEPT ![n][c] = @ - 1]
  /\ leaked' = [leaked EXCEPT ![n] = @ + 1]
  /\ UNCHANGED <<owner, registryVars, workVars, doomed, session, ranked,
                 inProgress, running, upVars, downVars, unanswered>>

(* handleTaskResult: the clone leaves the connection, and the engine gets  *)
(* the result without a look at who held the clone.                        *)
TaskResult(s, c) ==
  /\ c \in reported[s]
  /\ reported' = [reported EXCEPT ![s] = @ \ {c}]
  /\ activeClones' = [activeClones EXCEPT ![s] = @ \ {c}]
  /\ answers' = [answers EXCEPT ![c] = @ + 1]
  /\ UNCHANGED <<owner, registryVars, sending, available, doomed, daemonVars,
                 steals, downVars, unanswered>>

-----------------------------------------------------------------------------
Next ==
  \/ \E n \in Nodes, s \in Sockets : Connect(n, s)
  \/ \E s \in Sockets : NodeRegister(s) \/ EnterRegistry(s) \/ AckRegistration(s)
       \/ ConnectionLost(s) \/ HeartbeatTimeout(s) \/ IdleTimeout(s) \/ TaskSteal(s)
  \/ \E n \in Nodes : ReceiveAck(n) \/ SessionEnds(n) \/ StealLoop(n)
  \/ \E s \in Sockets, c \in Clones : SendAssignment(s, c) \/ TaskResult(s, c)
  \/ \E n \in Nodes, c \in Clones : ReceiveAssignment(n, c)
       \/ FinishExecution(n, c) \/ ExecutionPanics(n, c)
       \/ FinishOrphan(n, c) \/ OrphanPanics(n, c)
  \/ CrashAndRestart

Spec == Init /\ [][Next]_vars

(* Messages on an open connection arrive, suspended handlers are resumed,  *)
(* executions end, one way or the other (their fuel is limited), the       *)
(* library times out dead peers and a daemon finds that the other end is   *)
(* gone when it sends its next heartbeat.  Nothing makes the network fail, *)
(* the process die or the heartbeat monitor act.                           *)
Fairness ==
  /\ \A s \in Sockets :
       /\ WF_vars(NodeRegister(s)) /\ WF_vars(EnterRegistry(s))
       /\ WF_vars(AckRegistration(s)) /\ WF_vars(IdleTimeout(s))
       /\ WF_vars(TaskSteal(s))
       /\ \A c \in Clones : WF_vars(SendAssignment(s, c)) /\ WF_vars(TaskResult(s, c))
  /\ \A n \in Nodes :
       /\ WF_vars(ReceiveAck(n)) /\ WF_vars(StealLoop(n))
       /\ WF_vars(session[n] \notin serverOpen /\ SessionEnds(n))
       /\ \A c \in Clones : /\ WF_vars(ReceiveAssignment(n, c))
                            /\ WF_vars(FinishExecution(n, c) \/ ExecutionPanics(n, c))
                            /\ WF_vars(FinishOrphan(n, c) \/ OrphanPanics(n, c))

FairSpec == Spec /\ Fairness

-----------------------------------------------------------------------------
(* The registry never holds a socket that was closed, or that belongs to   *)
(* another node: the heartbeat monitor and the senders use its entries     *)
(* without a check (ws/server.ts:165), and a closed socket would throw.    *)
RegistryLive ==
  \A n \in Nodes : connectedNodes[n] # NoSocket =>
    connectedNodes[n] \in registered /\ owner[connectedNodes[n]] = n

(* Both ends agree on the work as long as both are open: what the          *)
(* orchestrator counts as active on a connection is what its daemon was    *)
(* sent in that session and has not been heard of since; the rest was      *)
(* dropped by a send or lost in a panic (handlers.ts:276, client.rs:406),  *)
(* and there is nothing of which both are true.                            *)
WorkAgreed ==
  \A n \in Nodes, s \in Sockets : session[n] = s /\ s \in serverOpen =>
    LET alive == sending[s] \union assigned[s] \union running[n] \union reported[s]
    IN  activeClones[s] = alive \union unanswered[s] /\ alive \intersect unanswered[s] = {}

(* A clone is available or active on at most one connection, and no clone  *)
(* is answered twice, although daemons still execute clones that were      *)
(* taken from them and given to others (client.rs:439).                    *)
OneAnswer ==
  /\ \A c \in Clones : answers[c] <= 1 /\ (answers[c] = 1 => c \notin available)
  /\ \A s, u \in Sockets : \A c \in activeClones[s] :
       /\ answers[c] = 0 /\ c \notin available
       /\ c \in activeClones[u] => s = u

(* A steal or a result never arrives on a socket that is not registered,   *)
(* so no handler answers NOT_REGISTERED: the daemon forgets its tier with  *)
(* the session (client.rs:165) and waits for the next ack.                 *)
StealsRegistered ==
  \A s \in Sockets : steals[s] > 0 \/ reported[s] # {} =>
    s \in registered /\ owner[s] \in Trusted \intersect Profiled

(* tasks_in_progress is the number of executions of all sessions, and of   *)
(* those that panicked: the saturating subtraction never hides a miscount  *)
(* of any other kind (client.rs:446).                                      *)
InProgressExact ==
  \A n \in Nodes :
    inProgress[n] = Cardinality(running[n]) + leaked[n]
                    + FoldFunction(LAMBDA k, m : k + m, 0, orphans[n])

(* A clone does not stay with a connection: it is answered, or it returns  *)
(* to the queue when the connection turns out to be dead, even if the node *)
(* has replaced the connection or dropped out of the registry.  The        *)
(* exception is a clone that nobody works on.                              *)
HeldIsSettled ==
  \A s \in Sockets, c \in Clones :
    c \in activeClones[s] ~> c \notin activeClones[s] \/ c \in unanswered[s]

(* With a daemon connected and ranked from some point on, and not all its  *)
(* places leaked by panics, all the work is taken, whatever sessions it    *)
(* lost before.                                                            *)
WorkFlows ==
  (\E n \in Nodes : <>[](ranked[n] /\ session[n] \in serverOpen /\ leaked[n] < Capacity))
    => <>(available = {})
=============================================================================
