----------------------------- MODULE Fleet_proofs -----------------------------
(***************************************************************************)
(* Theorems about module Fleet, for any daemons, sockets and work.         *)
(***************************************************************************)
EXTENDS Fleet, FiniteSetTheorems, WellFoundedInduction, TLAPS

(* An open socket has an owner; a handler that has not finished is one of  *)
(* an open socket; a socket that got past the token is a trusted daemon's, *)
(* and only a registered one has clones.                                   *)
SocketInv ==
  \A s \in Sockets :
    /\ s \in serverOpen => owner[s] \in Nodes
    /\ registering[s] # "idle" => s \in serverOpen
    /\ registering[s] = "pairing" => s \in registered
    /\ registering[s] = "row" \/ s \in registered => owner[s] \in Trusted
    /\ activeClones[s] # {} => s \in registered

(* What a daemon has of a session goes with the session. *)
SessionInv ==
  /\ \A n \in Nodes :
       /\ session[n] # NoSocket => owner[session[n]] = n
       /\ ranked[n] \/ running[n] # {} => session[n] # NoSocket
  /\ \A s \in Sockets : acks[s] # "none" \/ assigned[s] # {} => DaemonOpen(s)

(* The orchestrator may have closed the socket, but not forgotten the      *)
(* registration of one it holds open.                                      *)
MayWork(s) == owner[s] \in Trusted \intersect Profiled /\ (s \in serverOpen => s \in registered)

(* A tier, a steal, an assignment and an execution come one after another, *)
(* so whoever has one of them was registered with a profile.               *)
RankInv ==
  /\ \A s \in Sockets :
       /\ acks[s] = "ranked" \/ assigned[s] # {} => MayWork(s)
       /\ steals[s] > 0 \/ reported[s] # {} => s \in serverOpen /\ MayWork(s)
       /\ sending[s] # {} => MayWork(s)
  /\ \A n \in Nodes : ranked[n] \/ running[n] # {} => MayWork(session[n])

(* A clone goes from the orchestrator's handler to the daemon, its         *)
(* execution and back, or gets lost on the way, and is in one of these at  *)
(* a time.                                                                 *)
WorkInv ==
  /\ \A s \in Sockets :
       /\ sending[s] \union reported[s] \union unanswered[s] \subseteq activeClones[s]
       /\ sending[s] \intersect reported[s] = {}
       /\ (sending[s] \union reported[s]) \intersect unanswered[s] = {}
  /\ \A n \in Nodes, s \in Sockets : session[n] = s /\ s \in serverOpen =>
       /\ activeClones[s] = sending[s] \union assigned[s] \union running[n] \union reported[s]
                               \union unanswered[s]
       /\ (sending[s] \union reported[s] \union unanswered[s])
            \intersect (assigned[s] \union running[n]) = {}
       /\ assigned[s] \intersect running[n] = {}

IInv ==
  /\ TypeOK /\ SocketInv /\ SessionInv /\ RankInv /\ WorkInv /\ OneAnswer /\ RegistryLive

LEMMA InitIInv == Init => IInv
<1> SUFFICES ASSUME Init PROVE IInv
  OBVIOUS
<1> USE FleetAssumption
<1>1. TypeOK
  <2>1. /\ orphans \in [Nodes -> [Clones -> Nat]] /\ inProgress \in [Nodes -> Nat]
        /\ ranked \in [Nodes -> BOOLEAN] /\ running \in [Nodes -> SUBSET Clones]
    BY DEF Init
  <2>2. steals \in [Sockets -> 0 .. MaxSteals] /\ answers \in [Clones -> Nat]
    BY DEF Init
  <2>3. QED
    BY <2>2 DEF Init, TypeOK, Stages, Acks
<1>2. SocketInv
  BY DEF Init, SocketInv
<1>3. SessionInv
  BY DEF Init, SessionInv
<1>4. RankInv
  BY DEF Init, RankInv
<1>5. WorkInv
  BY DEF Init, WorkInv
<1>6. OneAnswer
  BY DEF Init, OneAnswer
<1>7. RegistryLive
  BY DEF Init, RegistryLive
<1>8. QED
  BY <1>1, <1>2, <1>3, <1>4, <1>5, <1>6, <1>7 DEF IInv

LEMMA NextIInv == IInv /\ [Next]_vars => IInv'
<1> SUFFICES ASSUME IInv, [Next]_vars PROVE IInv'
  OBVIOUS
<1> USE FleetAssumption DEF registryVars, workVars, daemonVars, upVars, downVars
<1>0. TypeOK /\ SocketInv /\ SessionInv /\ RankInv /\ WorkInv /\ OneAnswer /\ RegistryLive
  BY DEF IInv
<1>1. ASSUME NEW n \in Nodes, NEW s \in Sockets, Connect(n, s) PROVE IInv'
  <2>1. TypeOK'
    BY <1>0, <1>1 DEF Connect, TypeOK, Stages, DaemonOpen
  <2>2. SocketInv'
    BY <1>0, <1>1 DEF Connect, SocketInv, TypeOK, DaemonOpen
  <2>3. SessionInv'
    BY <1>0, <1>1 DEF Connect, SessionInv, TypeOK, DaemonOpen
  <2>4. RankInv'
    BY <1>0, <1>1 DEF Connect, RankInv, MayWork, SessionInv
  <2>5. WorkInv'
    BY <1>0, <1>1 DEF Connect, WorkInv, DaemonOpen, SocketInv, SessionInv
  <2>6. OneAnswer'
    BY <1>0, <1>1 DEF Connect, OneAnswer
  <2>7. RegistryLive'
    BY <1>0, <1>1 DEF Connect, RegistryLive
  <2>8. QED
    BY <2>1, <2>2, <2>3, <2>4, <2>5, <2>6, <2>7 DEF IInv
<1>2. ASSUME NEW s \in Sockets, NodeRegister(s) PROVE IInv'
  <2>1. TypeOK'
    <3>1. owner' \in [Sockets -> Nodes \union {NoNode}]
      BY <1>0, <1>2 DEF NodeRegister, TypeOK
    <3>2. registering' \in [Sockets -> Stages] /\ acks' \in [Sockets -> Acks]
      BY <1>0, <1>2 DEF NodeRegister, TypeOK, Stages, Acks
    <3>3. registered' \subseteq serverOpen' /\ serverOpen' \subseteq Sockets
      BY <1>0, <1>2 DEF NodeRegister, TypeOK, SocketInv
    <3>4. UNCHANGED <<connectedNodes, workVars, doomed, daemonVars, upVars, assigned, unanswered>>
      BY <1>2 DEF NodeRegister
    <3>5. QED
      BY <1>0, <3>1, <3>2, <3>3, <3>4 DEF TypeOK
  <2>2. SocketInv'
    BY <1>0, <1>2 DEF NodeRegister, SocketInv, TypeOK
  <2>3. SessionInv'
    BY <1>0, <1>2 DEF NodeRegister, SessionInv, TypeOK, DaemonOpen, SocketInv
  <2>4. RankInv'
    <3>1. \A u \in Sockets : acks'[u] = "ranked" \/ assigned'[u] # {} => MayWork(u)'
      BY <1>0, <1>2 DEF NodeRegister, TypeOK, RankInv, MayWork
    <3>2. \A u \in Sockets : steals'[u] > 0 \/ reported'[u] # {} => u \in serverOpen' /\ MayWork(u)'
      BY <1>0, <1>2 DEF NodeRegister, TypeOK, RankInv, MayWork
    <3>3. \A u \in Sockets : sending'[u] # {} => MayWork(u)'
      BY <1>0, <1>2 DEF NodeRegister, TypeOK, RankInv, MayWork
    <3>4. \A m \in Nodes : ranked'[m] \/ running'[m] # {} => MayWork(session[m])'
      <4>1. ASSUME NEW m \in Nodes, ranked[m] \/ running[m] # {}
            PROVE  session[m] \in Sockets /\ MayWork(session[m])
        BY <1>0, <4>1 DEF TypeOK, SessionInv, RankInv
      <4>2. UNCHANGED <<session, ranked, running, registered>>
        BY <1>2 DEF NodeRegister
      <4>3. \A u \in Sockets : MayWork(u) => owner'[u] = owner[u] /\ (u \in serverOpen' => u \in serverOpen)
        BY <1>0, <1>2 DEF NodeRegister, TypeOK, MayWork
      <4>4. QED
        BY <4>1, <4>2, <4>3 DEF MayWork
    <3>5. QED
      BY <3>1, <3>2, <3>3, <3>4 DEF RankInv
  <2>5. WorkInv'
    BY <1>0, <1>2 DEF NodeRegister, WorkInv
  <2>6. OneAnswer'
    BY <1>0, <1>2 DEF NodeRegister, OneAnswer
  <2>7. RegistryLive'
    BY <1>0, <1>2 DEF NodeRegister, RegistryLive, TypeOK, SocketInv
  <2>8. QED
    BY <2>1, <2>2, <2>3, <2>4, <2>5, <2>6, <2>7 DEF IInv
<1>3. ASSUME NEW s \in Sockets, EnterRegistry(s) PROVE IInv'
  <2>1. TypeOK'
    <3>1. registering' \in [Sockets -> Stages] /\ acks' \in [Sockets -> Acks]
      BY <1>0, <1>3 DEF EnterRegistry, SendAck, TypeOK, Stages, Acks
    <3>2. registered' \subseteq serverOpen' /\ serverOpen' \subseteq Sockets
      BY <1>0, <1>3 DEF EnterRegistry, TypeOK, SocketInv
    <3>3. connectedNodes' \in [Nodes -> Sockets \union {NoSocket}]
      <4>1. owner[s] \in Nodes
        BY <1>0, <1>3 DEF EnterRegistry, SocketInv
      <4>2. connectedNodes \in [Nodes -> Sockets \union {NoSocket}]
        BY <1>0 DEF TypeOK
      <4>3. connectedNodes' = connectedNodes \/ connectedNodes' = [connectedNodes EXCEPT ![owner[s]] = s]
        BY <1>3 DEF EnterRegistry
      <4>4. QED
        BY <4>1, <4>2, <4>3
    <3>4. UNCHANGED <<owner, workVars, doomed, daemonVars, upVars, assigned, unanswered>>
      BY <1>3 DEF EnterRegistry
    <3>5. QED
      BY <1>0, <3>1, <3>2, <3>3, <3>4 DEF TypeOK
  <2>2. SocketInv'
    BY <1>0, <1>3 DEF EnterRegistry, SocketInv, TypeOK
  <2>3. SessionInv'
    BY <1>0, <1>3 DEF EnterRegistry, SendAck, SessionInv, TypeOK, DaemonOpen
  <2>4. RankInv'
    BY <1>0, <1>3 DEF EnterRegistry, SendAck, RankInv, TypeOK, MayWork
  <2>5. WorkInv'
    BY <1>0, <1>3 DEF EnterRegistry, WorkInv
  <2>6. OneAnswer'
    BY <1>0, <1>3 DEF EnterRegistry, OneAnswer
  <2>7. RegistryLive'
    <3>1. owner[s] \in Nodes /\ owner' = owner
      BY <1>0, <1>3 DEF EnterRegistry, SocketInv
    <3>2. \/ registered' = registered /\ connectedNodes' = connectedNodes
          \/ /\ registered' = registered \union {s}
             /\ connectedNodes' = [connectedNodes EXCEPT ![owner[s]] = s]
      BY <1>3 DEF EnterRegistry
    <3>3. connectedNodes \in [Nodes -> Sockets \union {NoSocket}]
      BY <1>0 DEF TypeOK
    <3>4. QED
      BY <1>0, <3>1, <3>2, <3>3 DEF RegistryLive
  <2>8. QED
    BY <2>1, <2>2, <2>3, <2>4, <2>5, <2>6, <2>7 DEF IInv
<1>4. ASSUME NEW s \in Sockets, AckRegistration(s) PROVE IInv'
  <2>1. TypeOK'
    BY <1>0, <1>4 DEF AckRegistration, SendAck, TypeOK, Stages, Acks
  <2>2. SocketInv'
    BY <1>0, <1>4 DEF AckRegistration, SocketInv
  <2>3. SessionInv'
    BY <1>0, <1>4 DEF AckRegistration, SendAck, SessionInv, TypeOK, DaemonOpen
  <2>4. RankInv'
    BY <1>0, <1>4 DEF AckRegistration, SendAck, RankInv, TypeOK, MayWork, SocketInv
  <2>5. WorkInv'
    BY <1>0, <1>4 DEF AckRegistration, WorkInv
  <2>6. OneAnswer'
    BY <1>0, <1>4 DEF AckRegistration, OneAnswer
  <2>7. RegistryLive'
    BY <1>0, <1>4 DEF AckRegistration, RegistryLive
  <2>8. QED
    BY <2>1, <2>2, <2>3, <2>4, <2>5, <2>6, <2>7 DEF IInv
<1>5. ASSUME NEW s \in Sockets, HandleClose(s) PROVE IInv'
  <2>1. TypeOK'
    <3>1. owner' \in [Sockets -> Nodes \union {NoNode}] /\ doomed' \in BOOLEAN
      BY <1>0, <1>5 DEF HandleClose, TypeOK
    <3>2. registering' \in [Sockets -> Stages]
      BY <1>0, <1>5 DEF HandleClose, TypeOK, Stages
    <3>3. registered' \subseteq serverOpen' /\ serverOpen' \subseteq Sockets
      BY <1>0, <1>5 DEF HandleClose, Forget, TypeOK
    <3>4. connectedNodes' \in [Nodes -> Sockets \union {NoSocket}]
      BY <1>0, <1>5 DEF HandleClose, TypeOK
    <3>5. /\ activeClones' \in [Sockets -> SUBSET Clones] /\ sending' \in [Sockets -> SUBSET Clones]
           /\ reported' \in [Sockets -> SUBSET Clones] /\ available' \subseteq Clones
           /\ unanswered' \in [Sockets -> SUBSET Clones]
      BY <1>0, <1>5 DEF HandleClose, Requeue, TypeOK
    <3>6. steals' \in [Sockets -> 0 .. MaxSteals]
      BY <1>0, <1>5 DEF HandleClose, TypeOK
    <3>7. UNCHANGED <<answers, daemonVars, downVars>>
      BY <1>5 DEF HandleClose
    <3>8. QED
      BY <1>0, <3>1, <3>2, <3>3, <3>4, <3>5, <3>6, <3>7 DEF TypeOK
  <2>2. SocketInv'
    BY <1>0, <1>5 DEF HandleClose, Forget, SocketInv, TypeOK
  <2>3. SessionInv'
    BY <1>0, <1>5 DEF HandleClose, SessionInv, DaemonOpen
  <2>4. RankInv'
    BY <1>0, <1>5
    DEF HandleClose, Forget, RankInv, TypeOK, MayWork, DaemonOpen, SessionInv
  <2>5. WorkInv'
    BY <1>0, <1>5 DEF HandleClose, WorkInv, TypeOK
  <2>6. OneAnswer'
    BY <1>0, <1>5 DEF HandleClose, Requeue, OneAnswer, TypeOK
  <2>7. RegistryLive'
    BY <1>0, <1>5 DEF HandleClose, Forget, RegistryLive, TypeOK
  <2>8. QED
    BY <2>1, <2>2, <2>3, <2>4, <2>5, <2>6, <2>7 DEF IInv
<1>6. ASSUME NEW s \in Sockets, TaskSteal(s) PROVE IInv'
  <2>1. ASSUME NEW c \in available, available' = available \ {c},
               activeClones' = [activeClones EXCEPT ![s] = @ \union {c}],
               sending' = [sending EXCEPT ![s] = @ \union {c}]
        PROVE  IInv'
    <3>0. /\ s \in registered /\ s \in serverOpen /\ MayWork(s)
          /\ c \in Clones /\ answers[c] = 0 /\ \A u \in Sockets : c \notin activeClones[u]
      <4>1. steals[s] > 0
        BY <1>6 DEF TaskSteal
      <4>2. s \in serverOpen /\ MayWork(s)
        BY <1>0, <4>1 DEF RankInv
      <4>3. c \in Clones /\ answers[c] = 0
        <5>1. c \in Clones /\ answers[c] \in Nat
          BY <1>0 DEF TypeOK
        <5>2. QED
          BY <1>0, <5>1 DEF OneAnswer
      <4>4. \A u \in Sockets : c \notin activeClones[u]
        BY <1>0 DEF OneAnswer
      <4>5. QED
        BY <4>2, <4>3, <4>4 DEF MayWork
    <3>1. TypeOK'
      <4>1. steals' \in [Sockets -> 0 .. MaxSteals]
        BY <1>0, <1>6 DEF TaskSteal, TypeOK
      <4>2. activeClones' \in [Sockets -> SUBSET Clones] /\ sending' \in [Sockets -> SUBSET Clones]
        BY <1>0, <2>1 DEF TypeOK
      <4>3. QED
        BY <1>0, <1>6, <2>1 DEF TaskSteal, TypeOK
    <3>2. SocketInv'
      BY <1>0, <1>6, <2>1, <3>0 DEF TaskSteal, SocketInv
    <3>3. SessionInv'
      BY <1>0, <1>6 DEF TaskSteal, SessionInv, DaemonOpen
    <3>4. RankInv'
      BY <1>0, <1>6, <2>1 DEF TaskSteal, RankInv, MayWork
    <3>5. WorkInv'
      <4>1. \A u \in Sockets :
              /\ sending'[u] \union reported'[u] \union unanswered'[u] \subseteq activeClones'[u]
              /\ sending'[u] \intersect reported'[u] = {}
              /\ (sending'[u] \union reported'[u]) \intersect unanswered'[u] = {}
        BY <1>0, <1>6, <2>1, <3>0 DEF TaskSteal, TypeOK, WorkInv
      <4>2. ASSUME NEW m \in Nodes, session[m] = s
            PROVE  /\ activeClones'[s] = sending'[s] \union assigned'[s] \union running'[m]
                                           \union reported'[s] \union unanswered'[s]
                   /\ (sending'[s] \union reported'[s] \union unanswered'[s])
                        \intersect (assigned'[s] \union running'[m]) = {}
                   /\ assigned'[s] \intersect running'[m] = {}
        BY <1>0, <1>6, <2>1, <3>0, <4>2 DEF TaskSteal, TypeOK, WorkInv
      <4>3. QED
        BY <1>0, <1>6, <2>1, <4>1, <4>2 DEF TaskSteal, WorkInv
    <3>6. OneAnswer'
      BY <1>0, <1>6, <2>1, <3>0 DEF TaskSteal, OneAnswer
    <3>7. RegistryLive'
      BY <1>0, <1>6 DEF TaskSteal, RegistryLive
    <3>8. QED
      BY <3>1, <3>2, <3>3, <3>4, <3>5, <3>6, <3>7 DEF IInv
  <2>2. CASE UNCHANGED <<available, activeClones, sending>>
    <3>1. TypeOK'
      BY <1>0, <1>6, <2>2 DEF TaskSteal, TypeOK
    <3>2. SocketInv' /\ SessionInv' /\ RankInv'
      BY <1>0, <1>6, <2>2
      DEF TaskSteal, SocketInv, SessionInv, RankInv, MayWork, DaemonOpen
    <3>3. WorkInv' /\ OneAnswer' /\ RegistryLive'
      BY <1>0, <1>6, <2>2 DEF TaskSteal, WorkInv, OneAnswer, RegistryLive
    <3>4. QED
      BY <3>1, <3>2, <3>3 DEF IInv
  <2>3. QED
    BY <1>6, <2>1, <2>2 DEF TaskSteal
<1>7. ASSUME NEW n \in Nodes, ReceiveAck(n) PROVE IInv'
  <2>1. TypeOK'
    BY <1>0, <1>7 DEF ReceiveAck, TypeOK, Acks, DaemonOpen
  <2>2. SocketInv'
    BY <1>0, <1>7 DEF ReceiveAck, SocketInv, DaemonOpen
  <2>3. SessionInv'
    BY <1>0, <1>7 DEF ReceiveAck, SessionInv, DaemonOpen
  <2>4. RankInv'
    BY <1>0, <1>7 DEF ReceiveAck, RankInv, TypeOK, MayWork
  <2>5. WorkInv'
    BY <1>0, <1>7 DEF ReceiveAck, WorkInv
  <2>6. OneAnswer'
    BY <1>0, <1>7 DEF ReceiveAck, OneAnswer
  <2>7. RegistryLive'
    BY <1>0, <1>7 DEF ReceiveAck, RegistryLive
  <2>8. QED
    BY <2>1, <2>2, <2>3, <2>4, <2>5, <2>6, <2>7 DEF IInv
<1>8. ASSUME NEW n \in Nodes, SessionEnds(n) PROVE IInv'
  <2>1. TypeOK'
    BY <1>0, <1>8 DEF SessionEnds, TypeOK, Acks, DaemonOpen
  <2>2. SocketInv'
    BY <1>0, <1>8 DEF SessionEnds, SocketInv, TypeOK, DaemonOpen
  <2>3. SessionInv'
    BY <1>0, <1>8 DEF SessionEnds, SessionInv, TypeOK, DaemonOpen
  <2>4. RankInv'
    <3>1. \A u \in Sockets : acks'[u] = "ranked" \/ assigned'[u] # {} => MayWork(u)'
      BY <1>0, <1>8 DEF SessionEnds, TypeOK, RankInv, MayWork
    <3>2. \A u \in Sockets : steals'[u] > 0 \/ reported'[u] # {} => u \in serverOpen' /\ MayWork(u)'
      BY <1>0, <1>8 DEF SessionEnds, RankInv, MayWork
    <3>3. \A u \in Sockets : sending'[u] # {} => MayWork(u)'
      BY <1>0, <1>8 DEF SessionEnds, TypeOK, RankInv, MayWork, SocketInv, WorkInv
    <3>4. \A m \in Nodes : ranked'[m] \/ running'[m] # {} => MayWork(session[m])'
      BY <1>0, <1>8 DEF SessionEnds, TypeOK, RankInv, MayWork, SessionInv
    <3>5. QED
      BY <3>1, <3>2, <3>3, <3>4 DEF RankInv
  <2>5. WorkInv'
    BY <1>0, <1>8 DEF SessionEnds, WorkInv, TypeOK, SessionInv
  <2>6. OneAnswer'
    BY <1>0, <1>8 DEF SessionEnds, OneAnswer
  <2>7. RegistryLive'
    BY <1>0, <1>8 DEF SessionEnds, RegistryLive, TypeOK
  <2>8. QED
    BY <2>1, <2>2, <2>3, <2>4, <2>5, <2>6, <2>7 DEF IInv
<1>9. ASSUME NEW n \in Nodes, StealLoop(n) PROVE IInv'
  <2>1. TypeOK'
    BY <1>0, <1>9 DEF StealLoop, TypeOK, DaemonOpen
  <2>2. SocketInv'
    BY <1>0, <1>9 DEF StealLoop, SocketInv, DaemonOpen
  <2>3. SessionInv'
    BY <1>0, <1>9 DEF StealLoop, SessionInv, DaemonOpen
  <2>4. RankInv'
    BY <1>0, <1>9 DEF StealLoop, RankInv, MayWork
  <2>5. WorkInv'
    BY <1>0, <1>9 DEF StealLoop, WorkInv
  <2>6. OneAnswer'
    BY <1>0, <1>9 DEF StealLoop, OneAnswer
  <2>7. RegistryLive'
    BY <1>0, <1>9 DEF StealLoop, RegistryLive
  <2>8. QED
    BY <2>1, <2>2, <2>3, <2>4, <2>5, <2>6, <2>7 DEF IInv
<1>10. ASSUME NEW s \in Sockets, NEW c \in Clones, SendAssignment(s, c) PROVE IInv'
  <2>0. /\ UNCHANGED <<owner, registryVars, available, activeClones, answers, doomed, daemonVars,
                       upVars, acks>>
        /\ c \in sending[s] /\ sending' = [sending EXCEPT ![s] = @ \ {c}]
        /\ \/ /\ DaemonOpen(s) /\ unanswered' = unanswered
              /\ assigned' = [assigned EXCEPT ![s] = @ \union {c}]
           \/ /\ assigned' = assigned
              /\ unanswered' = [unanswered EXCEPT ![s] = @ \union {c}]
    BY <1>10 DEF SendAssignment
  <2>1. TypeOK'
    <3>1. /\ sending' \in [Sockets -> SUBSET Clones] /\ assigned' \in [Sockets -> SUBSET Clones]
          /\ unanswered' \in [Sockets -> SUBSET Clones]
      <4>1. /\ sending \in [Sockets -> SUBSET Clones] /\ assigned \in [Sockets -> SUBSET Clones]
            /\ unanswered \in [Sockets -> SUBSET Clones]
        BY <1>0 DEF TypeOK
      <4>2. sending' \in [Sockets -> SUBSET Clones]
        BY <2>0, <4>1
      <4>3. assigned' \in [Sockets -> SUBSET Clones]
        BY <2>0, <4>1
      <4>4. unanswered' \in [Sockets -> SUBSET Clones]
        BY <2>0, <4>1
      <4>5. QED
        BY <4>2, <4>3, <4>4
    <3>2. QED
      BY <1>0, <2>0, <3>1 DEF TypeOK
  <2>2. SocketInv'
    BY <1>0, <1>10 DEF SendAssignment, SocketInv
  <2>3. SessionInv'
    BY <1>0, <2>0 DEF SessionInv, DaemonOpen, TypeOK
  <2>4. RankInv'
    BY <1>0, <2>0 DEF RankInv, MayWork, TypeOK
  <2>5. WorkInv'
    BY <1>0, <1>10
    DEF SendAssignment, WorkInv, TypeOK, DaemonOpen, SocketInv, SessionInv
  <2>6. OneAnswer'
    BY <1>0, <1>10 DEF SendAssignment, OneAnswer
  <2>7. RegistryLive'
    BY <1>0, <1>10 DEF SendAssignment, RegistryLive
  <2>8. QED
    BY <2>1, <2>2, <2>3, <2>4, <2>5, <2>6, <2>7 DEF IInv
<1>11. ASSUME NEW s \in Sockets, NEW c \in Clones, TaskResult(s, c) PROVE IInv'
  <2>1. TypeOK'
    BY <1>0, <1>11 DEF TaskResult, TypeOK, DaemonOpen
  <2>2. SocketInv'
    BY <1>0, <1>11 DEF TaskResult, SocketInv, DaemonOpen
  <2>3. SessionInv'
    BY <1>0, <1>11 DEF TaskResult, SessionInv, DaemonOpen
  <2>4. RankInv'
    BY <1>0, <1>11 DEF TaskResult, RankInv, MayWork
  <2>5. WorkInv'
    BY <1>0, <1>11 DEF TaskResult, WorkInv, TypeOK
  <2>6. OneAnswer'
    BY <1>0, <1>11 DEF TaskResult, OneAnswer, TypeOK, WorkInv
  <2>7. RegistryLive'
    BY <1>0, <1>11 DEF TaskResult, RegistryLive
  <2>8. QED
    BY <2>1, <2>2, <2>3, <2>4, <2>5, <2>6, <2>7 DEF IInv
<1>12. ASSUME NEW n \in Nodes, NEW c \in Clones, ReceiveAssignment(n, c) PROVE IInv'
  <2>1. TypeOK'
    BY <1>0, <1>12 DEF ReceiveAssignment, TypeOK, DaemonOpen
  <2>2. SocketInv'
    BY <1>0, <1>12 DEF ReceiveAssignment, SocketInv, DaemonOpen
  <2>3. SessionInv'
    BY <1>0, <1>12 DEF ReceiveAssignment, SessionInv, DaemonOpen
  <2>4. RankInv'
    BY <1>0, <1>12 DEF ReceiveAssignment, RankInv, TypeOK, MayWork
  <2>5. WorkInv'
    BY <1>0, <1>12 DEF ReceiveAssignment, WorkInv, TypeOK, SessionInv
  <2>6. OneAnswer'
    BY <1>0, <1>12 DEF ReceiveAssignment, OneAnswer
  <2>7. RegistryLive'
    BY <1>0, <1>12 DEF ReceiveAssignment, RegistryLive
  <2>8. QED
    BY <2>1, <2>2, <2>3, <2>4, <2>5, <2>6, <2>7 DEF IInv
<1>13. ASSUME NEW n \in Nodes, NEW c \in Clones, FinishExecution(n, c) PROVE IInv'
  <2>1. TypeOK'
    BY <1>0, <1>13 DEF FinishExecution, TypeOK, DaemonOpen
  <2>2. SocketInv'
    BY <1>0, <1>13 DEF FinishExecution, SocketInv, DaemonOpen
  <2>3. SessionInv'
    BY <1>0, <1>13 DEF FinishExecution, SessionInv, DaemonOpen
  <2>4. RankInv'
    BY <1>0, <1>13 DEF FinishExecution, RankInv, MayWork
  <2>5. WorkInv'
    <3>0. /\ UNCHANGED <<session, serverOpen, activeClones, sending, assigned, unanswered>>
          /\ running' = [running EXCEPT ![n] = @ \ {c}] /\ c \in running[n]
      BY <1>13 DEF FinishExecution
    <3>1. \A u \in Sockets : u \notin serverOpen \/ u # session[n] => reported'[u] = reported[u]
      BY <1>0, <1>13 DEF FinishExecution, TypeOK
    <3>2. session[n] \in serverOpen => reported'[session[n]] = reported[session[n]] \union {c}
      BY <1>0, <1>13 DEF FinishExecution, TypeOK
    <3>3. ASSUME NEW m \in Nodes, NEW u \in Sockets, session[m] = u, u \in serverOpen
          PROVE  /\ activeClones[u] = sending[u] \union assigned[u] \union running'[m]
                                        \union reported'[u] \union unanswered[u]
                 /\ (sending[u] \union reported'[u] \union unanswered[u])
                      \intersect (assigned[u] \union running'[m]) = {}
                 /\ assigned[u] \intersect running'[m] = {}
                 /\ sending[u] \intersect reported'[u] = {}
                 /\ (sending[u] \union reported'[u]) \intersect unanswered[u] = {}
      <4>1. /\ activeClones[u] = sending[u] \union assigned[u] \union running[m]
                                   \union reported[u] \union unanswered[u]
            /\ (sending[u] \union reported[u] \union unanswered[u])
                 \intersect (assigned[u] \union running[m]) = {}
            /\ assigned[u] \intersect running[m] = {} /\ sending[u] \intersect reported[u] = {}
            /\ (sending[u] \union reported[u]) \intersect unanswered[u] = {}
        BY <1>0, <3>3 DEF WorkInv
      <4>2. CASE m = n
        <5>1. running'[m] = running[m] \ {c} /\ reported'[u] = reported[u] \union {c}
          BY <1>0, <3>0, <3>2, <3>3, <4>2 DEF TypeOK
        <5>2. QED
          BY <3>0, <4>1, <4>2, <5>1
      <4>3. CASE m # n
        <5>1. running'[m] = running[m] /\ reported'[u] = reported[u]
          BY <1>0, <3>0, <3>1, <3>3, <4>3 DEF TypeOK, SessionInv
        <5>2. QED
          BY <4>1, <5>1
      <4>4. QED
        BY <4>2, <4>3
    <3>4. \A u \in Sockets :
            /\ sending[u] \union reported'[u] \union unanswered[u] \subseteq activeClones[u]
            /\ sending[u] \intersect reported'[u] = {}
            /\ (sending[u] \union reported'[u]) \intersect unanswered[u] = {}
      <4>1. ASSUME NEW u \in Sockets, reported'[u] # reported[u]
            PROVE  session[n] = u /\ u \in serverOpen
        BY <3>1, <4>1
      <4>2. QED
        BY <1>0, <3>3, <4>1 DEF WorkInv
    <3>5. QED
      BY <3>0, <3>3, <3>4 DEF WorkInv
  <2>6. OneAnswer'
    BY <1>0, <1>13 DEF FinishExecution, OneAnswer
  <2>7. RegistryLive'
    BY <1>0, <1>13 DEF FinishExecution, RegistryLive
  <2>8. QED
    BY <2>1, <2>2, <2>3, <2>4, <2>5, <2>6, <2>7 DEF IInv
<1>14. ASSUME NEW n \in Nodes, NEW c \in Clones, FinishOrphan(n, c) PROVE IInv'
  <2>1. TypeOK'
    BY <1>0, <1>14 DEF FinishOrphan, TypeOK, DaemonOpen
  <2>2. SocketInv'
    BY <1>0, <1>14 DEF FinishOrphan, SocketInv, DaemonOpen
  <2>3. SessionInv'
    BY <1>0, <1>14 DEF FinishOrphan, SessionInv, DaemonOpen
  <2>4. RankInv'
    BY <1>0, <1>14 DEF FinishOrphan, RankInv, MayWork
  <2>5. WorkInv'
    BY <1>0, <1>14 DEF FinishOrphan, WorkInv
  <2>6. OneAnswer'
    BY <1>0, <1>14 DEF FinishOrphan, OneAnswer
  <2>7. RegistryLive'
    BY <1>0, <1>14 DEF FinishOrphan, RegistryLive
  <2>8. QED
    BY <2>1, <2>2, <2>3, <2>4, <2>5, <2>6, <2>7 DEF IInv
<1>15. ASSUME CrashAndRestart PROVE IInv'
  <2>1. TypeOK'
    <3>1. owner' \in [Sockets -> Nodes \union {NoNode}]
      BY <1>0, <1>15 DEF CrashAndRestart, TypeOK
    <3>2. registering' \in [Sockets -> Stages] /\ registered' \subseteq serverOpen' /\ serverOpen' \subseteq Sockets
      BY <1>15 DEF CrashAndRestart, Stages
    <3>3. connectedNodes' \in [Nodes -> Sockets \union {NoSocket}] /\ doomed' \in BOOLEAN
      BY <1>15 DEF CrashAndRestart
    <3>4. /\ activeClones' \in [Sockets -> SUBSET Clones] /\ sending' \in [Sockets -> SUBSET Clones]
           /\ reported' \in [Sockets -> SUBSET Clones] /\ available' \subseteq Clones
           /\ unanswered' \in [Sockets -> SUBSET Clones]
      BY <1>15 DEF CrashAndRestart
    <3>5. steals' \in [Sockets -> 0 .. MaxSteals]
      BY <1>15 DEF CrashAndRestart
    <3>6. UNCHANGED <<answers, daemonVars, downVars>>
      BY <1>15 DEF CrashAndRestart
    <3>7. QED
      BY <1>0, <3>1, <3>2, <3>3, <3>4, <3>5, <3>6 DEF TypeOK
  <2>2. SocketInv'
    BY <1>15 DEF CrashAndRestart, SocketInv
  <2>3. SessionInv'
    BY <1>0, <1>15 DEF CrashAndRestart, SessionInv, TypeOK, DaemonOpen
  <2>4. RankInv'
    BY <1>0, <1>15 DEF CrashAndRestart, RankInv, TypeOK, MayWork, DaemonOpen, SessionInv
  <2>5. WorkInv'
    BY <1>15 DEF CrashAndRestart, WorkInv
  <2>6. OneAnswer'
    BY <1>0, <1>15 DEF CrashAndRestart, OneAnswer
  <2>7. RegistryLive'
    BY <1>15 DEF CrashAndRestart, RegistryLive
  <2>8. QED
    BY <2>1, <2>2, <2>3, <2>4, <2>5, <2>6, <2>7 DEF IInv
<1>16. ASSUME UNCHANGED vars PROVE IInv'
  <2>1. TypeOK'
    BY <1>0, <1>16 DEF vars, TypeOK, DaemonOpen
  <2>2. SocketInv'
    BY <1>0, <1>16 DEF vars, SocketInv, DaemonOpen
  <2>3. SessionInv'
    BY <1>0, <1>16 DEF vars, SessionInv, DaemonOpen
  <2>4. RankInv'
    BY <1>0, <1>16 DEF vars, RankInv, MayWork
  <2>5. WorkInv'
    BY <1>0, <1>16 DEF vars, WorkInv
  <2>6. OneAnswer'
    BY <1>0, <1>16 DEF vars, OneAnswer
  <2>7. RegistryLive'
    BY <1>0, <1>16 DEF vars, RegistryLive
  <2>8. QED
    BY <2>1, <2>2, <2>3, <2>4, <2>5, <2>6, <2>7 DEF IInv
<1>17. ASSUME NEW n \in Nodes, NEW c \in Clones, ExecutionPanics(n, c) PROVE IInv'
  <2>0. /\ UNCHANGED <<owner, registryVars, workVars, doomed, session, ranked,
                       inProgress, orphans, upVars, downVars>>
        /\ c \in running[n] /\ running' = [running EXCEPT ![n] = @ \ {c}]
        /\ leaked' = [leaked EXCEPT ![n] = @ + 1]
        /\ unanswered' = IF session[n] \in serverOpen
                         THEN [unanswered EXCEPT ![session[n]] = @ \union {c}]
                         ELSE unanswered
    BY <1>17 DEF ExecutionPanics
  <2>1. TypeOK'
    BY <1>0, <2>0 DEF TypeOK
  <2>2. SocketInv' /\ SessionInv'
    BY <1>0, <2>0 DEF TypeOK, SocketInv, SessionInv, DaemonOpen
  <2>3. RankInv'
    BY <1>0, <2>0 DEF TypeOK, RankInv, MayWork
  <2>4. WorkInv'
    <3>1. ASSUME NEW u \in Sockets, session[n] = u, u \in serverOpen
          PROVE  /\ unanswered'[u] = unanswered[u] \union {c}
                 /\ running'[n] = running[n] \ {c}
                 /\ \A m \in Nodes : session[m] = u => m = n
      BY <1>0, <2>0, <3>1 DEF TypeOK, SessionInv
    <3>2. ASSUME NEW u \in Sockets, ~(session[n] = u /\ u \in serverOpen)
          PROVE  /\ unanswered'[u] = unanswered[u]
                 /\ \A m \in Nodes : session[m] = u /\ u \in serverOpen =>
                      running'[m] = running[m]
      BY <1>0, <2>0, <3>2 DEF TypeOK
    <3>3. ASSUME NEW u \in Sockets
          PROVE  /\ sending[u] \union reported[u] \union unanswered'[u] \subseteq activeClones[u]
                 /\ sending[u] \intersect reported[u] = {}
                 /\ (sending[u] \union reported[u]) \intersect unanswered'[u] = {}
      BY <1>0, <2>0, <3>1, <3>2 DEF WorkInv
    <3>4. ASSUME NEW m \in Nodes, NEW u \in Sockets, session[m] = u, u \in serverOpen
          PROVE  /\ activeClones[u] = sending[u] \union assigned[u] \union running'[m]
                                        \union reported[u] \union unanswered'[u]
                 /\ (sending[u] \union reported[u] \union unanswered'[u])
                      \intersect (assigned[u] \union running'[m]) = {}
                 /\ assigned[u] \intersect running'[m] = {}
      <4>1. /\ activeClones[u] = sending[u] \union assigned[u] \union running[m]
                                   \union reported[u] \union unanswered[u]
            /\ (sending[u] \union reported[u] \union unanswered[u])
                 \intersect (assigned[u] \union running[m]) = {}
            /\ assigned[u] \intersect running[m] = {}
        BY <1>0, <3>4 DEF WorkInv
      <4>2. CASE session[n] = u
        BY <2>0, <3>1, <3>4, <4>1, <4>2
      <4>3. CASE session[n] # u
        BY <3>2, <3>4, <4>1, <4>3
      <4>4. QED
        BY <4>2, <4>3
    <3>5. QED
      BY <2>0, <3>3, <3>4 DEF WorkInv
  <2>5. OneAnswer' /\ RegistryLive'
    BY <1>0, <2>0 DEF OneAnswer, RegistryLive
  <2>6. QED
    BY <2>1, <2>2, <2>3, <2>4, <2>5 DEF IInv
<1>18. ASSUME NEW n \in Nodes, NEW c \in Clones, OrphanPanics(n, c) PROVE IInv'
  <2>1. TypeOK'
    BY <1>0, <1>18 DEF OrphanPanics, TypeOK
  <2>2. SocketInv' /\ SessionInv'
    BY <1>0, <1>18 DEF OrphanPanics, SocketInv, SessionInv, DaemonOpen
  <2>3. RankInv'
    BY <1>0, <1>18 DEF OrphanPanics, RankInv, MayWork
  <2>4. WorkInv' /\ OneAnswer' /\ RegistryLive'
    BY <1>0, <1>18 DEF OrphanPanics, WorkInv, OneAnswer, RegistryLive
  <2>5. QED
    BY <2>1, <2>2, <2>3, <2>4 DEF IInv
<1>19. QED
  BY <1>1, <1>2, <1>3, <1>4, <1>5, <1>6, <1>7, <1>8, <1>9, <1>10, <1>11, <1>12, <1>13,
     <1>14, <1>15, <1>16, <1>17, <1>18
  DEF Next, ConnectionLost, HeartbeatTimeout, IdleTimeout

(* Both ends keep to their types; no session has more steals under way     *)
(* than the bound.                                                         *)
THEOREM TypeCorrect == Spec => []TypeOK
<1>1. IInv => TypeOK
  BY DEF IInv
<1>2. QED
  BY <1>1, InitIInv, NextIInv, PTL DEF Spec

(* However connections are replaced and closed, the registry holds open,   *)
(* registered sockets under the node that opened them.                     *)
THEOREM RegistryStaysLive == Spec => []RegistryLive
<1>1. IInv => RegistryLive
  BY DEF IInv
<1>2. QED
  BY <1>1, InitIInv, NextIInv, PTL DEF Spec

(* No daemon steals or reports on a socket the orchestrator has not        *)
(* registered.                                                             *)
THEOREM StealsAreRegistered == Spec => []StealsRegistered
<1>1. IInv => StealsRegistered
  BY DEF IInv, RankInv, MayWork, StealsRegistered
<1>2. QED
  BY <1>1, InitIInv, NextIInv, PTL DEF Spec

(* Both ends of an open connection have the same work in mind, except for  *)
(* clones whose assignment was dropped or whose execution panicked.        *)
THEOREM WorkIsAgreed == Spec => []WorkAgreed
<1>1. IInv => WorkAgreed
  BY DEF IInv, WorkInv, WorkAgreed
<1>2. QED
  BY <1>1, InitIInv, NextIInv, PTL DEF Spec

(* No clone is answered twice, whatever sessions are lost on the way.      *)
THEOREM ClonesAnsweredOnce == Spec => []OneAnswer
<1>1. IInv => OneAnswer
  BY DEF IInv
<1>2. QED
  BY <1>1, InitIInv, NextIInv, PTL DEF Spec

-----------------------------------------------------------------------------
(* Sums over the clones.  A fold is a recursive function over the subsets  *)
(* of its domain; the inductions that show it well defined and count with  *)
(* it are choices of a least counterexample.                               *)

LEMMA LeastNatural ==
  ASSUME NEW T, T \subseteq Nat, T # {}
  PROVE  \E x \in T : \A y \in T : x <= y
<1>1. PICK x \in T : \A y \in T : ~(<<y, x>> \in OpToRel(<, Nat))
  BY NatLessThanWellFounded, WFMin, Zenon
<1>2. \A y \in T : ~(y < x)
  <2> TAKE y \in T
  <2>1. y \in Nat /\ x \in Nat
    OBVIOUS
  <2>2. QED
    BY <1>1, <2>1, Zenon DEF OpToRel
<1>3. QED
  BY <1>2

LEMMA SubsetInduction ==
  ASSUME NEW S, IsFiniteSet(S), NEW P, {} \in P,
         \A s \in SUBSET S : s # {} /\ (\A x \in s : s \ {x} \in P) => s \in P
  PROVE  \A s \in SUBSET S : s \in P
<1> DEFINE Bad == {Cardinality(s) : s \in {u \in SUBSET S : u \notin P}}
<1>0. \A s \in SUBSET S : IsFiniteSet(s) /\ Cardinality(s) \in Nat
  BY FS_Subset, FS_CardinalityType
<1>1. SUFFICES ASSUME Bad # {} PROVE FALSE
  OBVIOUS
<1>2. Bad \subseteq Nat
  BY <1>0
<1>3. PICK k \in Bad : \A j \in Bad : k <= j
  <2> HIDE DEF Bad
  <2>1. QED
    BY <1>1, <1>2, LeastNatural
<1>4. PICK s \in SUBSET S : s \notin P /\ k = Cardinality(s)
  BY <1>3
<1>5. ASSUME NEW x \in s PROVE s \ {x} \in P
  <2>1. s \ {x} \in SUBSET S /\ Cardinality(s \ {x}) = Cardinality(s) - 1
    BY <1>0, FS_RemoveElement
  <2>2. SUFFICES ASSUME s \ {x} \notin P PROVE FALSE
    OBVIOUS
  <2>3. Cardinality(s \ {x}) \in Bad
    BY <2>1, <2>2
  <2>4. k <= Cardinality(s) - 1 /\ Cardinality(s) \in Nat
    BY <1>0, <1>3, <2>1, <2>3
  <2>5. QED
    BY <1>4, <2>4
<1>6. QED
  BY <1>4, <1>5

Chosen(s) == CHOOSE x \in s : TRUE

(* One step of the recursion, from the table of the smaller subsets *)
SumStep(f, g, s) == IF s = {} THEN 0 ELSE f[Chosen(s)] + g[s \ {Chosen(s)}]

IsSumTable(S, f, g) == g = [s \in SUBSET S |-> SumStep(f, g, s)]

LEMMA SumTableExists ==
  ASSUME NEW S, IsFiniteSet(S), NEW f
  PROVE  \E g : IsSumTable(S, f, g)
<1> DEFINE Upto(g, k) == \A s \in SUBSET S : Cardinality(s) <= k => g[s] = SumStep(f, g, s)
           Bad == {k \in Nat : ~ \E g : DOMAIN g = SUBSET S /\ Upto(g, k)}
<1>0. \A s \in SUBSET S : /\ IsFiniteSet(s) /\ Cardinality(s) \in Nat
                          /\ Cardinality(s) = 0 => s = {}
  BY FS_Subset, FS_CardinalityType, FS_EmptySet
<1>1. Bad = {}
  <2>1. SUFFICES ASSUME Bad # {} PROVE FALSE
    OBVIOUS
  <2>2. Bad \subseteq Nat
    OBVIOUS
  <2>3. PICK k \in Bad : \A j \in Bad : k <= j
    <3> HIDE DEF Bad
    <3>1. QED
      BY <2>1, <2>2, LeastNatural
  <2>4. k # 0
    <3> DEFINE g == [s \in SUBSET S |-> 0]
    <3>1. Upto(g, 0)
      BY <1>0 DEF SumStep
    <3>2. QED
      BY <3>1
  <2>5. k - 1 \in Nat /\ k - 1 \notin Bad
    <3>1. k \in Nat /\ k - 1 \in Nat /\ ~(k <= k - 1)
      BY <2>2, <2>4
    <3> HIDE DEF Bad
    <3>2. QED
      BY <2>3, <3>1
  <2>6. PICK g : DOMAIN g = SUBSET S /\ Upto(g, k - 1)
    BY <2>5
  <2> DEFINE h == [s \in SUBSET S |-> SumStep(f, g, s)]
  <2>7. ASSUME NEW s \in SUBSET S, Cardinality(s) <= k PROVE h[s] = SumStep(f, h, s)
    <3>1. CASE s = {}
      BY <3>1 DEF SumStep
    <3>2. CASE s # {}
      <4> DEFINE u == s \ {Chosen(s)}
      <4>1. Chosen(s) \in s
        BY <3>2 DEF Chosen
      <4>2. u \in SUBSET S /\ Cardinality(u) = Cardinality(s) - 1
        BY <1>0, <4>1, FS_RemoveElement
      <4>3. Cardinality(u) <= k - 1
        BY <1>0, <2>3, <2>7, <4>2
      <4>4. h[u] = g[u]
        BY <2>6, <4>2, <4>3
      <4>5. QED
        BY <3>2, <4>4 DEF SumStep
    <3>3. QED
      BY <3>1, <3>2
  <2>8. DOMAIN h = SUBSET S /\ Upto(h, k)
    BY <2>7
  <2>9. QED
    BY <2>3, <2>8
<1>2. Cardinality(S) \in Nat /\ \A s \in SUBSET S : Cardinality(s) <= Cardinality(S)
  BY FS_Subset, FS_CardinalityType
<1>3. PICK g : DOMAIN g = SUBSET S /\ Upto(g, Cardinality(S))
  BY <1>1, <1>2
<1> DEFINE h == [s \in SUBSET S |-> SumStep(f, g, s)]
<1>4. \A s \in SUBSET S : h[s] = g[s]
  BY <1>2, <1>3
<1>5. \A s \in SUBSET S : SumStep(f, h, s) = SumStep(f, g, s)
  <2> TAKE s \in SUBSET S
  <2>1. h[s \ {Chosen(s)}] = g[s \ {Chosen(s)}]
    BY <1>4
  <2>2. QED
    BY <2>1 DEF SumStep
<1>6. IsSumTable(S, f, h)
  BY <1>5 DEF IsSumTable
<1>7. QED
  BY <1>6

Total(f) == FoldFunction(LAMBDA k, m : k + m, 0, f)

LEMMA TotalUnfolds ==
  ASSUME NEW S, IsFiniteSet(S), NEW f \in [S -> Nat]
  PROVE  \E g : IsSumTable(S, f, g) /\ Total(f) = g[S]
<1> DEFINE t == CHOOSE t : t = [s \in SUBSET S |->
                  IF s = {} THEN 0
                  ELSE f[CHOOSE x \in s : TRUE] + t[s \ {CHOOSE x \in s : TRUE}]]
<1>1. PICK g : g = [s \in SUBSET S |->
                  IF s = {} THEN 0
                  ELSE f[CHOOSE x \in s : TRUE] + g[s \ {CHOOSE x \in s : TRUE}]]
  <2>1. \E g : IsSumTable(S, f, g)
    BY SumTableExists
  <2>2. QED
    BY <2>1, Zenon DEF IsSumTable, SumStep, Chosen
<1>2. t = [s \in SUBSET S |->
             IF s = {} THEN 0
             ELSE f[CHOOSE x \in s : TRUE] + t[s \ {CHOOSE x \in s : TRUE}]]
  BY <1>1, Zenon
<1>3. DOMAIN f = S
  OBVIOUS
<1>4. Total(f) = t[S]
  BY <1>3, Zenon DEF Total, FoldFunction, FoldFunctionOnSet, MapThenFoldSet
<1>5. IsSumTable(S, f, t)
  BY <1>2, Zenon DEF IsSumTable, SumStep, Chosen
<1>6. QED
  BY <1>4, <1>5

(* A sum is a number; it is 0 when there is nothing to add, and grows by   *)
(* one for each place where one is added.                                  *)
LEMMA TotalFacts ==
  ASSUME NEW S, IsFiniteSet(S), NEW f \in [S -> Nat]
  PROVE  /\ Total(f) \in Nat
         /\ (\A x \in S : f[x] = 0) => Total(f) = 0
<1>1. PICK g : IsSumTable(S, f, g) /\ Total(f) = g[S]
  BY TotalUnfolds
<1> DEFINE P == {s \in SUBSET S : g[s] \in Nat /\ ((\A x \in S : f[x] = 0) => g[s] = 0)}
<1>2. \A s \in SUBSET S : g[s] = SumStep(f, g, s)
  BY <1>1, Zenon DEF IsSumTable
<1>3. {} \in P
  BY <1>2 DEF SumStep
<1>4. ASSUME NEW s \in SUBSET S, s # {}, \A x \in s : s \ {x} \in P PROVE s \in P
  <2>1. Chosen(s) \in s
    BY <1>4 DEF Chosen
  <2>2. g[s] = f[Chosen(s)] + g[s \ {Chosen(s)}]
    BY <1>2, <1>4 DEF SumStep
  <2>3. f[Chosen(s)] \in Nat /\ s \ {Chosen(s)} \in P
    BY <1>4, <2>1
  <2>4. g[s] \in Nat
    BY <2>2, <2>3
  <2>5. (\A x \in S : f[x] = 0) => g[s] = 0
    BY <2>1, <2>2, <2>3
  <2>6. QED
    BY <2>4, <2>5
<1> HIDE DEF P
<1>5. S \in P
  BY <1>3, <1>4, SubsetInduction
<1>6. QED
  BY <1>1, <1>5 DEF P

LEMMA TotalGrows ==
  ASSUME NEW S, IsFiniteSet(S), NEW f \in [S -> Nat], NEW f2 \in [S -> Nat],
         NEW T \in SUBSET S,
         \A x \in S : f2[x] = IF x \in T THEN f[x] + 1 ELSE f[x]
  PROVE  Total(f2) = Total(f) + Cardinality(T)
<1>1. PICK g : IsSumTable(S, f, g) /\ Total(f) = g[S]
  BY TotalUnfolds
<1>2. PICK h : IsSumTable(S, f2, h) /\ Total(f2) = h[S]
  BY TotalUnfolds
<1> DEFINE P == {s \in SUBSET S : g[s] \in Nat /\ h[s] = g[s] + Cardinality(s \intersect T)}
<1>3. \A s \in SUBSET S : g[s] = SumStep(f, g, s) /\ h[s] = SumStep(f2, h, s)
  BY <1>1, <1>2, Zenon DEF IsSumTable
<1>4. {} \in P
  <2>1. {} \intersect T = {} /\ Cardinality({}) = 0
    BY FS_EmptySet
  <2>2. QED
    BY <1>3, <2>1 DEF SumStep
<1>5. ASSUME NEW s \in SUBSET S, s # {}, \A x \in s : s \ {x} \in P PROVE s \in P
  <2> DEFINE x == Chosen(s)
  <2>1. x \in s
    BY <1>5 DEF Chosen
  <2>2. g[s] = f[x] + g[s \ {x}] /\ h[s] = f2[x] + h[s \ {x}]
    BY <1>3, <1>5 DEF SumStep
  <2>3. g[s \ {x}] \in Nat /\ h[s \ {x}] = g[s \ {x}] + Cardinality((s \ {x}) \intersect T)
    BY <1>5, <2>1
  <2> HIDE DEF x
  <2>4. IsFiniteSet(s \intersect T) /\ Cardinality(s \intersect T) \in Nat
    BY FS_Subset, FS_CardinalityType
  <2>5. CASE x \in T
    <3>1. (s \ {x}) \intersect T = (s \intersect T) \ {x}
      OBVIOUS
    <3>2. Cardinality((s \intersect T) \ {x}) = Cardinality(s \intersect T) - 1
      BY <2>1, <2>4, <2>5, FS_RemoveElement
    <3>3. f[x] \in Nat /\ f2[x] = f[x] + 1
      BY <2>1, <2>5
    <3>4. QED
      BY <2>2, <2>3, <2>4, <3>1, <3>2, <3>3
  <2>6. CASE x \notin T
    <3>1. (s \ {x}) \intersect T = s \intersect T
      BY <2>6
    <3>2. f[x] \in Nat /\ f2[x] = f[x]
      BY <2>1, <2>6
    <3>3. g[s] \in Nat /\ h[s] = g[s] + Cardinality(s \intersect T)
      BY <2>2, <2>3, <2>4, <3>1, <3>2
    <3>4. QED
      BY <3>3
  <2>7. QED
    BY <2>5, <2>6
<1> HIDE DEF P
<1>6. S \in P
  BY <1>4, <1>5, SubsetInduction
<1>7. S \intersect T = T
  OBVIOUS
<1>8. QED
  BY <1>1, <1>2, <1>6, <1>7 DEF P

-----------------------------------------------------------------------------
(* The daemon's counter *)

(* What a daemon has been assigned and what it executes are different,     *)
(* even when the orchestrator has closed the socket of the session.        *)
Apart ==
  \A n \in Nodes : session[n] # NoSocket => assigned[session[n]] \intersect running[n] = {}

Counted(n) == inProgress[n] = Cardinality(running[n]) + leaked[n] + Total(orphans[n])

CountInv == IInv /\ Apart /\ \A n \in Nodes : Counted(n)

LEMMA CountKept ==
  ASSUME IInv, NEW n \in Nodes, Counted(n),
         UNCHANGED <<inProgress[n], running[n], orphans[n], leaked[n]>>
  PROVE  Counted(n)'
  BY DEF Counted

LEMMA RunningFacts ==
  ASSUME TypeOK, NEW n \in Nodes
  PROVE  /\ inProgress[n] \in Nat /\ orphans[n] \in [Clones -> Nat] /\ leaked[n] \in Nat
         /\ running[n] \in SUBSET Clones /\ IsFiniteSet(running[n])
         /\ Cardinality(running[n]) \in Nat /\ Total(orphans[n]) \in Nat
<1>1. /\ inProgress[n] \in Nat /\ orphans[n] \in [Clones -> Nat] /\ leaked[n] \in Nat
      /\ running[n] \in SUBSET Clones
  BY DEF TypeOK
<1>2. IsFiniteSet(running[n])
  BY <1>1, ClonesFinite, FS_Subset
<1>3. QED
  BY <1>1, <1>2, ClonesFinite, FS_CardinalityType, TotalFacts

LEMMA InitCount == Init => CountInv
<1> SUFFICES ASSUME Init PROVE CountInv
  OBVIOUS
<1>1. ASSUME NEW n \in Nodes PROVE Counted(n)
  <2>1. /\ orphans[n] \in [Clones -> Nat] /\ \A c \in Clones : orphans[n][c] = 0
        /\ running[n] = {} /\ inProgress[n] = 0 /\ leaked[n] = 0
    BY DEF Init
  <2>2. Total(orphans[n]) = 0 /\ Cardinality(running[n]) = 0
    BY <2>1, ClonesFinite, TotalFacts, FS_EmptySet
  <2>3. QED
    BY <2>1, <2>2 DEF Counted
<1>2. QED
  BY <1>1, InitIInv DEF CountInv, Apart, Init

LEMMA NextCount == CountInv /\ [Next]_vars => CountInv'
<1> SUFFICES ASSUME CountInv, [Next]_vars PROVE CountInv'
  OBVIOUS
<1>0. /\ IInv /\ IInv' /\ TypeOK /\ TypeOK' /\ Apart
      /\ SessionInv /\ \A n \in Nodes : Counted(n)
  BY NextIInv DEF CountInv, IInv
<1> DEFINE Goal  == Apart' /\ \A n \in Nodes : Counted(n)'
           Frame == /\ UNCHANGED <<inProgress, running, orphans, leaked>>
                    /\ Apart'
<1>fr. ASSUME Frame PROVE Goal
  BY <1>0, <1>fr, CountKept
<1>1. ASSUME NEW n \in Nodes, NEW s \in Sockets, Connect(n, s) PROVE Frame
  BY <1>0, <1>1 DEF Connect, Apart, SessionInv, TypeOK, DaemonOpen, downVars
<1>2. ASSUME NEW s \in Sockets,
             NodeRegister(s) \/ EnterRegistry(s) \/ AckRegistration(s)
               \/ HandleClose(s) \/ TaskSteal(s)
      PROVE  Frame
  BY <1>0, <1>2 DEF NodeRegister, EnterRegistry, AckRegistration, HandleClose, TaskSteal,
     Apart, daemonVars, downVars
<1>3. ASSUME NEW n \in Nodes, ReceiveAck(n) \/ StealLoop(n) PROVE Frame
  BY <1>0, <1>3 DEF ReceiveAck, StealLoop, Apart, daemonVars, downVars
<1>4. ASSUME CrashAndRestart \/ UNCHANGED vars PROVE Frame
  BY <1>0, <1>4 DEF CrashAndRestart, vars, Apart, daemonVars, downVars
<1>5. ASSUME NEW s \in Sockets, NEW c \in Clones, SendAssignment(s, c) PROVE Frame
  <2>1. /\ UNCHANGED <<session, inProgress, running, orphans, leaked>> /\ c \in sending[s]
        /\ assigned' = assigned \/ assigned' = [assigned EXCEPT ![s] = @ \union {c}]
    BY <1>5 DEF SendAssignment, daemonVars
  <2>2. s \in serverOpen
    BY <1>0, <2>1 DEF IInv, WorkInv, SocketInv, TypeOK
  <2>3. ASSUME NEW n \in Nodes, session[n] = s PROVE c \notin running[n]
    BY <1>0, <2>1, <2>2, <2>3 DEF IInv, WorkInv
  <2>4. Apart'
    <3>1. \A u \in Sockets :
            \/ assigned'[u] \subseteq assigned[u]
            \/ u = s /\ assigned'[u] \subseteq assigned[u] \union {c}
      BY <1>0, <2>1 DEF TypeOK
    <3>2. session \in [Nodes -> Sockets \union {NoSocket}]
      BY <1>0 DEF TypeOK
    <3>3. QED
      BY <1>0, <2>1, <2>3, <3>1, <3>2 DEF Apart
  <2>5. QED
    BY <2>1, <2>4
<1>6. ASSUME NEW s \in Sockets, NEW c \in Clones, TaskResult(s, c) PROVE Frame
  BY <1>0, <1>6 DEF TaskResult, Apart, daemonVars, downVars
<1>7. ASSUME NEW n \in Nodes, SessionEnds(n) PROVE Goal
  <2>1. /\ UNCHANGED <<inProgress, leaked>>
        /\ session' = [session EXCEPT ![n] = NoSocket]
        /\ running' = [running EXCEPT ![n] = {}]
        /\ orphans' = [orphans EXCEPT ![n] =
             [c \in Clones |-> IF c \in running[n] THEN @[c] + 1 ELSE @[c]]]
        /\ assigned' = [assigned EXCEPT ![session[n]] = {}]
    BY <1>7 DEF SessionEnds
  <2>2. Apart'
    BY <1>0, <2>1 DEF Apart, TypeOK
  <2>3. Counted(n)'
    <3>1. /\ orphans[n] \in [Clones -> Nat] /\ orphans'[n] \in [Clones -> Nat]
          /\ running[n] \in SUBSET Clones /\ running'[n] = {}
          /\ \A c \in Clones : orphans'[n][c] = IF c \in running[n] THEN orphans[n][c] + 1
                                                ELSE orphans[n][c]
      BY <1>0, <2>1 DEF TypeOK
    <3>2. Total(orphans'[n]) = Total(orphans[n]) + Cardinality(running[n])
      BY <3>1, ClonesFinite, TotalGrows
    <3>3. QED
      BY <1>0, <2>1, <3>1, <3>2, RunningFacts, FS_EmptySet DEF Counted
  <2>4. ASSUME NEW m \in Nodes, m # n PROVE Counted(m)'
    BY <1>0, <2>1, <2>4, CountKept DEF TypeOK
  <2>5. QED
    BY <2>2, <2>3, <2>4
<1>8. ASSUME NEW n \in Nodes, NEW c \in Clones, ReceiveAssignment(n, c) PROVE Goal
  <2>1. /\ UNCHANGED <<session, orphans, leaked>>
        /\ session[n] # NoSocket /\ c \in assigned[session[n]]
        /\ assigned' = [assigned EXCEPT ![session[n]] = @ \ {c}]
        /\ inProgress' = [inProgress EXCEPT ![n] = @ + 1]
        /\ running' = [running EXCEPT ![n] = @ \union {c}]
    BY <1>8 DEF ReceiveAssignment
  <2>2. c \notin running[n]
    BY <1>0, <2>1 DEF Apart
  <2>3. Apart'
    BY <1>0, <2>1 DEF Apart, TypeOK
  <2>4. Counted(n)'
    <3>1. running'[n] = running[n] \union {c} /\ inProgress'[n] = inProgress[n] + 1
      BY <1>0, <2>1 DEF TypeOK
    <3>2. Cardinality(running'[n]) = Cardinality(running[n]) + 1
      BY <1>0, <2>2, <3>1, RunningFacts, FS_AddElement
    <3>3. QED
      BY <1>0, <2>1, <3>1, <3>2, RunningFacts DEF Counted
  <2>5. ASSUME NEW m \in Nodes, m # n PROVE Counted(m)'
    BY <1>0, <2>1, <2>5, CountKept DEF TypeOK
  <2>6. QED
    BY <2>3, <2>4, <2>5
<1>9. ASSUME NEW n \in Nodes, NEW c \in Clones, FinishExecution(n, c) PROVE Goal
  <2>1. /\ UNCHANGED <<session, orphans, assigned, leaked>>
        /\ c \in running[n]
        /\ inProgress' = [inProgress EXCEPT ![n] = IF @ > 0 THEN @ - 1 ELSE 0]
        /\ running' = [running EXCEPT ![n] = @ \ {c}]
    BY <1>9 DEF FinishExecution, downVars
  <2>2. Apart'
    BY <1>0, <2>1 DEF Apart, TypeOK
  <2>3. Counted(n)'
    <3>1. /\ running'[n] = running[n] \ {c}
          /\ inProgress'[n] = IF inProgress[n] > 0 THEN inProgress[n] - 1 ELSE 0
      BY <1>0, <2>1 DEF TypeOK
    <3>2. /\ Cardinality(running'[n]) = Cardinality(running[n]) - 1
          /\ Cardinality(running'[n]) \in Nat
      <4>1. IsFiniteSet(running[n])
        BY <1>0, RunningFacts
      <4>2. QED
        BY <2>1, <3>1, <4>1, FS_RemoveElement, FS_CardinalityType
    <3>3. QED
      BY <1>0, <2>1, <3>1, <3>2, RunningFacts DEF Counted
  <2>4. ASSUME NEW m \in Nodes, m # n PROVE Counted(m)'
    BY <1>0, <2>1, <2>4, CountKept DEF TypeOK
  <2>5. QED
    BY <2>2, <2>3, <2>4
<1>10. ASSUME NEW n \in Nodes, NEW c \in Clones, FinishOrphan(n, c) PROVE Goal
  <2>1. /\ UNCHANGED <<session, running, assigned, leaked>>
        /\ orphans[n][c] > 0
        /\ orphans' = [orphans EXCEPT ![n][c] = @ - 1]
        /\ inProgress' = [inProgress EXCEPT ![n] = IF @ > 0 THEN @ - 1 ELSE 0]
    BY <1>10 DEF FinishOrphan, downVars
  <2>2. Apart'
    BY <1>0, <2>1 DEF Apart
  <2>3. Counted(n)'
    <3>1. /\ orphans[n] \in [Clones -> Nat] /\ orphans'[n] \in [Clones -> Nat]
          /\ \A d \in Clones : orphans[n][d] = IF d \in {c} THEN orphans'[n][d] + 1
                                                ELSE orphans'[n][d]
      BY <1>0, <2>1 DEF TypeOK
    <3>2. Total(orphans[n]) = Total(orphans'[n]) + Cardinality({c})
      BY <3>1, ClonesFinite, TotalGrows
    <3>3. Cardinality({c}) = 1 /\ Total(orphans'[n]) \in Nat
      BY <3>1, ClonesFinite, TotalFacts, FS_Singleton
    <3>4. inProgress'[n] = IF inProgress[n] > 0 THEN inProgress[n] - 1 ELSE 0
      BY <1>0, <2>1 DEF TypeOK
    <3>5. QED
      BY <1>0, <2>1, <3>2, <3>3, <3>4, RunningFacts DEF Counted
  <2>4. ASSUME NEW m \in Nodes, m # n PROVE Counted(m)'
    BY <1>0, <2>1, <2>4, CountKept DEF TypeOK
  <2>5. QED
    BY <2>2, <2>3, <2>4
<1>11. ASSUME NEW n \in Nodes, NEW c \in Clones, ExecutionPanics(n, c) PROVE Goal
  <2>1. /\ UNCHANGED <<session, inProgress, orphans, assigned>>
        /\ c \in running[n]
        /\ leaked' = [leaked EXCEPT ![n] = @ + 1]
        /\ running' = [running EXCEPT ![n] = @ \ {c}]
    BY <1>11 DEF ExecutionPanics, downVars
  <2>2. Apart'
    BY <1>0, <2>1 DEF Apart, TypeOK
  <2>3. Counted(n)'
    <3>1. running'[n] = running[n] \ {c} /\ leaked'[n] = leaked[n] + 1
      BY <1>0, <2>1 DEF TypeOK
    <3>2. /\ Cardinality(running'[n]) = Cardinality(running[n]) - 1
          /\ Cardinality(running'[n]) \in Nat
      <4>1. IsFiniteSet(running[n])
        BY <1>0, RunningFacts
      <4>2. QED
        BY <2>1, <3>1, <4>1, FS_RemoveElement, FS_CardinalityType
    <3>3. QED
      BY <1>0, <2>1, <3>1, <3>2, RunningFacts DEF Counted
  <2>4. ASSUME NEW m \in Nodes, m # n PROVE Counted(m)'
    BY <1>0, <2>1, <2>4, CountKept DEF TypeOK
  <2>5. QED
    BY <2>2, <2>3, <2>4
<1>12. ASSUME NEW n \in Nodes, NEW c \in Clones, OrphanPanics(n, c) PROVE Goal
  <2>1. /\ UNCHANGED <<session, inProgress, running, assigned>>
        /\ orphans[n][c] > 0
        /\ orphans' = [orphans EXCEPT ![n][c] = @ - 1]
        /\ leaked' = [leaked EXCEPT ![n] = @ + 1]
    BY <1>12 DEF OrphanPanics, downVars
  <2>2. Apart'
    BY <1>0, <2>1 DEF Apart
  <2>3. Counted(n)'
    <3>1. /\ orphans[n] \in [Clones -> Nat] /\ orphans'[n] \in [Clones -> Nat]
          /\ \A d \in Clones : orphans[n][d] = IF d \in {c} THEN orphans'[n][d] + 1
                                                ELSE orphans'[n][d]
      BY <1>0, <2>1 DEF TypeOK
    <3>2. Total(orphans[n]) = Total(orphans'[n]) + Cardinality({c})
      BY <3>1, ClonesFinite, TotalGrows
    <3>3. Cardinality({c}) = 1 /\ Total(orphans'[n]) \in Nat
      BY <3>1, ClonesFinite, TotalFacts, FS_Singleton
    <3>4. leaked'[n] = leaked[n] + 1
      BY <1>0, <2>1 DEF TypeOK
    <3>5. QED
      BY <1>0, <2>1, <3>2, <3>3, <3>4, RunningFacts DEF Counted
  <2>4. ASSUME NEW m \in Nodes, m # n PROVE Counted(m)'
    BY <1>0, <2>1, <2>4, CountKept DEF TypeOK
  <2>5. QED
    BY <2>2, <2>3, <2>4
<1>13. Goal
  <2> HIDE DEF Goal, Frame
  <2>1. QED
    BY <1>fr, <1>1, <1>2, <1>3, <1>4, <1>5, <1>6, <1>7, <1>8, <1>9, <1>10, <1>11, <1>12
    DEF Next, ConnectionLost, HeartbeatTimeout, IdleTimeout
<1>14. QED
  BY <1>0, <1>13 DEF CountInv

(* The daemon's counter of tasks in progress is the number of executions   *)
(* of all its sessions, those that outlived theirs included, and of those  *)
(* that panicked: its saturating subtraction never finds zero.             *)
THEOREM InProgressStaysExact == Spec => []InProgressExact
<1>1. CountInv => InProgressExact
  BY DEF CountInv, Counted, Total, InProgressExact
<1>2. QED
  BY <1>1, InitCount, NextCount, PTL DEF Spec
=============================================================================
