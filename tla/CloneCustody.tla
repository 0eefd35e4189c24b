----------------------------- MODULE CloneCustody -----------------------------
(***************************************************************************)
(* What the swarm promises about the copies of a task, without queues,     *)
(* sockets, maps or timers: every clone is issued once, is in one place at *)
(* a time, goes to a node that has no other clone of its family, and once  *)
(* answered is never handed out again.  A clone may be given up: when a    *)
(* queue is full, when its task leaves the swarm, or with the process.     *)
(*                                                                         *)
(* Orchestrator implements this specification under the refinement mapping *)
(* of module OrchestratorCustody.                                          *)
(***************************************************************************)
CONSTANTS Tasks, Clones, Nodes, NoNode, TaskOf(_)

VARIABLE place   \* clone -> where it is, and the node that has it

Fresh    == [at |-> "fresh", by |-> NoNode]     \* not issued yet
Waiting  == [at |-> "queued", by |-> NoNode]
Gone     == [at |-> "gone", by |-> NoNode]
HeldBy(n)     == [at |-> "held", by |-> n]
AnsweredBy(n) == [at |-> "answered", by |-> n]

Places == {Fresh, Waiting, Gone} \union {HeldBy(n) : n \in Nodes}
                                 \union {AnsweredBy(n) : n \in Nodes}

Family(t) == {c \in Clones : TaskOf(c) = t}

CustodyTypeOK == place \in [Clones -> Places]

Init == place = [c \in Clones |-> Fresh]

(* The clones of S move to the queue, as far as there is room. *)
PutInQueue(S) ==
  \E kept \in SUBSET S :
    place' = [c \in Clones |-> IF c \in kept THEN Waiting
                               ELSE IF c \in S THEN Gone ELSE place[c]]

(* The clones of a submitted task are issued together. *)
Issue(t) ==
  /\ \A c \in Family(t) : place[c] = Fresh
  /\ PutInQueue(Family(t))

(* A node takes a clone of a family it has no other clone of. *)
Take(n, c) ==
  /\ place[c] = Waiting
  /\ \A d \in Family(TaskOf(c)) : place[d].by # n
  /\ place' = [place EXCEPT ![c] = HeldBy(n)]

(* A node gives up some of the clones it holds: they are queued again or,  *)
(* when their task has left the swarm, given up for good.                  *)
GiveBack(n) ==
  \E S \in SUBSET {c \in Clones : place[c] = HeldBy(n)} : PutInQueue(S)

Answer(n, c) ==
  /\ place[c] = HeldBy(n)
  /\ place' = [place EXCEPT ![c] = AnsweredBy(n)]

(* The queued clones of a task are withdrawn. *)
Withdraw(t) ==
  place' = [c \in Clones |-> IF TaskOf(c) = t /\ place[c] = Waiting THEN Gone
                             ELSE place[c]]

(* Answers are dropped: those of a task that is forgotten, or one that     *)
(* arrives after its task was.                                             *)
Forget(t) ==
  \E S \in SUBSET {c \in Family(t) : place[c].at = "answered"} :
    place' = [c \in Clones |-> IF c \in S THEN Gone ELSE place[c]]

(* The process dies. *)
Reset ==
  place' = [c \in Clones |-> IF place[c] = Fresh THEN Fresh ELSE Gone]

Next ==
  \/ \E t \in Tasks : Issue(t) \/ Withdraw(t) \/ Forget(t)
  \/ \E n \in Nodes : GiveBack(n)
  \/ \E n \in Nodes, c \in Clones : Take(n, c) \/ Answer(n, c)
  \/ Reset

Spec == Init /\ [][Next]_place

-----------------------------------------------------------------------------
(* What anti-affinity is for: no node holds or answered two clones of one  *)
(* family, so that the answers a verdict compares come from distinct nodes. *)
DistinctNodes ==
  \A c, d \in Clones : c # d /\ TaskOf(c) = TaskOf(d) =>
    place[c].by = NoNode \/ place[c].by # place[d].by
=============================================================================
