--------------------------------- MODULE Rows ---------------------------------
(***************************************************************************)
(* The rows of the database beside the memory of the orchestrator process: *)
(* what submission, the consensus engine, the SLA monitor and the          *)
(* connection handlers write, and what the next boot makes of it.          *)
(*                                                                         *)
(* The database is reached over HTTP.  Each statement is a request of its  *)
(* own, executed once or not at all, in no order with the others, and may  *)
(* be reported as failed; there is no transaction.  A statement under way  *)
(* when the process ends is executed before the next boot or never.        *)
(***************************************************************************)
EXTENDS TaskLifecycle, FiniteSets

CONSTANTS
  Nodes,
  DatabaseFails        \* whether statements may fail

ASSUME RowsAssumption == DatabaseFails \in BOOLEAN /\ Tasks \intersect Nodes = {}

VARIABLES
  taskRow,       \* task -> tasks.status, or absent
  cloneRow,      \* the tasks with rows in task_clones
  nodeRow,       \* node -> nodes.status, ONLINE standing for BUSY as well
  boot,          \* where recoverStateOnBoot stands; "up": listening
  abandoned,     \* what it selected and has not failed yet
  connected,     \* the nodes with a registered connection
  submission,    \* task -> the statement its submission waits for
  writes,        \* status updates sent and not executed
  mine,          \* history: tasks this process accepted
  seen,          \* history: nodes that registered with this process
  swept,         \* history: the last boot met no error
  reached        \* history: task -> the statuses its memory has had

databaseVars == <<taskRow, cloneRow, nodeRow>>
bootVars     == <<boot, abandoned, swept>>
handlerVars  == <<connected, submission, writes>>
historyVars  == <<mine, seen, reached>>
vars == <<lifecycleVars, databaseVars, bootVars, handlerVars, historyVars>>

RowStatuses == {"CLONED", "COMPLETED", "FAILED", "CLOUD_FALLBACK"}

TypeOK ==
  /\ LifecycleTypeOK
  /\ taskRow \in [Tasks -> RowStatuses \union {"absent"}]
  /\ cloneRow \subseteq Tasks
  /\ nodeRow \in [Nodes -> {"absent", "ONLINE", "OFFLINE"}]
  /\ boot \in {"resetting", "selecting", "sweeping", "up"}
  /\ abandoned \subseteq Tasks
  /\ connected \subseteq Nodes
  /\ submission \in [Tasks -> {"none", "task", "clones", "over", "refused"}]
  /\ writes \subseteq (Tasks \X RowStatuses) \union (Nodes \X {"ONLINE", "OFFLINE"})
  /\ mine \subseteq Tasks /\ seen \subseteq Nodes
  /\ swept \in BOOLEAN
  /\ reached \in [Tasks -> SUBSET Statuses]

RowsInit ==
  /\ Init
  /\ taskRow = [t \in Tasks |-> "absent"]
  /\ cloneRow = {}
  /\ nodeRow = [n \in Nodes |-> "absent"]
  /\ boot = "resetting" /\ abandoned = {} /\ swept = FALSE
  /\ connected = {} /\ writes = {}
  /\ submission = [t \in Tasks |-> "none"]
  /\ mine = {} /\ seen = {}
  /\ reached = [t \in Tasks |-> {}]

(* History: the status the memory of t has after the step *)
Remember(t) == reached' = [reached EXCEPT ![t] = @ \union {status'[t]}]

-----------------------------------------------------------------------------
(* POST /api/task *)

(* Mutant: the API listens before the recovery is over. *)
SubmitWhileBooting(t) ==
  /\ Accept(t) /\ Remember(t)
  /\ submission' = [submission EXCEPT ![t] = "task"]
  /\ mine' = mine \union {t}
  /\ UNCHANGED <<databaseVars, bootVars, connected, writes, seen>>

(* Memory first; then createTask is sent. *)
Submit(t) ==
  /\ boot = "up"
  /\ Accept(t) /\ Remember(t)
  /\ submission' = [submission EXCEPT ![t] = "task"]
  /\ mine' = mine \union {t}
  /\ UNCHANGED <<databaseVars, bootVars, connected, writes, seen>>

(* Mutant: the error leaves the handler. *)
CreateTaskThrows(t) ==
  /\ submission[t] = "task"
  /\ \/ /\ submission' = [submission EXCEPT ![t] = "clones"]
        /\ taskRow' = [taskRow EXCEPT ![t] = "CLONED"]
     \/ /\ DatabaseFails
        /\ submission' = [submission EXCEPT ![t] = "none"]
        /\ taskRow' \in {taskRow, [taskRow EXCEPT ![t] = "CLONED"]}
  /\ UNCHANGED <<lifecycleVars, cloneRow, nodeRow, bootVars, connected, writes,
                 historyVars>>

(* The database executes createTask, and the handler sends createClones;   *)
(* or the error skips them both.  A deadline that is no date, made from    *)
(* body.timeoutMs as it came, is an error before anything is sent, and     *)
(* once more when the response is made, unless the client has gone: the    *)
(* submission then ends without a timer.                                   *)
CreateTask(t) ==
  /\ submission[t] = "task"
  /\ \/ /\ submission' = [submission EXCEPT ![t] = "clones"]
        /\ taskRow' = [taskRow EXCEPT ![t] = "CLONED"]
        /\ UNCHANGED lifecycleVars
     \/ /\ DatabaseFails
        /\ submission' = [submission EXCEPT ![t] = "over"]
        /\ taskRow' \in {taskRow, [taskRow EXCEPT ![t] = "CLONED"]}
        /\ UNCHANGED lifecycleVars
     \/ /\ submission' = [submission EXCEPT ![t] = "over"]
        /\ UNCHANGED <<taskRow, lifecycleVars>>
     \/ /\ submission' = [submission EXCEPT ![t] = "refused"]
        /\ Refuse(t)
        /\ UNCHANGED taskRow
  /\ UNCHANGED <<cloneRow, nodeRow, bootVars, connected, writes, historyVars>>

CreateClones(t) ==
  /\ submission[t] = "clones"
  /\ submission' = [submission EXCEPT ![t] = "over"]
  /\ \/ cloneRow' = cloneRow \union {t}
     \/ DatabaseFails /\ UNCHANGED cloneRow
  /\ UNCHANGED <<lifecycleVars, taskRow, nodeRow, bootVars,
                 connected, writes, historyVars>>

TrackTaskSla(t) ==
  /\ submission[t] = "over"
  /\ Track(t)
  /\ UNCHANGED <<databaseVars, bootVars, handlerVars, historyVars>>

-----------------------------------------------------------------------------
(* The consensus engine *)

(* completeTask or updateStatus(FAILED), and the update of the row is sent, *)
(* even of a task that was purged while its nodes were paid.               *)
Verdict(t) ==
  /\ Decide(t) /\ Remember(t)
  /\ writes' = writes \union {<<t, IF InStore(t) THEN status'[t] ELSE "COMPLETED">>}
  /\ UNCHANGED <<databaseVars, bootVars, connected, submission, mine, seen>>

(* forwardToCloud returned: markCloudFallback, then the update is sent,    *)
(* even of a task that was purged meanwhile.                               *)
CloudFallback(t) ==
  /\ CloudAnswer(t) /\ Remember(t)
  /\ writes' = writes \union {<<t, "CLOUD_FALLBACK">>}
  /\ UNCHANGED <<databaseVars, bootVars, connected, submission, mine, seen>>

(* A result arrives, or the timer fires; a breach writes no row. *)
ReportOrBreach(t) ==
  /\ Report(t) \/ Breach(t)
  /\ Remember(t)
  /\ UNCHANGED <<databaseVars, bootVars, handlerVars, mine, seen>>

(* purgeOld, whatever statements about the task are under way *)
PurgeTask(t) ==
  /\ Purge(t) /\ Remember(t)
  /\ UNCHANGED <<databaseVars, bootVars, handlerVars, mine, seen>>

-----------------------------------------------------------------------------
(* Connections *)

(* registerNode upserts the row; then the connection is registered, unless *)
(* it was closed meanwhile or the statement was reported as failed.        *)
RegisterNode(n) ==
  /\ boot = "up" /\ n \notin connected
  /\ nodeRow' = [nodeRow EXCEPT ![n] = "ONLINE"]
  /\ seen' = seen \union {n}
  /\ connected' \in {connected, connected \union {n}}
  /\ UNCHANGED <<lifecycleVars, taskRow, cloneRow, bootVars,
                 submission, writes, mine, reached>>

(* A steal sends BUSY, a result or an eviction ONLINE. *)
ReportNode(n) ==
  /\ n \in connected
  /\ writes' = writes \union {<<n, "ONLINE">>}
  /\ UNCHANGED <<lifecycleVars, databaseVars, bootVars, connected, submission, historyVars>>

(* handleClose sends OFFLINE, which nothing waits for. *)
CloseNode(n) ==
  /\ n \in connected
  /\ connected' = connected \ {n}
  /\ writes' = writes \union {<<n, "OFFLINE">>}
  /\ UNCHANGED <<lifecycleVars, databaseVars, bootVars, submission, historyVars>>

(* An UPDATE of a status that was sent is executed, before or after        *)
(* whatever was sent beside it; it changes nothing where there is no row.  *)
Execute(w) ==
  /\ w \in writes
  /\ writes' = writes \ {w}
  /\ \/ /\ taskRow' = [t \in Tasks |-> IF w[1] = t /\ taskRow[t] # "absent"
                                       THEN w[2] ELSE taskRow[t]]
        /\ nodeRow' = [n \in Nodes |-> IF w[1] = n THEN w[2] ELSE nodeRow[n]]
     \/ DatabaseFails /\ UNCHANGED <<taskRow, nodeRow>>
  /\ UNCHANGED <<lifecycleVars, cloneRow, bootVars, connected,
                 submission, historyVars>>

-----------------------------------------------------------------------------
(* recoverStateOnBoot, before anything listens.  An error is logged, and   *)
(* the boot goes on without the rest.                                      *)

StartListening(clean) ==
  /\ boot' = "up"
  /\ swept' = clean
  /\ abandoned' = {}

ResetAllNodeStatuses ==
  LET offline == [n \in Nodes |-> IF nodeRow[n] = "absent" THEN "absent" ELSE "OFFLINE"]
  IN  /\ boot = "resetting"
      /\ \/ /\ boot' = "selecting" /\ nodeRow' = offline
            /\ UNCHANGED <<swept, abandoned>>
         \/ /\ DatabaseFails /\ StartListening(FALSE)
            /\ nodeRow' \in {nodeRow, offline}
      /\ UNCHANGED <<lifecycleVars, taskRow, cloneRow,
                     handlerVars, historyVars>>

(* Mutant: only what is marked as begun counts as abandoned. *)
AbandonedInProgress(t) == taskRow[t] = "IN_PROGRESS"

(* QUEUED, IN_PROGRESS and CONSENSUS_PENDING are never written. *)
Abandoned(t) == taskRow[t] = "CLONED"

GetAbandonedTasks ==
  /\ boot = "selecting"
  /\ \/ /\ \E t \in Tasks : Abandoned(t)
        /\ abandoned' = {t \in Tasks : Abandoned(t)}
        /\ boot' = "sweeping" /\ UNCHANGED swept
     \/ (\A t \in Tasks : ~Abandoned(t)) /\ StartListening(TRUE)
     \/ DatabaseFails /\ StartListening(FALSE)
  /\ UNCHANGED <<lifecycleVars, databaseVars, handlerVars, historyVars>>

FailAbandonedTask(t) ==
  LET failed == [taskRow EXCEPT ![t] = "FAILED"]
  IN  /\ boot = "sweeping" /\ t \in abandoned
      /\ \/ /\ taskRow' = failed
            /\ IF abandoned = {t} THEN StartListening(TRUE)
               ELSE abandoned' = abandoned \ {t} /\ UNCHANGED <<boot, swept>>
         \/ /\ DatabaseFails /\ StartListening(FALSE)
            /\ taskRow' \in {taskRow, failed}
      /\ UNCHANGED <<lifecycleVars, cloneRow, nodeRow,
                     handlerVars, historyVars>>

(* The process ends at any moment, and starts again. *)
ProcessDies ==
  /\ Die
  /\ boot' = "resetting" /\ abandoned' = {} /\ swept' = FALSE
  /\ connected' = {} /\ writes' = {}
  /\ submission' = [t \in Tasks |-> "none"]
  /\ mine' = {} /\ seen' = {}
  /\ UNCHANGED <<databaseVars, reached>>

-----------------------------------------------------------------------------
RowsNext ==
  \/ \E t \in Tasks :
       \/ Submit(t) \/ CreateTask(t) \/ CreateClones(t) \/ TrackTaskSla(t)
       \/ Verdict(t) \/ CloudFallback(t)
       \/ ReportOrBreach(t) \/ PurgeTask(t) \/ FailAbandonedTask(t)
  \/ \E n \in Nodes : RegisterNode(n) \/ ReportNode(n) \/ CloseNode(n)
  \/ \E w \in writes : Execute(w)
  \/ ResetAllNodeStatuses \/ GetAbandonedTasks \/ ProcessDies

RowsSpec == RowsInit /\ [][RowsNext]_vars

-----------------------------------------------------------------------------
(* The conclusions of a task that was purged before it came to them: its   *)
(* verdict, when the cloud had answered, and the cloud's answer, when there *)
(* was a verdict.  The memory never had such a status.                     *)
Overtaken(t) ==
  {s \in {"COMPLETED", "CLOUD_FALLBACK"} :
     /\ "PURGED" \in reached[t]
     /\ \E first \in reached[t] \intersect Terminal :
          s = "COMPLETED" <=> first = "CLOUD_FALLBACK"}

(* The row of a task says what the task has been in memory, or FAILED once *)
(* the process that had the task is gone: no sweep fails a task of the     *)
(* present process, and no statement brings a row ahead of the memory      *)
(* (recovery.ts:43), except for the second conclusion of a purged task.    *)
RowsReached ==
  \A t \in Tasks :
    taskRow[t] \in {"absent"} \union reached[t] \union Overtaken(t)
                   \union (IF t \in mine THEN {} ELSE {"FAILED"})

(* After a boot without an error no row of an earlier process is left      *)
(* active, and only nodes that came back since are not OFFLINE             *)
(* (recovery.ts:9-11): nothing that was under way undoes the recovery.     *)
RecoverySweeps ==
  boot = "up" /\ swept =>
    /\ \A t \in Tasks \ mine : taskRow[t] # "CLONED"
    /\ \A n \in Nodes \ seen : nodeRow[n] # "ONLINE"

(* Clones have rows only where the task has one, and a task that the       *)
(* memory accepted in this process is never without the handler that will  *)
(* start its SLA timer, whatever the database does; except for one whose   *)
(* submission was answered 500, and of that the database has no row        *)
(* (rest.ts:144-162).                                                      *)
SubmissionCompletes ==
  \A t \in Tasks :
    /\ t \in cloneRow => taskRow[t] # "absent"
    /\ InStore(t) /\ cloud[t] = "untimed" =>
         submission[t] \in {"task", "clones", "over"}
    /\ cloud[t] = "refused" => taskRow[t] = "absent" /\ t \notin cloneRow
=============================================================================
