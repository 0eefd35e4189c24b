# ANTP orchestrator: TLA+ specifications, model checking and proofs

ANTP distributes a client's task as three *clones* over untrusted edge nodes, accepts the
output two of them agree on, pays the nodes that agreed and slashes the others, and falls back
to a cloud server when the answer is late. These modules model the orchestrator process
(`src/orchestrator`) as an event loop whose handlers are suspended at every `await`, the edge
daemons at the other end of its connections, the database behind it and the clients in front.

Paths below are relative to `src/`; those without a directory prefix are under
`src/orchestrator/src/`.

## 1. Inventory

| Component | State | Operations | Interacts with | Correct when |
|---|---|---|---|---|
| Tier queues (`queue/tier-queue.ts`, `queue/manager.ts`) | per tier a bounded deque of clones and `familyNodeMap` | `enqueue`, `enqueuePriority`, `steal`, `releaseAntiAffinity`, `cleanupFamily`, `removeByTaskId` | called by submission, steal, eviction, close, consensus, SLA | a clone is queued at most once, in its tier; a node never gets two clones of a family; nothing is lost silently |
| Cloning (`consensus/clone.ts`) | none | `createAndEnqueueClones`, `requeueEvictedClone` | queues, task store | every copy is issued; an evicted one comes back |
| Task store (`state/task-store.ts`) | `tasks`, `familyIndex`, `activeByNode` | `createTask`, `updateStatus`, `assignClone`, `addResult`, `evictClone`, `completeTask`, `markCloudFallback`, `purgeOld` | everybody | a verdict is not taken back; assignments follow the connections |
| Consensus engine (`consensus/engine.ts`) | none of its own: suspended runs | `onCloneResult`, `runConsensus`, `applyConsensusEconomics` | task store, database, queues | one verdict per task, on all its results; payments and slashes agree with it |
| SLA monitor (`sla/monitor.ts`), cloud client (`sla/fallback.ts`) | one timer per task, the request under way | `trackTaskSla`, `enforceSlaBreach`, `forwardToCloud` | task store, queues, cloud | every accepted task ends |
| WebSocket server and handlers (`ws/server.ts`, `ws/handlers.ts`) | per connection `nodeId`, `tier`, `activeClones`; registries `connectedNodes`, `nodeIpMap` | register, steal, result, eviction, heartbeat, close, timeouts | all of the above, daemons, database | a clone a node leaves behind is re-queued; the registry holds live sockets; suspended handlers stay harmless |
| Edge daemon (`edge-daemon/src-tauri/src/ws/client.rs`, `executor/`, `monitor/`) | session, tier, tasks in progress, executions | connect, register, steal loop, execute, report, reconnect | orchestrator | both ends agree on the work; a clone is answered once |
| REST API (`api/rest.ts`) | one interval per event stream | submit, status reads, event stream, RAG | task store, cloning, SLA monitor, database | an accepted task is tracked; a stream ends |
| Dashboard (`dashboard/app.js`) | `activeEventSource`, the panel | track a task, fall back to one request | REST API | the panel ends with the truth |
| RAG pipeline (`rag/pipeline.ts`) | `ragPipelineState` | chunk a document, a task per chunk | task store, cloning, SLA monitor, database | chunks cover the document; chunk tasks end |
| Process (`index.ts`), recovery (`state/recovery.ts`) | timers | boot, purge, shutdown; sweep of abandoned rows | task store, database | rows do not stay active for ever after a crash |
| Database (`database/queries.ts`, `database/schema.ts`) | rows for tasks, clones, nodes, payouts, users, keys, codes | about 60 queries, one statement each | every handler | rows agree with what the process did |
| Accounts (`api/auth.ts`, `api/middleware.ts`) | users, login counts per address, signing keys | signup, verify, login, tokens | database | limits hold under overlap; tokens are for verified accounts |
| Credentials (`api/auth.ts`, `api/middleware.ts`, `ws/handlers.ts`) | API keys, pairing codes | create, revoke, authenticate; issue and use a code | database, registration | a revoked key is dead; a code pairs one user with its node |
| Economics (`economics/payout.ts`), ML client (`ml/brain-client.ts`) | none | unused or advisory | database, ML service | - |
| Mock cloud, ML service, wire protocol, profiler | - | stateless | - | - |

The behaviours that are hard to test here: handlers interleaving at awaits (the count of results
is taken before two awaits, the results read after them); a socket that closes while a handler
that will use it is suspended, or long after its daemon has opened another; executions that
outlive the session they were assigned in; late results racing the SLA timer and the cloud;
evictions and re-queues going through anti-affinity in any order; a late close that erases what the
server knows of a live node; a purge that takes a task from under its run; an execution that panics or
an assignment that is never sent; full queues; a process that dies
with tasks in memory; statements that are unordered, fail, or are executed and reported as failed;
overlapping requests that go by rows they read earlier; streams over tasks that vanish.
`PROJECT.json` lists each of them at its line with the properties that cover it, or why none does.

## 2. Modules

| Module | Models |
|---|---|
| `TierQueue` | the queue and anti-affinity algorithms as operators on sequences and partial functions |
| `Orchestrator` | the life of a task in the process: one action per uninterrupted stretch of each handler |
| `CloneCustody` | abstract promise: where each clone may be and how it may move, without queues, sockets or timers |
| `OrchestratorCustody` | refinement mapping: `Orchestrator` implements `CloneCustody` |
| `TaskLifecycle` | abstract promise: what the rest of the system sees of a task - accepted, timed, reported, decided, breached, answered by the cloud, purged, lost |
| `OrchestratorLifecycle` | refinement mapping: `Orchestrator` implements `TaskLifecycle` |
| `Consensus` | the engine's choice among the results of a task: numbers, hashes, failed executions, order of arrival |
| `Fleet` | both ends of the connections: several sockets per node, sessions, steal loop, executions |
| `Rows` | `TaskLifecycle` with the rows of the database beside it, crash and recovery |
| `Payments` | `Rows` with the economics of the consensus engine against foreign keys |
| `ClientView` | `TaskLifecycle` seen through the event stream and the dashboard's tracker |
| `RagPipeline` | RAG jobs whose chunk tasks are `TaskLifecycle`'s and whose client is `ClientView`'s |
| `Sessions` | accounts, verification, login limits, tokens |
| `Credentials` | API keys and pairing codes |
| `OrchestratorClaims`, `ClientClaims`, `CorrectNodesPaid` in `Payments` | what comments of the repository say and the code does not do |
| `MC*` | instances for TLC: model values, agreement relations, symmetries |
| `*_proofs` | lemmas and theorems |

Composition. `Orchestrator` is the detailed model of a task and is shown to implement
`TaskLifecycle`; the modules that only need a task's outline (`Rows`, `Payments`, `ClientView`,
`RagPipeline`) extend `TaskLifecycle` and call its actions, so that what they show holds with the real
orchestrator in its place. `Consensus` looks inside one action of `Orchestrator`: its `ChoiceAllowed` says
that the engine's choice is one of those `RunConsensus` leaves open. `Fleet` replaces the queues by the set of available clones and looks at
the connections instead.

### How `Orchestrator` corresponds to the code

Node.js runs a handler without interruption up to its first `await`; everything before it is one
action, and the continuation is another. What a suspended handler will still do is state:

| Variable | In the code |
|---|---|
| `status`, `usedCloudFallback`, `assignedNodes`, `results` | the fields of `TaskState`; `NONE` before submission, `PURGED` and `LOST` when the store no longer has the task. A clone without an entry has `NoNode` / `NoReport` |
| `sla[t]` | `persisting`: the submission waits for its rows; `armed`: the timer is set; `cloud`: the request is under way; `answered`; `done`: the timer found the task over; `refused`: the submission was answered 500 and there is no timer |
| `queue`, `familyNodeMap` | one queue per tier; the family maps of the tiers kept as one, since families are disjoint |
| `connected`, `replaced` | the nodes whose daemon uses a registered connection; those that have others, which the server has not seen the end of |
| `nodeIpMap` | its keys: the nodes whose address the server knows. `connectedNodes` is set and deleted with it |
| `activeClones`, `stale`, `executing` | the sets of all the node's connections together; the part on replaced connections; the part whose assignment was sent. What is neither stale nor sent are steals suspended at their three writes |
| `acking`, `sendOnClosed` | evictions whose acknowledgement is still to be sent; whether some suspended handler is going to use a closed socket |
| `arriving` | results that wait for the write of the node's status before they reach the engine |
| `consensus`, `toPay`, `toSlash` | engine run started by a clone's result: waiting for its rows, settling entries one by one, closing |
| `payouts`, `slashes` | history: payments and slashes attempted, per task and node |

| Action | Code |
|---|---|
| `Submit`, `TrackTaskSla`, `Refuse` | `api/rest.ts` 83-162, `consensus/clone.ts` 31-85: up to the first await, then to the timer, or to the 500 after a deadline that is no date |
| `Register`, `Reconnect`, `CloseWhileRegistering` | `handleNodeRegister` around its first await, of a first and of a further connection, and a socket closing in it |
| `Disconnect`, `CloseReplaced` | `handleClose` of the connection in use and, late, of a replaced one: every active clone of an active task goes back to the front, in any order, as far as there is room, and the node's address is deleted, whichever connection closed |
| `Steal`, `SendAssignment` | `handleTaskSteal` before and after its writes |
| `TaskEviction`, `AckEviction` | `handleTaskEviction` before and after its writes |
| `TaskResult`, `OnCloneResult` | `handleTaskResult`; the await of the node's status happens only when it was the last clone |
| `RunConsensus`, `RunConsensusThrows`, `Pay`, `Slash`, `CompleteTask`, `CloseConsensus` | `onCloneResult` after its awaits, `runConsensus`, `applyConsensusEconomics` |
| `SlaTimer`, `CloudAnswer` | `enforceSlaBreach` before and after the call of the cloud |
| `Purge` | `purgeOld` |
| `CrashAndRestart` | an unhandled rejection ends the process; a new one starts empty (`Restart`) |

Abstractions, and why they are faithful:

- *Payloads, names, hashes.* A queue item is its clone. An output is a member of `Values`, and
  `Agree` says which outputs the engine matches: an arbitrary reflexive and symmetric relation,
  because numbers closer than 0.00001 match and that is not transitive.
- *Which majority.* Several result sets may be majorities; the first in order of arrival wins.
  `RunConsensus` takes any, which includes it; the choice itself is the subject of `Consensus`.
- *Order of re-queueing.* `handleClose` walks a set in insertion order. `PriorityQueues` allows
  every order, and hence every choice of those a nearly full queue refuses.
- *Payment.* A payment step stands for its three writes. A failed write is caught and changes no
  memory, so `payouts` counts attempts.
- *Purge.* A terminal task may be purged at any time, as `purgeOld` looks at nothing but its status and
  its age since submission, and handlers suspended then go on. A run keeps the task's object, so the model keeps
  `results` and `assignedNodes` of a purged task. A run that has not read its task yet throws
  (`RunConsensusThrows`, `consensus/engine.ts:91`) in a handler nobody awaits, and the process ends.
- *Crash.* The process dies by a use of a closed socket in a suspended handler, and by a run
  whose task was purged. The handlers'
  promises are awaited by nobody and no `unhandledRejection` handler is installed. When the
  flag is up the crash may come at any later step or never: the handler may also have thrown nothing
  because it was resumed before the socket's data was freed.
- *Connections.* Nodes in `Reconnecting` may have any number of connections beside the one their daemon
  uses. Which clone is on which of them is not kept: `stale` is their union, a late close takes any part of it, and
  what a daemon does on a replaced connection are messages that were under way. The registration handshake and the
  registry of sockets are the subject of `Fleet`, where connections have identities.
- *Sends.* `executing` contains a clone from the moment its assignment was sent, received or not: without
  fairness the daemon may never answer, so a message that uWS drops (`ws/handlers.ts:276` ignores the
  result of `send`) and an execution that panics need no action here. In `Fleet` they have one.
- *Daemons* steal at any time, answer what they execute once, drop everything with the session.
  Sending of TASK_EVICTION is a parameter (`EvictingNodes`): the handler exists and the daemon of
  this commit never sends it (`edge-daemon/src-tauri/src/monitor/ram.rs:81` says its client does).
- *Elsewhere:* database rows (`Rows`), rejected tokens, nodes without a tier, timeouts (`Fleet`),
  pairing (`Credentials`).

### How the other modules correspond to the code

`Consensus` - results are known by their positions in order of arrival, the order in which the engine walks the
store's Map. An output stands for its bytes and so for their hash; what `JSON.parse` and `parseFloat` make of
it are the functions `Json` and `Prefix`, in a unit in which the tolerance of 0.00001 is a natural number. A failed execution is
reported with an empty output and the hash of nothing (`client.rs:411`), and the engine does not look at its status. The rounding of
floating-point differences at the tolerance is left out. `QueryMajority` is the unused `processConsensus` of
`database/queries.ts`, which serves as a measure.

`Fleet` - what travels on a socket are sets and counters (the order of messages on one socket
decides nothing here, since each handler suspends and they overtake one another anyway); a socket can
be opened again once both ends have closed it.

| Variable | In the code |
|---|---|
| `owner`, `serverOpen`, `session` | the two ends of each connection, which close at different times |
| `registering`, `registered`, `connectedNodes` | where `handleNodeRegister` is suspended, `isRegistered`, the registry (`nodeIpMap` has the same keys) |
| `activeClones`, `sending`, `available` | the connection's set, its steals suspended at their writes, what the queues offer |
| `doomed` | a promise nobody awaits is about to be rejected: the process will end |
| `ranked`, `inProgress`, `running`, `orphans` | the daemon's tier (not PENDING_PROFILE), `tasks_in_progress`, its executions of this session and of earlier ones |
| `leaked` | places in `tasks_in_progress` that executions did not give back because they panicked: the pointer `compute` returns is used unchecked (`executor/runtime.rs:134`), and the spawned task ends without a result |
| `unanswered` | active clones nobody works on: a send that was dropped, or such a panic |
| `steals`, `acks`, `assigned`, `reported` | messages on their way |
| `answers` | history: results the engine was given |

Which hardware gets a tier is the parameter `Profiled`, who knows the secret `Trusted`. The replies
NOT_REGISTERED and PENDING_PROFILE to a steal are left out because `StealsRegistered` shows that no
daemon gets them. The daemon's status text is for display. Capacity is 3 in `client.rs:262`.

`TaskLifecycle` - `status` and `reported` are fields of `TaskState`, `cloud` is the timer and the
request it makes (`refused`: there will be none), `decided` remembers that the verdict was written, or would
have been, had the task not been purged.

`Rows` - a variable per table that matters (`taskRow`, `cloneRow`, `nodeRow`), the statement a
submission waits for, `writes` for updates nothing waits for, `boot` and `abandoned` for the
recovery. A statement that fails was executed or not (the reply may be what is lost). Results,
evictions and assignments of clone rows are left out: the ids they name match no row (see section 5).
ONLINE stands for BUSY too; BANNED is never written.

`Payments` - `run` is what `applyConsensusEconomics` has still to do; ids are tagged by their maker.

`ClientView` - the server's end of the stream and its interval, the events on their way, the
`EventSource`, the one request of the fallback, and the panel. Of an event only the status is
kept. `MaxEvents` bounds what is on its way, and one fallback request is under way at a time.

`RagPipeline` - a job by the statement it waits for; chunk `i` of document `d` is the task `<<d, i>>`.
Texts are their lengths. Nothing calls `onVectorizationComplete`, so phases 2 and 3 are unreachable
and not modelled.

`Sessions` - a request is suspended at every statement and goes by what it read (`verified`). The
window of an address and the lock of an account end at any time. A statement and the handler's
continuation up to the next are one step. Only verification with the right code is an action: a
wrong one changes nothing. Emails are what `toLowerCase` leaves of them.

`Credentials` - users have valid sessions (module `Sessions`). Keys are never expired
(`api_keys.expires_at` is never set). Codes are all different: a collision is refused by the unique
index and the registration goes on without a code, which `Fail` includes.

## 3. Runs

`CHECK_DEADLOCK FALSE` everywhere: with every task purged or lost, all nodes gone and no request or
handler suspended there may be nothing left to do.

| Run | Instance | Shows |
|---|---|---|
| `one_task` | 1 task, 2 clones, 3 nodes: two behind one address that may have second connections, the third evicts; 2 outputs | `TypeOK`, `OnePlace`, `AntiAffinity`, `AssignmentsFollowHolders`, `NoCloneLost`; `IpAntiAffinity`, `VerdictStable` |
| `custody` | 2 tasks of 2 clones, 2 nodes, queue of 3 | `ImplementsCustody`: refinement of `CloneCustody`, with clones refused at submission and at re-queueing |
| `sla` | 1 task, 3 clones, 3 nodes, 2 outputs, `HandlerSpec` | `RunsSeeAllResults`, `OneVerdict`, `SlashesHaveMajority`, `FullReportDecided`; `EventuallySettled` with timers, `SwarmDecides` with working nodes; `ImplementsLifecycle`: refinement of `TaskLifecycle` |
| `fleet` | 2 nodes, one without secret and tier, 2 sockets, 2 work items, capacity 1, `FairSpec` | `StealsRegistered`, `RegistryLive`, `WorkAgreed`, `OneAnswer`, `InProgressExact`; `HeldIsSettled`, `WorkFlows` |
| `rows` | 2 tasks, 1 node, failing statements | `RowsReached`, `RecoverySweeps`, `SubmissionCompletes` |
| `sessions` | 1 account, 2 addresses, 3 overlapping requests, limit 2 | `LoginLimits`, `SessionsVerified` |
| `credentials` | 3 users (2 providers), 2 keys, 2 nodes, 2 codes, 2 overlapping requests | `RevocationHolds`, `PairingKept` |
| `clients` | 1 document of up to 2 chunks, a client, `RagFairSpec` | `DocumentCovered`, `ChunksTimed`, `VerdictShown`; `ChunksSettle`, `PanelSettles` |
| `consensus` | 3 results among 9 outputs in every order: a chain of numbers, a quoted number, two texts with the same number, JSON without one, Infinity, nothing | `ChoiceAllowed`, `HashMajorityPaid`, `OrderIrrelevant`, `MiddleIsPaid` |
| `claim_answered` | 1 task, 2 nodes, `FairSpec` | violated: the process dies with the task |
| `claim_paid` | 1 task, 3 nodes, no statement fails | violated: a majority is accepted and nobody is paid |
| `claim_delivered` | 1 chunk task and its client, `RagFairSpec` | violated: the client is left with the breach |

`one_task`, `fleet` and `clients` also check the type invariants of their modules; those of `Rows`, `Sessions`,
`Credentials` and `Consensus` are theorems and are not repeated in runs, like the invariant `CustodyInv` of the proofs
about `Orchestrator`. Every property has a mutant
of the code that it finds (`PROJECT.json`); the mutants stand beside the definitions they change.

Bounds. Three clones, a majority of two and three nodes in `sla` are the deployed parameters (`config.ts`);
three nodes are the fewest that can answer a task, and each may leave and return any number of
times, so a clone can go through any number of owners. `one_task` has two clones, to make room for second
connections and evictions: its properties relate at most two clones of a family, and it has a third node to give
them to. Tasks interact through the
queue's room and through what a node holds at the same time; `custody` has two of them for that, with the
copies reduced to two to keep the product small. Nothing else in `Orchestrator` is bounded: there is no
counter other than `payouts` and `slashes`, which the checked invariants keep at one. Two
outputs make an accepted verdict, a dissenter and, with two clones, a disagreement; the chains of outputs in which closeness is not
transitive are those of `consensus`, and of the theorems, which hold for any agreement. `fleet` needs two sockets for
an old and a new connection of one node and two steals under way for a capacity of one to be
exceeded; a larger instance with two trusted nodes and three sockets was explored once for the
invariants (4.3 million states) and agrees. `consensus` has three results as deployed
and one output of each kind the engine tells apart, two where two are needed; other numbers are covered by the theorems. `rows` needs a second task for a sweep that fails in the
middle. In `sessions` three requests are one more than the limit; the limit is 5 in the code,
`MaxFailures` stops an instance from counting without end. In `credentials` a third key or code adds
nothing that two do not: every property relates at most two. `DocumentCovered` checks the chunking itself for every length and size up to
`MaxText` and every smaller overlap, independently of the job's size; the deployed 512 and 64 differ
only in scale. `clients` allows one event on its way; two, and any number, were explored once and agree.
`Copies` is 1 there: the count of results only moves the stream on. Symmetry is used in
runs without liveness properties, among the values an instance does not tell apart.

Fairness. `HandlerSpec` says that the event loop resumes suspended handlers, since database calls
end; payments, slashes and completion are one fair alternative because they are the consecutive
stretches of one function. `TimerFairness` says that submissions end, with a timer or a 500, that timers fire and that the cloud request is
aborted after `cloudFallbackTimeoutMs`; `NodeFairness` that nodes poll
(`edge-daemon/src-tauri/src/ws/client.rs:251`) and answer what they are assigned. The code does not guarantee the latter:
a dropped send or a panic leaves a clone without an answer, and then the SLA timer settles the task. They are premises of the
properties that need them: `EventuallySettled` needs no node, `SwarmDecides` no timer, and the latter
further supposes that from some point on all three nodes stay connected, by one connection each, since with three clones and
anti-affinity fewer cannot decide a task. `Fleet` makes messages on open connections arrive, handlers
resume, executions end, with a result or in a panic (their fuel is limited), the library's idle timeout act (`ws/server.ts:37`) and a daemon notice a dead
peer when its next heartbeat cannot be sent; the heartbeat monitor, network failures and
crashes get none. `RagFairSpec` makes statements end, timers fire, intervals poll and events arrive;
users and broken connections get none, and `PanelSettles` excludes a user who tracks the same task
again and again. Nowhere is a crash fair.

## 4. What is proved

TLAPS checks the following for every value of the constants that the named assumptions of the
modules allow. Every invariant a passing run checks is among them.

| Module | Theorem | States |
|---|---|---|
| `Orchestrator_proofs` | `TypeCorrect`, `CustodyIsInvariant`, `ClonesInOnePlace`, `AntiAffinityHolds` | `TypeOK`, `CustodyInv`, `OnePlace`, `AntiAffinity` |
| `Settlement_proofs` | `AssignmentsFollow`, `IpAntiAffinityHolds`, `NoneIsLost` | `AssignmentsFollowHolders`, `IpAntiAffinity`, `NoCloneLost` |
| | `VerdictsAreOrdered`, `RunsAreComplete`, `VerdictsAreStable` | `VerdictInv`, `RunsSeeAllResults`, `VerdictStable` (an action property) |
| | `SettlementIsInvariant`, `VerdictsAreSettledOnce`, `MajoritiesArePaid` | `SettlementInv`, `OneVerdict`, `SlashesHaveMajority` |
| | `LifecycleImplemented`, `CustodyImplemented` | the refinements `ImplementsLifecycle`, `ImplementsCustody` |
| | `NodesStayDistinct`, `NodesAreDistinct` | `CloneCustody` keeps the clones of a family on distinct nodes; by refinement, so does `Orchestrator` |
| `Fleet_proofs` | `TypeCorrect`, `RegistryStaysLive`, `StealsAreRegistered`, `WorkIsAgreed`, `ClonesAnsweredOnce`, `InProgressStaysExact` | `TypeOK`, `RegistryLive`, `StealsRegistered`, `WorkAgreed`, `OneAnswer`, `InProgressExact` |
| `Clients_proofs` | `ChunksCover`, `DocumentsAreCovered` | the chunking, for every length, size and smaller overlap; `DocumentCovered` |
| | `TypeCorrect`, `ChunksAreTimed`, `ShownVerdictsStand` | `TypeOK`, `ChunksTimed`, `VerdictShown` |
| `Consensus_proofs` | `TypeCorrect`, `ChoiceAlwaysAllowed`, `HashMajorityAlwaysPaid`, `OrderNeverMatters`, `MiddleAlwaysPaid` | `TypeOK`, `ChoiceAllowed`, `HashMajorityPaid`, `OrderIrrelevant`, `MiddleIsPaid` |
| `Rows_proofs` | `TypeCorrect`, `RowsAlwaysReached`, `RecoveryAlwaysSweeps`, `SubmissionAlwaysCompletes` | `TypeOK`, `RowsReached`, `RecoverySweeps`, `SubmissionCompletes` |
| `Sessions_proofs` | `TypeCorrect`, `SessionsStayVerified`, `LoginsAlwaysLimited` | `TypeOK`, `SessionsVerified`, `LoginLimits` |
| `Credentials_proofs` | `TypeCorrect`, `RevocationAlwaysHolds`, `PairingAlwaysKept` | `TypeOK`, `RevocationHolds`, `PairingKept` |

### Orchestrator: custody

Assumptions: finitely many tasks, `MaxDepth` a natural number, at least one clone per task, tier
and address functions of the right type, undefined values outside the sets they stand beside.
Agreement and the size of a majority are not used here.

Why the invariant is what it is. `AntiAffinity` is not inductive: `steal` consults the family
record, so one must know that the record covers every node that carries a clone of the family
(`FamilyCovers`), except once all results are in, when the record may be deleted
(`cleanupFamily`) because no clone of the family can be queued any more. That exception needs
`OnePlace` (a queued clone is not reported), and deletion needs `RunsComplete` (of the task of a run all
results are in). An eviction removes the node from the record of the whole family;
that the node has no *other* clone of it is `AntiAffinity` itself, so the two are proved
together. The eviction also erases the clone's result, which is harmless because a held clone has
none (`OnePlace`), and this keeps `RunsComplete`. A re-queue goes to the queue of the node's
tier on a disconnect and of the task's tier on an eviction: `HeldInTier` makes them the same,
which the injectivity of the queues across tiers needs. `NoneBeforeSubmission` says the clones a
submission issues are new.

Layout. The first part of `Orchestrator_proofs` says what each queue and family operation of `TierQueue` returns
(type, contents, no duplicates); `Filter`, a recursive function, is handled through its table of prefixes.
The rest groups the steps by their effect: `NothingMoves`, `GiveUp` (disconnect,
eviction) and `ResultMoves` (result, engine), with one lemma per action.

### Orchestrator: verdicts, money, refinements

The same assumptions. The majority is the one the engine found; that it is more than half is not used. Three invariants are
stacked on `CustodyInv`, each with what the next needs.

`StoreInv` is about the assignments. `AssignmentsFollowHolders` is not inductive, because a result that is suspended
before it reaches the engine has left the connection while its node must still be the assignee when
`applyConsensusEconomics` looks: `CarriersAssigned` speaks of every carrier (holding, arriving, reported) of a clone
whose task is in the store or which is reported, since a run works on with the results of a task purged under it. A
task that was never submitted, or died with its process, has no timer, result or run (`OutOfStore`); the cloud answers
once (`CloudOnce`).

`IpAntiAffinityHolds` is about what the server knows: `steal` compares addresses in `nodeIpMap` (`SameIp`), and every
node behind a known address that carries a clone of the family is in the family record (`FamilyCovers`) until all results are in.
Connectedness plays no part: a late close takes the address of a node that works on, and then nothing is promised
about it (section 5).

`VerdictInv` says that the engine runs once for a task (`OneRun`), that a verdict is written at the end of a run over
a full set of results (`RunsPrecedeVerdicts`), and that the task of a run is in the store until it is decided, unless
the cloud answered it, which is the only way to a purge before the verdict (`RunsInStore`). `RunsAreComplete` is the
last of these with `RunsComplete`. A second run would need a second last result, but a run
begins when all are in, and no eviction takes one away. `VerdictStable` follows: whatever could write over a verdict is a
run, of which there is none left, or a timer that looks at the status first.

`SettlementInv` follows the money through a run. What is still to be settled are entries of the task's own results whose
nodes were neither paid nor slashed (`EntriesSound`); those paid and those about to be are a majority, and nobody is
slashed before the last of them is paid (`MajorityFirst`); afterwards a slash has a majority behind it
(`MajorityBehindSlashes`). That distinct entries are distinct nodes is `AntiAffinity`, and that every payment
finds its node is `CarriersAssigned`: disconnections between the writes do not erase the assignment of an answered clone.

`LifecycleImplemented` maps each action to one of `TaskLifecycle`, or to no change of it. The work is in counting: the abstract
`reported` is the number of results, which reaches `Copies` exactly when all are in
(`CopiesCounted`, `ReportsCounted`); a task is `decided` when all its results are
in and no run records or pays any more, in the store or purged, and `VerdictInv` keeps that from shrinking. A
submission that ends in a 500 is `Refuse`; a run or cloud answer for a task that was purged under it decides or answers without a status.

`CustodyImplemented` maps each action to a move of clones. `PlacesSound` turns the refinement mapping, a case
distinction, into facts: by `OnePlace` the first case that applies is the only one. Submission is `Issue`; the SLA timer is
`Withdraw`, or a stutter when the task has left CLONED; purge is `Forget`; disconnect and
eviction are `GiveBack`; a steal is `Take`; a result is `Answer`, or gives the clone back when the store no longer wants
it; a result the engine refuses is a `Forget` or a stutter; the end of the process is `Reset`.
`NodesAreDistinct` then carries the abstract theorem over to the orchestrator.

`NoneIsLost` is a matter of room. A queue has no duplicates, so it and the clones to be put into it are at most all clones
(`RoomForAll`, by the library's facts on bijections); with a depth of at least that many nothing
is refused, and by `CarriersAssigned` the re-queue on disconnect and eviction, which asks the store for the assignee, skips nothing.

### Consensus

Assumptions: `OutputAssumption` (any set of outputs; a JSON number has a value, nothing has none) and
`MajorityAssumption` (any number of clones, a majority of more than half of them). `DecidedInv` says
that a verdict is the choice on all the results and that the others are the dissenters. `MatchesAre` is the step that is easy to get wrong in the
code: what agrees with a result is its fuzzy group if it is a finite number and its hash group
if it is not, so looking for numbers first cannot split a majority of equal outputs. With it `Choice` shows that the engine takes a majority whenever
there is one, and `MajoritiesMeet` - two majorities share a result - gives the rest: without a chain there is
only one, and whoever agrees with everybody is in it.

### Fleet

Assumptions: `FleetAssumption`; any number of daemons, sockets and clones, any capacity; `InProgressExact` counts, so it
needs `ClonesFinite`. `OneAnswer`
needs that a result on its way is one the connection still counts as active: otherwise the engine
could be given the result of a clone that went back to the queue. That holds because a clone on an
open connection is in exactly one of the four places between `handleTaskSteal` and
`handleTaskResult`, or else is one of those nobody works on any more (`unanswered`: a dropped send, a panic), which
stays apart from the four (`WorkInv`, which contains `WorkAgreed`), and because what the daemon still
executes of a lost session is never reported. `StealsRegistered` needs `RankInv`: whoever has a
tier, a steal, an assignment or an execution in this session was acknowledged as registered with
a profile, and the orchestrator forgets a registration only with the socket. `RegistryLive` needs
`SessionInv` and `SocketInv`: a socket has one owner from `Connect` until both ends are closed.
`InProgressExact` counts the places that panics `leaked` beside the executions, and needs `Apart`: what was assigned to a daemon it does not execute yet. `WorkInv` says so while
both ends are open; the daemon, however, still receives assignments after the orchestrator has closed
its end, and starting one twice in a session would be counted twice. The executions of earlier sessions are
summed over clones, and `Total` is a recursive definition on sets: that it unfolds, and grows by what a session leaves behind
(`TotalGrows`), is proved by a least counterexample over the cardinalities of subsets, since the library's
induction theorems cannot be used.

### Rows

Assumptions: those of `TaskLifecycle`, and `RowsAssumption` (tasks and nodes have different
names, since an update is a pair of a name and a value). `RowsReached` is about statements that overtake
each other, so it rests on `WritesInv`: whatever is under way says something the memory has been, or is the verdict
or cloud answer of a task that was purged before it was concluded (`Overtaken`). That the latter occurs to a task which had
come to the other conclusion, and to no other, is `MemoryInv`: what the memory has been of a task tells what preceded its purge.
It also needs `OrderInv` (a row comes after the task in memory, so a row of another process's task cannot be
one of this process's, and a submission refused before its statements has no row) and `BootInv` (while the recovery runs this process has neither tasks nor
statements, so the sweep does not race them). `RecoverySweeps` needs `SweepInv`: what is left to sweep is
exactly what the recovery selected.

### Sessions

Assumption: `SessionsAssumption` (finitely many requests, a limit of at least one). A token is for
a verified account although a login answers by what it read before: `VerifiedInv` says that what
a suspended request read is still true, because nothing makes an account unverified.
`LoginLimits` counts. `AddressInv` bounds the logins of an address by its limiter. `CountInv`
bounds the failures of an account: as long as it is not locked by the limit plus the
requests that are about to lock it, and when it is locked, together with the requests that
are still comparing a password, by the limit plus all requests - the requests that passed the check of
the lock before it was set. Its second conjunct, on the attempts that may still come, is what keeps the
failures in the range `TypeOK` gives them. An account that a request failed to lock
(`spared`) is outside the bound until it is reset, as in the property.

### Credentials

Assumption: `CredentialsAssumption`. `RevocationInv` says that a key that was withdrawn is
marked revoked and that a request begun with it afterwards never gets past the lookup. `CodesInv`
says that a request about to link has its code in the name of its user, `LinksInv` that a linked user
holds a code of the node and that a user without a link whose code is used up has a
request about to link or one that was cut short. `TypeCorrect` rests on `RequestInv`: a
request begun with a key has the row and the owner it looked up.

### Clients

Assumptions: those of `TaskLifecycle` and `ClientView`, and `ChunkAssumption` (a size of at least one and any overlap, also one that is not
smaller, with which the loop breaks after the first chunk; `DocumentCovered` speaks of smaller ones). `ChunksCover` is arithmetic: the loop's starts are the
multiples of the step below the length, found by a division (`Division`, `Multiples`), so the
last chunk reaches the end and each begins within the one before it. `ChunksTimed` needs `JobInv`, which
ties the tasks in the store to the point the loop has reached, and `TimerInv`: the loop starts a chunk's
timer before it makes the next task. `VerdictShown` is about a message that was true when it was sent: `Stands` says
what a verdict may have become since, `TaskInv` that a verdict in the store is a decision, and `VerdictsStand` that
no step makes a verdict stop standing. With that, `ViewInv` asks it of every event on the wire, of the
reply to the fallback request and of the panel, each with the task it is about.

### Only model-checked

The seven liveness properties, `EventuallySettled`, `SwarmDecides` and `FullReportDecided` of `Orchestrator`, `HeldIsSettled` and
`WorkFlows` of `Fleet`, `ChunksSettle` and `PanelSettles` of `RagPipeline`: they rest on fairness, and so on `ENABLED`, which is outside what the
prover handles. So are inductions over data with an operator parameter. Violated claims are shown by their runs.

## 5. Divergences found

The subject of a `claim_` run each; the quotations are in `PROJECT.json`.

1. A socket that closes during a handler's awaits ends the process: no response for its tasks.
2. No node is ever paid: a payout names a clone by an id that exists in memory only.
3. The cloud's answer does not reach the client: nobody registers the callback, and the stream ends with
   the breach.

Met while modelling, without a run of their own:

- *Verdicts.* A terminal status is not final (`state/task-store.ts:208`): a late verdict overwrites CLOUD_FALLBACK, a late
  cloud answer overwrites a verdict, after the nodes were paid or slashed; `VerdictStable` says what is left.
  "Strict hash comparison if fuzzy match failed or wasn't numerical" (`consensus/engine.ts:161`): outputs that are no
  numbers are compared as numbers when they begin with one, so two different dates of a year agree. "Correct nodes are
  paid; dissenting node gets reputation slashed" (`README.md:200`): two nodes whose executions failed agree on the empty
  output, and the node that executed the task is slashed.
- *Task path.* `sla/monitor.ts:12` says that a breach halts swarm routing, but the disconnect handler
  re-queues clones of breached tasks. `ws/handlers.ts:458` says that all active clones are re-queued,
  but a full queue refuses them. Purging a task leaves its family record. A purge by age does not wait for handlers:
  inside a run it ends the process (`consensus/engine.ts:91`), or lets a row get a status the memory never had
  (`state/task-store.ts:297`). A `timeoutMs` that makes no date, such as a string, is answered 500 (`api/rest.ts:153`)
  while the swarm works on the task, without SLA timer and rows.
- *Connections.* The late close of an old socket removes the newer registration of the node (`ws/server.ts:21`
  says the map serves broadcasting); the node works on, outside the registry, and without
  an address, so that a second node of that address gets a clone of the same task (`ws/handlers.ts:240`); so does a node that
  registers at the address of a departed one. A panic in an execution
  (`executor/runtime.rs:134`) takes one of the daemon's places for good and leaves the clone active; so does, without the place, an
  assignment that uWS drops (`ws/handlers.ts:276`). The cap of three tasks of a
  daemon can be exceeded by steals that are under way. A refused registration for a database
  error leaves the socket open and is never repeated; "schedule retry" (`ws/handlers.ts:171`) only
  logs. The RAM monitor announces an eviction message nobody sends (`README.md:215`). `registerNode` does
  not update the tier of a node that is already there.
- *Rows.* Clone ids in memory are not those of the rows: results, payouts and evictions violate foreign
  keys in a catch, and updates of clone rows match nothing. SLA_BREACHED is never written. A verdict's update that fails or
  is overtaken by the end of the process leaves the row CLONED, and the next boot marks a completed task FAILED.
  `state/recovery.ts` speaks of all abandoned tasks, while an error stops the sweep. Nodes may stay ONLINE
  until the next boot, since OFFLINE may be executed before a status that was sent earlier.
- *Accounts.* A code that expired cannot be renewed: nothing sends another, and signup answers 409. The count of
  failures stays when a lock ends, so the next failure locks again. A login that read the row before
  the lock clears it when it succeeds. `verifyUserEmail` does not trim the address as signup does.
- *Credentials.* Two registrations at a time may leave two codes of one node, which two users can use. When
  linking fails the code is used up, the node counts as paired and the user has no node. A request authenticated
  before a revocation may create another key after it. `database/schema.ts` speaks of a six-character code the
  daemon generates; the orchestrator generates six digits.
- *Clients.* "Fallback to REST polling" (`dashboard/app.js:914`) is a single request, whose late reply may be
  rendered over another task. A chunk may lie inside the one before it at the end of a document. The RAG endpoint
  attaches no abort handler although `readJson`'s comment says routes do. The status of a job is 404 until all
  chunks are dispatched; a crash in between loses the job while rows of its tasks stay.

## 6. Not modelled, and what is left

The wire protocol's encoding, the hardware profiler, the ML service and client, the mock cloud and the
rest of the dashboard keep no state that the rest depends on. Left for further work: amounts and reputations
(`Payments` and `Orchestrator` count payments and slashes, not what they add up to).
