----------------------------- MODULE RagPipeline -----------------------------
(***************************************************************************)
(* The jobs of POST /api/rag/process: a document is cut into overlapping   *)
(* chunks, each of which becomes a task of its own, one after the other    *)
(* with a database write in between, while the tasks already created are   *)
(* worked on, breach their SLA, or vanish with the process.  A client      *)
(* follows the tasks of an answered job (module ClientView).               *)
(*                                                                         *)
(* Nothing calls onVectorizationComplete, so phases 2 and 3 are never      *)
(* reached and are not modelled: a job stays in phase 1.                   *)
(***************************************************************************)
EXTENDS ClientView, FiniteSets

CONSTANTS
  Documents,
  MaxLength,            \* bound: characters of a document
  ChunkSize, Overlap,   \* config.ragChunkSize, config.ragOverlap
  MaxText               \* bound: sizes the chunking itself is checked for

ASSUME ChunkAssumption ==
  /\ MaxLength \in Nat \ {0} /\ ChunkSize \in Nat \ {0} /\ Overlap \in Nat
  /\ MaxText \in Nat
  /\ Tasks = Documents \X (1 .. MaxLength)

VARIABLES
  job,       \* document -> where initiateRagPipeline stands with it
  length,    \* document -> its length
  next       \* document -> the chunk whose task is being written

ragVars == <<job, length, next>>
allVars == <<lifecycleVars, viewVars, ragVars>>

(* running: in ragPipelineState and answered with 202; forgotten: lost     *)
(* after that answer; refused: answered with 500.                          *)
Stages == {"none", "storing", "dispatching", "running", "forgotten", "refused", "lost"}

TypeOK ==
  /\ LifecycleTypeOK /\ ViewTypeOK
  /\ job \in [Documents -> Stages]
  /\ length \in [Documents -> 0 .. MaxLength]
  /\ next \in [Documents -> 0 .. MaxLength]

RagInit ==
  /\ Init /\ ViewInit
  /\ job = [d \in Documents |-> "none"]
  /\ length = [d \in Documents |-> 0]
  /\ next = [d \in Documents |-> 0]

-----------------------------------------------------------------------------
(* chunkDocument *)

Step(size, overlap) == size - overlap

(* Mutant: what is left at the end, shorter than a chunk, gets none. *)
StartsWhole(n, size, overlap) ==
  LET step == Step(size, overlap)
  IN  IF step <= 0 THEN {0}
      ELSE {p \in 0 .. n - 1 : p % step = 0 /\ (p = 0 \/ p + size <= n)}

(* Where the chunks of n characters begin.  Without an advance the loop    *)
(* breaks after the first.                                                 *)
Starts(n, size, overlap) ==
  LET step == Step(size, overlap)
  IN  IF step <= 0 THEN {0}
      ELSE {p \in 0 .. n - 1 : p % step = 0}

ChunkAt(p, n, size) == {q \in p .. p + size - 1 : q < n}

(* Each chunk is pushed, and each gets a task. *)
ChunksOf(d) == Cardinality(Starts(length[d], ChunkSize, Overlap))

Chunks(d) == {<<d, i>> : i \in 1 .. ChunksOf(d)}

-----------------------------------------------------------------------------
(* initiateRagPipeline *)

(* An empty document is refused before anything happens. *)
Initiate(d) ==
  /\ job[d] = "none"
  /\ \E n \in 1 .. MaxLength : length' = [length EXCEPT ![d] = n]
  /\ job' = [job EXCEPT ![d] = "storing"]
  /\ UNCHANGED <<lifecycleVars, viewVars, next>>

(* createTask and createAndEnqueueClones for chunk i of d *)
CreateTask(d, i) ==
  /\ status' = [status EXCEPT ![<<d, i>>] = "CLONED"]
  /\ next' = [next EXCEPT ![d] = i]
  /\ job' = [job EXCEPT ![d] = "dispatching"]

(* storeDocumentChunks is over: the loop begins, or its error is answered. *)
StoreChunks(d) ==
  /\ job[d] = "storing"
  /\ \/ CreateTask(d, 1)
     \/ job' = [job EXCEPT ![d] = "refused"] /\ UNCHANGED <<status, next>>
  /\ UNCHANGED <<reported, cloud, decided, viewVars, length>>

(* Mutant: a chunk whose rows could not be written is not timed. *)
DispatchIfPersisted(d) ==
  LET i == next[d]
  IN  /\ job[d] = "dispatching"
      /\ \E c \in {"timed", "untimed"} : cloud' = [cloud EXCEPT ![<<d, i>>] = c]
      /\ IF i < ChunksOf(d)
         THEN CreateTask(d, i + 1)
         ELSE job' = [job EXCEPT ![d] = "running"] /\ UNCHANGED <<status, next>>
      /\ UNCHANGED <<reported, decided, viewVars, length>>

(* The rows of chunk i are written, or have failed to be: its SLA timer    *)
(* starts, and the next chunk is created in the same stretch.  After the   *)
(* last the job enters ragPipelineState and 202 is answered.               *)
Dispatch(d) ==
  LET i == next[d]
  IN  /\ job[d] = "dispatching"
      /\ cloud' = [cloud EXCEPT ![<<d, i>>] = "timed"]
      /\ IF i < ChunksOf(d)
         THEN CreateTask(d, i + 1)
         ELSE job' = [job EXCEPT ![d] = "running"] /\ UNCHANGED <<status, next>>
      /\ UNCHANGED <<reported, decided, viewVars, length>>

(* The process ends: jobs and streams go with the task store. *)
ProcessDies ==
  /\ Die /\ StreamsEnd
  /\ job' = [d \in Documents |->
       IF job[d] = "running" THEN "forgotten"
       ELSE IF job[d] \in {"storing", "dispatching"} THEN "lost" ELSE job[d]]
  /\ UNCHANGED <<length, next>>

-----------------------------------------------------------------------------
(* The ids of the chunk tasks are known to the client from the answer on.  *)
Known(t) == job[t[1]] \in {"running", "forgotten"} /\ t \in Chunks(t[1])

RagNext ==
  \/ \E d \in Documents : Initiate(d) \/ StoreChunks(d) \/ Dispatch(d)
  \/ \E t \in Tasks : Proceed(t) /\ UNCHANGED <<viewVars, ragVars>>
  \/ \E t \in Tasks : Known(t) /\ TrackTask(t) /\ UNCHANGED ragVars
  \/ Watch /\ UNCHANGED ragVars
  \/ ProcessDies

RagSpec == RagInit /\ [][RagNext]_allVars

(* Database calls end, and so do timers, cloud requests and what ClientView *)
(* says of streams.                                                        *)
RagFairSpec ==
  /\ RagSpec
  /\ \A d \in Documents : WF_allVars(StoreChunks(d)) /\ WF_allVars(Dispatch(d))
  /\ TimerFairness
  /\ ViewFairness

-----------------------------------------------------------------------------
(* Chunking loses nothing: every character is in a chunk, and a chunk      *)
(* begins within an earlier one that shares the overlap with it, except    *)
(* where the document ends.                                                *)
Covers(n, size, overlap) ==
  LET starts == Starts(n, size, overlap)
  IN  /\ UNION {ChunkAt(p, n, size) : p \in starts} = 0 .. n - 1
      /\ \A p \in starts \ {0} : \E q \in starts :
           /\ q < p
           /\ Cardinality(ChunkAt(q, n, size) \intersect p .. n - 1)
                = IF n - p < overlap THEN n - p ELSE overlap

(* The document that is stored is covered, and so would be any other with  *)
(* any size and any smaller overlap, one divides the other or not          *)
(* (pipeline.ts:352).                                                      *)
DocumentCovered ==
  (\E d \in Documents : job[d] = "storing") =>
    \A n, size \in 1 .. MaxText : \A overlap \in 0 .. size - 1 : Covers(n, size, overlap)

(* A chunk task without an SLA timer is one whose job is writing its rows  *)
(* at this moment; a job that is answered lists tasks that all exist or    *)
(* existed and are timed, and a job that is refused left no task behind.   *)
ChunksTimed ==
  /\ \A d \in Documents, i \in 1 .. MaxLength :
       InStore(<<d, i>>) /\ cloud[<<d, i>>] = "untimed" =>
         job[d] = "dispatching" /\ next[d] = i
  /\ \A d \in Documents :
       /\ job[d] = "running" => \A t \in Chunks(d) : status[t] \notin {"NONE", "LOST"}
       /\ job[d] = "refused" => \A i \in 1 .. MaxLength : status[<<d, i>>] = "NONE"

(* Every chunk task that is created ends, whether or not its job ever gets *)
(* to the point of being answered.                                         *)
ChunksSettle ==
  \A t \in Tasks : status[t] = "CLONED" ~> status[t] \in Terminal \union {"LOST"}

(* A verdict on the screen is one the engine reached: whatever arrived     *)
(* late or from an earlier request, only the cloud or the end of the task  *)
(* took its place in the store since (app.js:913, rest.ts:281).            *)
VerdictShown ==
  panel.shows \in Verdicts =>
    status[panel.task] \in {panel.shows, "CLOUD_FALLBACK", "PURGED", "LOST"}

(* Whoever tracks a task, and does not ask for it again and again, gets to *)
(* see how its stream ends, or the reply to the request made in its place; *)
(* no stream stays open with nothing to say for ever, through purges,      *)
(* restarts and broken connections.                                        *)
PanelSettles ==
  \A t \in Tasks :
    \/ []<><<TrackTask(t)>>_viewVars
    \/ source = "open" /\ tracked = t ~>
         tracked # t \/ (source = "closed" /\ panel.task = t)
=============================================================================
