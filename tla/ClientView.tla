------------------------------ MODULE ClientView ------------------------------
(***************************************************************************)
(* A client that follows a task in the dashboard's tracker: the event      *)
(* stream of the REST API, polled from the task store, and the single      *)
(* status request the dashboard falls back to when the stream fails.       *)
(*                                                                         *)
(* The store's changes, the server's polls, the events on the wire, the    *)
(* dashboard's callbacks and the user's next choice interleave freely.     *)
(***************************************************************************)
EXTENDS TaskLifecycle, Sequences

CONSTANTS
  NoTask,
  MaxEvents    \* bound: events of a stream on their way

ASSUME ViewAssumption == NoTask \notin Tasks /\ MaxEvents \in Nat \ {0}

VARIABLES
  tracked,   \* the task whose stream the dashboard opened last
  source,    \* activeEventSource: "open" until a callback closes it
  stream,    \* the server's end of that stream
  lastSeen,  \* lastStatus and lastResultCount of its interval
  wire,      \* its events on their way, oldest first
  fallback,  \* the request of trackTaskFallback, and the reply to be shown
  panel      \* the content of #tracker-result

viewVars == <<tracked, source, stream, lastSeen, wire, fallback, panel>>

(* The statuses the stream ends with *)
Closing == Terminal \union {"SLA_BREACHED"}

(* "error": the task is not found, or the request failed *)
Replies == {"error", "CLONED"} \union Closing

NothingSeen == <<"none", 0>>
NoRequest   == [task |-> NoTask, reply |-> "none"]

ViewTypeOK ==
  /\ tracked \in Tasks \union {NoTask}
  /\ source \in {"open", "closed"}
  /\ stream \in {"opening", "polling", "ended"}
  /\ lastSeen \in {NothingSeen} \union Replies \X (0 .. Copies)
  /\ wire \in Seq(Replies)
  /\ fallback \in {NoRequest} \union [task : Tasks, reply : Replies \union {"asked"}]
  /\ panel \in [task : Tasks \union {NoTask}, shows : Replies \union {"nothing"}]

ViewInit ==
  /\ tracked = NoTask
  /\ source = "closed"
  /\ stream = "ended"
  /\ lastSeen = NothingSeen
  /\ wire = << >>
  /\ fallback = NoRequest
  /\ panel = [task |-> NoTask, shows |-> "nothing"]

(* What a snapshot, or the status request, says of t at this moment *)
Snapshot(t) == IF InStore(t) THEN status[t] ELSE "error"

-----------------------------------------------------------------------------
(* The dashboard *)

(* trackTask: the old source is closed, and with it everything of its      *)
(* stream that has not been delivered; a fallback request is not.          *)
TrackTask(t) ==
  /\ tracked' = t
  /\ source' = "open"
  /\ stream' = "opening"
  /\ lastSeen' = NothingSeen
  /\ wire' = << >>
  /\ UNCHANGED <<lifecycleVars, fallback, panel>>

(* es.close(): nothing more is delivered, and the abort ends the stream. *)
CloseSource ==
  /\ source' = "closed"
  /\ stream' = "ended"
  /\ lastSeen' = NothingSeen
  /\ wire' = << >>

(* es.onmessage: show it, and close the source with the last one. *)
OnMessage ==
  /\ source = "open" /\ wire # << >>
  /\ panel' = [task |-> tracked, shows |-> Head(wire)]
  /\ IF Head(wire) = "CLONED"
     THEN wire' = Tail(wire) /\ UNCHANGED <<source, stream, lastSeen>>
     ELSE CloseSource
  /\ UNCHANGED <<lifecycleVars, tracked, fallback>>

(* es.onerror: the stream ended without a last message.  Bound: one        *)
(* fallback request under way.                                             *)
OnError ==
  /\ source = "open" /\ fallback = NoRequest
  /\ stream = "ended" /\ wire = << >>
  /\ CloseSource
  /\ fallback' = [task |-> tracked, reply |-> "asked"]
  /\ UNCHANGED <<lifecycleVars, tracked, panel>>

(* The connection breaks, and its undelivered events are lost. *)
ConnectionBreaks ==
  /\ source = "open"
  /\ stream' = "ended"
  /\ lastSeen' = NothingSeen
  /\ wire' = << >>
  /\ UNCHANGED <<lifecycleVars, tracked, source, fallback, panel>>

(* GET /api/task/:id/status is answered, or fails. *)
AnswerFallback ==
  /\ fallback.reply = "asked"
  /\ \E reply \in {Snapshot(fallback.task), "error"} :
       fallback' = [fallback EXCEPT !.reply = reply]
  /\ UNCHANGED <<lifecycleVars, tracked, source, stream, lastSeen, wire, panel>>

(* The reply is rendered, whatever the panel shows by now. *)
RenderFallback ==
  /\ fallback.reply \in Replies
  /\ panel' = [task |-> fallback.task, shows |-> fallback.reply]
  /\ fallback' = NoRequest
  /\ UNCHANGED <<lifecycleVars, tracked, source, stream, lastSeen, wire>>

-----------------------------------------------------------------------------
(* GET /api/task/:id/stream *)

(* sendSnapshot, and the end of the stream unless it should go on.  The    *)
(* interval begins with nothing seen, whatever the first snapshot was.     *)
Send(seen) ==
  /\ Len(wire) < MaxEvents
  /\ wire' = Append(wire, Snapshot(tracked))
  /\ IF Snapshot(tracked) = "CLONED"
     THEN stream' = "polling" /\ lastSeen' = seen
     ELSE stream' = "ended" /\ lastSeen' = NothingSeen

OpenStream ==
  /\ source = "open" /\ stream = "opening"
  /\ Send(NothingSeen)
  /\ UNCHANGED <<lifecycleVars, tracked, source, fallback, panel>>

(* Mutant: the interval of a task that left the store goes on for nothing. *)
PollOfStore ==
  /\ source = "open" /\ stream = "polling" /\ InStore(tracked)
  /\ lastSeen # <<status[tracked], reported[tracked]>>
  /\ Send(<<status[tracked], reported[tracked]>>)
  /\ UNCHANGED <<lifecycleVars, tracked, source, fallback, panel>>

(* The interval: a change of the status or of the number of results is     *)
(* sent; a task that left the store ends the stream without a word.        *)
Poll ==
  /\ source = "open" /\ stream = "polling"
  /\ IF InStore(tracked)
     THEN /\ lastSeen # <<status[tracked], reported[tracked]>>
          /\ Send(<<status[tracked], reported[tracked]>>)
     ELSE stream' = "ended" /\ lastSeen' = NothingSeen /\ UNCHANGED wire
  /\ UNCHANGED <<lifecycleVars, tracked, source, fallback, panel>>

(* Every stream ends when the process does. *)
StreamsEnd ==
  /\ stream' = "ended"
  /\ lastSeen' = NothingSeen
  /\ UNCHANGED <<tracked, source, wire, fallback, panel>>

-----------------------------------------------------------------------------
Watch == \/ OnMessage \/ OnError \/ ConnectionBreaks
         \/ AnswerFallback \/ RenderFallback \/ OpenStream \/ Poll

(* Events are delivered, intervals fire and requests are answered; nothing *)
(* makes the user choose or the connection break.                          *)
ViewFairness ==
  /\ WF_viewVars(OnMessage) /\ WF_viewVars(OnError)
  /\ WF_viewVars(OpenStream) /\ WF_viewVars(Poll)
  /\ WF_viewVars(AnswerFallback) /\ WF_viewVars(RenderFallback)
=============================================================================
