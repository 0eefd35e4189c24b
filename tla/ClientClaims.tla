----------------------------- MODULE ClientClaims -----------------------------
(***************************************************************************)
(* What comments of the repository say of the clients' view and the code   *)
(* does not do.                                                            *)
(***************************************************************************)
EXTENDS RagPipeline

(* monitor.ts:14: the cloud's response is returned to the client.  So a    *)
(* client that was told of the breach is not left with that for good when  *)
(* the cloud has answered.  But the stream and the dashboard end with      *)
(* SLA_BREACHED, and the callback that delivers the output is never set.   *)
CloudResponseReturned ==
  \A t \in Tasks :
    ~<>[](/\ panel = [task |-> t, shows |-> "SLA_BREACHED"] /\ source = "closed"
          /\ status[t] = "CLOUD_FALLBACK")
=============================================================================
