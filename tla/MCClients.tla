------------------------------ MODULE MCClients ------------------------------
(***************************************************************************)
(* Instances of RagPipeline for TLC: the chunk tasks of a few documents.   *)
(***************************************************************************)
EXTENDS ClientClaims

CONSTANT d1

ChunkTasks == Documents \X (1 .. MaxLength)
=============================================================================
