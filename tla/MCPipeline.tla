------------------------------ MODULE MCPipeline ------------------------------
(***************************************************************************)
(* Small instances of Pipeline.  Requests are not declared symmetric: the  *)
(* runs check liveness.                                                    *)
(***************************************************************************)
EXTENDS Pipeline
=============================================================================
