----------------------------- MODULE MCPipeline -----------------------------
(***************************************************************************)
(* The instance of Pipeline for TLC: two requests on one session suffice   *)
(* for a run to overtake, resume or be overwritten by another one.  With   *)
(* max_rollbacks 1, the default, max_iterations 7 is the smallest value    *)
(* that lets an attempt be rolled back and retried (3 + 3 < 7); the        *)
(* iterations a first run leaves behind bring the second one to every      *)
(* distance from the ceiling.                                              *)
(***************************************************************************)
EXTENDS PipelineProperties
=============================================================================
