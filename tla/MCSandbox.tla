----------------------------- MODULE MCSandbox -----------------------------
(***************************************************************************)
(* The instance of Sandbox for TLC: an experiment that is run twice, the   *)
(* second time with what the first has left behind.                        *)
(***************************************************************************)
EXTENDS SandboxProperties
=============================================================================
