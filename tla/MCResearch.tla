----------------------------- MODULE MCResearch -----------------------------
(***************************************************************************)
(* The instance of Research for TLC.  Two starts let one work on what the  *)
(* other has left behind.  The first iteration of a run takes 24           *)
(* supersteps with the start and the conclusion, and a further one 18 or   *)
(* 21: a recursion limit of 25, LangGraph's default, cuts it off.          *)
(***************************************************************************)
EXTENDS ResearchProperties
=============================================================================
