--------------------------- MODULE MCNeo4jClient ---------------------------
(***************************************************************************)
(* The instance of Neo4jClient for TLC.  The first call is the lifespan's  *)
(* connect; the other three are enough for one to connect, a second to     *)
(* close its driver, and a third to open the next one under the first.     *)
(* Every call ends, and the system with the last one.                      *)
(***************************************************************************)
EXTENDS Neo4jClientProperties
=============================================================================
