---------------------------- MODULE MCRetrieval ----------------------------
(***************************************************************************)
(* The instance of Retrieval for TLC.  The plans have every shape of       *)
(* dependency that matters to the waves; the strategies of their steps     *)
(* differ where two of them run together.  The agent stops when it is over.*)
(***************************************************************************)
EXTENDS RetrievalProperties

S(label, deps, strategy) == [idx |-> label, deps |-> deps, own |-> strategy, text |-> TRUE]
M(label, deps) == [S(label, deps, "both") EXCEPT !.text = FALSE]

MCPlans ==
  { <<>>,                                                     \* []
    <<S(1, {}, "both"), S(2, {}, "both")>>,                   \* parallel
    <<S(1, {}, "kg"), S(2, {1}, "both")>>,                    \* a chain
    <<S(1, {2}, "rag"), S(2, {}, "both")>>,                   \* not in order
    <<S(1, {1}, "both")>>,                                    \* on itself
    <<S(1, {2}, "rag"), S(2, {1}, "both")>>,                  \* a circle
    <<S(1, {}, "kg"), S(1, {}, "rag")>>,                      \* one label
    <<M(1, {}), S(2, {}, "both")>>,                           \* no question
    <<S(1, {}, "kg"), S(2, {1, 7}, "kg"), S(3, {1}, "rag")>>, \* a cut plan
    <<S(1, {}, "kg"), S(2, {1}, "kg"), S(3, {1, 2}, "rag")>>, \* a fork
    <<S(1, {}, "kg"), S(2, {}, "rag"), S(3, {1, 2}, "kg")>>,  \* a join
    <<S(1, {}, "kg"), S(2, {}, "kg"), S(3, {2}, "both")>> }   \* half a chain
=============================================================================
