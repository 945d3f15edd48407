------------------------- MODULE PipelineProperties -------------------------
(***************************************************************************)
(* What is claimed of Pipeline: the properties its runs check and the      *)
(* refinement mapping to Workflow.                                         *)
(***************************************************************************)
EXTENDS Pipeline

Statuses == {"idle", "running", "answered", "failed", "crashed"}
Kinds == {"none", "chat", "approve", "reject", "edit"}

\* The variables have the types of the channels and handlers they model.
TypeOK ==
  /\ saved \in State
  /\ run \in [Requests -> State]
  /\ status \in [Requests -> Statuses]
  /\ kind \in [Requests -> Kinds]
  /\ steps \in [Requests -> Nat]
  /\ limit \in [Requests -> Nat]

-----------------------------------------------------------------------------
(* Safety *)

\* However requests interleave, crash and resume, no run and no checkpoint
\* ever counts more rollbacks than max_rollbacks: post_validate and the
\* gateway both test the count, and the runs of a session inherit it.
RollbackBounded ==
  /\ saved.rb <= MaxRollbacks
  /\ \A r \in Requests : run[r].rb <= MaxRollbacks

\* No run is ever cut off by LangGraph's GraphRecursionError: the limit the
\* handlers configure is above the longest run the routing can produce.
StepsBelowLimit ==
  \A r \in Requests : status[r] = "running" => steps[r] < limit[r]

\* max_iterations is a hard ceiling: no agent is dispatched at or above it,
\* and no run that has executed an agent counts past it.
HardCeiling ==
  \A r \in Requests :
    /\ run[r].pc \in Agents => run[r].iter < run[r].max
    /\ run[r].ran # {} \/ run[r].retried => run[r].iter <= run[r].max

\* An agent never runs before the ones whose evidence it works on have run
\* in the same attempt, also when the run resumes a checkpoint of another
\* request or restarts after a rollback or a rejection.
StagesInOrder ==
  \A r \in Requests :
    /\ run[r].pc = "generation_agent" => "retrieval_agent" \in run[r].ran
    /\ run[r].pc = "evaluation_agent" =>
         {"retrieval_agent", "generation_agent"} \subseteq run[r].ran

\* A rollback is granted only when the retry can be finished: once a run has
\* rolled back it is not assembled before the retry, too, has been explored,
\* generated and evaluated (the "- 3" in _rollback_routing).
RetryReachesValidation ==
  \A r \in Requests :
    run[r].retried /\ run[r].pc = "assemble_output" => run[r].ran = Agents

\* A chat delivers an output its own evaluation has not passed only when the
\* rollbacks or the iterations left are used up.
UnvalidatedOnlyWhenExhausted ==
  \A r \in Requests :
    kind[r] = "chat" /\ run[r].pc = "assemble_output" =>
      \/ "evaluation_agent" \in run[r].ran /\ run[r].eval = "pass"
      \/ run[r].rb = MaxRollbacks
      \/ run[r].iter + 3 >= run[r].max

-----------------------------------------------------------------------------
(* Refinement: the stage of a run is its phase; the unknown phase of the   *)
(* reject handler stands for exploring, which the gateway makes of it.     *)

Live(r) == status[r] = "running"

Stage(r) ==
  CASE status[r] = "idle"                           -> "idle"
    [] Live(r) /\ run[r].phase = "generation"       -> "explore"
    [] Live(r) /\ run[r].phase # "generation"       -> run[r].phase
    [] OTHER                                        -> "over"

W == INSTANCE Workflow WITH
       stage   <- [r \in Requests |-> Stage(r)],
       retries <- [r \in Requests |-> run[r].rb]

\* Every run goes through the phases in the order gateway.py documents.
FollowsWorkflow == W!Spec

-----------------------------------------------------------------------------
(* Liveness *)

\* A run whose process survives comes to an end: the retry loop of the graph
\* cannot go on for ever.
EveryRunEnds ==
  \A r \in Requests : status[r] = "running" ~> status[r] # "running"

-----------------------------------------------------------------------------
(* Claims of the documentation that the code does not keep *)

\* agent.py:102: a chat starts at the Explore phase, so no output is
\* assembled for a chat before retrieval has run for its query.
ChatExplores ==
  \A r \in Requests :
    kind[r] = "chat" /\ run[r].pc = "assemble_output" =>
      "retrieval_agent" \in run[r].ran

\* nodes.py:244: a plan the LLM gets wrong is replaced by the default plan,
\* so it fails no chat.
BadPlanFallsBack ==
  \A r \in Requests : kind[r] = "chat" => status[r] # "failed"
=============================================================================
