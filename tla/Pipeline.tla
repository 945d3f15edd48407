------------------------------ MODULE Pipeline ------------------------------
(***************************************************************************)
(* The question-answering pipeline of app/orchestration: the LangGraph     *)
(* graph of graph.py, its gateway, its worker and helper nodes, and the    *)
(* /chat and /review handlers that start runs of it on one session         *)
(* (thread_id).                                                            *)
(*                                                                         *)
(* Several requests may work on the session at once.  Each run reads the   *)
(* latest checkpoint when it starts, keeps the channel values in memory    *)
(* (run[r]) and writes a checkpoint (saved) after every superstep; it      *)
(* never reads the checkpoint again.  A superstep executes one node, so    *)
(* every node of the graph is one atomic action.                           *)
(*                                                                         *)
(* The human_review node has no action: no Command of the gateway goes to  *)
(* it (see GatewayAfterReview).                                            *)
(***************************************************************************)
EXTENDS Naturals

CONSTANTS
  Requests,       \* the requests made on the session, each used at most once
  MaxIterations,  \* the values of max_iterations the chat requests choose
  MaxRollbacks,   \* PipelineState.max_rollbacks, which no request ever sets
  HITL            \* settings.HITL_ENABLED

\* ChatRequest.max_iterations is validated to 1..50 (schemas/request.py).
ASSUME MaxIterationsAssumption == MaxIterations \subseteq 1..50

ASSUME HITLAssumption == HITL \in BOOLEAN

(***************************************************************************)
(* The default is 1.  Each rollback costs 17 supersteps more, and the      *)
(* smallest recursion_limit of the handlers, 50, has room for exactly that *)
(* many; START takes one superstep (StepsBelowLimit).                      *)
(***************************************************************************)
ASSUME MaxRollbacksAssumption ==
  MaxRollbacks \in Nat /\ 17 * MaxRollbacks + 18 <= 50

\* PipelineState.max_iterations when no request has set it.
DefaultMaxIterations == 10

VARIABLES
  saved,   \* the session's latest checkpoint
  run,     \* run[r]: the channel values and next node of r's run, in memory
  status,  \* status[r]: what became of request r
  kind,    \* kind[r]: which handler serves request r
  steps,   \* steps[r]: supersteps of r's run so far, START included
  limit    \* limit[r]: the recursion_limit its handler configured

vars == <<saved, run, status, kind, steps, limit>>

-----------------------------------------------------------------------------
(***************************************************************************)
(* Channel values.  eval abstracts agent_outputs to the score of the last  *)
(* evaluation (no evaluation, pass, fail).  planOk says that plan_dag has  *)
(* the type PipelineState declares for it, List[Dict].  The evidence graph *)
(* does not influence the routing and is left out.  ran and retried are    *)
(* history: the agents that have run in the current attempt, and whether   *)
(* the attempt follows a rollback of this run.                             *)
(***************************************************************************)
Agents == {"retrieval_agent", "generation_agent", "evaluation_agent"}

Nodes == Agents \cup {"gateway", "phase_transition", "post_validate",
                      "freeze_context", "plan_phase", "rollback_phase",
                      "assemble_output"}

\* "none": the session has no checkpoint; "end": the run reached END.
Places == Nodes \cup {"none", "end"}

\* "generation" is no PipelinePhase: only the reject handler writes it.
Phases == {"explore", "freeze", "plan", "execute", "validate", "done",
           "rollback", "human_review", "generation"}

State == [pc       : Places,
          phase    : Phases,
          iter     : Nat,
          max      : Nat,
          rb       : Nat,
          eval     : {"none", "pass", "fail"},
          planOk   : BOOLEAN,
          ran      : SUBSET Agents,
          retried  : BOOLEAN]

\* The defaults of PipelineState.
NewSession == [pc |-> "none", phase |-> "explore", iter |-> 0,
               max |-> DefaultMaxIterations, rb |-> 0, eval |-> "none",
               planOk |-> TRUE, ran |-> {}, retried |-> FALSE]

Init ==
  /\ saved = NewSession
  /\ run = [r \in Requests |-> NewSession]
  /\ status = [r \in Requests |-> "idle"]
  /\ kind = [r \in Requests |-> "none"]
  /\ steps = [r \in Requests |-> 0]
  /\ limit = [r \in Requests |-> 0]

-----------------------------------------------------------------------------
(***************************************************************************)
(* The request handlers.                                                   *)
(***************************************************************************)

\* The run of request r starts from state s.
Begin(r, k, s, lim) ==
  /\ run' = [run EXCEPT ![r] = s]
  /\ saved' = s
  /\ status' = [status EXCEPT ![r] = "running"]
  /\ kind' = [kind EXCEPT ![r] = k]
  /\ steps' = [steps EXCEPT ![r] = 1]
  /\ limit' = [limit EXCEPT ![r] = lim]

\* Request r gets its reply without any superstep.
ReplyAtOnce(r, k, outcome) ==
  /\ status' = [status EXCEPT ![r] = outcome]
  /\ kind' = [kind EXCEPT ![r] = k]
  /\ UNCHANGED <<saved, run, steps, limit>>

\* The run of request r is over, and its memory with it.
Release(r, outcome) ==
  /\ run' = [run EXCEPT ![r] = NewSession]
  /\ status' = [status EXCEPT ![r] = outcome]
  /\ steps' = [steps EXCEPT ![r] = 0]
  /\ limit' = [limit EXCEPT ![r] = 0]
  /\ UNCHANGED kind

\* An input starts the graph at its entry point on top of the persisted
\* channels; all that is not part of the input keeps its old value.
WithInput(phase) ==
  [saved EXCEPT !.pc = "gateway", !.phase = phase,
                !.ran = {}, !.retried = FALSE]

\* Mutant: the limit has no lower bound.
UnboundedLimit(m) == 4 * m

ChatLimit(m) == IF 4 * m + 20 > 50 THEN 4 * m + 20 ELSE 50

\* POST /chat and /chat/stream.
Chat(r) ==
  /\ status[r] = "idle"
  /\ \E m \in MaxIterations :
       Begin(r, "chat", [WithInput("explore") EXCEPT !.max = m], ChatLimit(m))

\* POST /review approve: ainvoke(None) resumes whatever node is pending; it
\* raises on an unknown thread and returns the values of a finished one.
Approve(r) ==
  /\ status[r] = "idle"
  /\ \/ saved.pc = "none" /\ ReplyAtOnce(r, "approve", "failed")
     \/ saved.pc = "end" /\ ReplyAtOnce(r, "approve", "answered")
     \/ /\ saved.pc \in Nodes
        /\ Begin(r, "approve", saved, 50)

\* POST /review reject.
Reject(r) ==
  /\ status[r] = "idle"
  /\ Begin(r, "reject", WithInput("generation"), 50)

\* POST /review edit: the edited content is not part of the input.
Edit(r) ==
  /\ status[r] = "idle"
  /\ Begin(r, "edit", WithInput("done"), 50)

\* The client of a stream disconnects, the process dies, a node raises or a
\* checkpoint cannot be written: the run is gone, its last checkpoint stays.
Crash(r) ==
  /\ status[r] = "running"
  /\ Release(r, "crashed")
  /\ UNCHANGED saved

-----------------------------------------------------------------------------
(***************************************************************************)
(* The graph's nodes.  Before a node runs, its input is parsed into a      *)
(* PipelineState; a plan_dag of the wrong type raises there (InvalidPlan). *)
(***************************************************************************)
At(r, node) == status[r] = "running" /\ run[r].planOk /\ run[r].pc = node

\* The superstep ends: its writes are applied and checkpointed.
Move(r, s) ==
  /\ run' = [run EXCEPT ![r] = s]
  /\ saved' = s
  /\ steps' = [steps EXCEPT ![r] = @ + 1]
  /\ UNCHANGED <<status, kind, limit>>

InvalidPlan(r) ==
  /\ status[r] = "running"
  /\ ~ run[r].planOk
  /\ Release(r, "failed")
  /\ UNCHANGED saved

-----------------------------------------------------------------------------
(* gateway.py *)

\* The node that serves each phase of the state machine.
Worker == [explore  |-> "retrieval_agent",
           freeze   |-> "freeze_context",
           plan     |-> "plan_phase",
           execute  |-> "generation_agent",
           validate |-> "evaluation_agent"]

Assembling(s) == [s EXCEPT !.pc = "assemble_output", !.phase = "done"]

\* Mutant: one iteration more than the ceiling.
PastCeiling(s) == s.iter > s.max

AtCeiling(s) == s.iter >= s.max

\* Mutant: the retry gets one iteration too few.
RollBackLate(s) == s.rb < MaxRollbacks /\ s.iter + 1 < s.max

MayRollBack(s) == s.rb < MaxRollbacks /\ s.iter + 3 < s.max

GatewayCeiling(r) ==
  /\ At(r, "gateway")
  /\ AtCeiling(run[r])
  /\ Move(r, Assembling(run[r]))

GatewayDispatch(r) ==
  /\ At(r, "gateway")
  /\ ~ AtCeiling(run[r])
  /\ run[r].phase \in DOMAIN Worker
  /\ Move(r, [run[r] EXCEPT !.pc = Worker[run[r].phase]])

GatewayRollback(r) ==
  /\ At(r, "gateway")
  /\ ~ AtCeiling(run[r])
  /\ run[r].phase = "rollback"
  /\ MayRollBack(run[r])
  /\ Move(r, [run[r] EXCEPT !.pc = "rollback_phase"])

GatewayExhausted(r) ==
  /\ At(r, "gateway")
  /\ ~ AtCeiling(run[r])
  /\ run[r].phase = "rollback"
  /\ ~ MayRollBack(run[r])
  /\ Move(r, Assembling(run[r]))

\* Mutant: the run pauses before the human_review node.
PauseForReview(r) ==
  /\ At(r, "gateway")
  /\ ~ AtCeiling(run[r])
  /\ run[r].phase \in {"human_review", "done"}
  /\ Move(r, [run[r] EXCEPT !.pc = "human_review"])

\* A passed evaluation goes on to assembly, not to the human_review node.
GatewayAfterReview(r) ==
  /\ At(r, "gateway")
  /\ ~ AtCeiling(run[r])
  /\ run[r].phase \in {"human_review", "done"}
  /\ Move(r, Assembling(run[r]))

\* Any other phase restarts the state machine.
GatewayDefault(r) ==
  /\ At(r, "gateway")
  /\ ~ AtCeiling(run[r])
  /\ run[r].phase \notin DOMAIN Worker \cup {"rollback", "human_review", "done"}
  /\ Move(r, [run[r] EXCEPT !.pc = "retrieval_agent", !.phase = "explore"])

Gateway(r) ==
  \/ GatewayCeiling(r)
  \/ GatewayDispatch(r)
  \/ GatewayRollback(r)
  \/ GatewayExhausted(r)
  \/ GatewayAfterReview(r)
  \/ GatewayDefault(r)

-----------------------------------------------------------------------------
(* agents/base.py: every agent counts as one iteration, also a failed one. *)

AgentDone(s, agent, next) ==
  [s EXCEPT !.pc = next, !.iter = @ + 1, !.ran = @ \cup {agent}]

RetrievalAgent(r) ==
  /\ At(r, "retrieval_agent")
  /\ Move(r, AgentDone(run[r], "retrieval_agent", "phase_transition"))

GenerationAgent(r) ==
  /\ At(r, "generation_agent")
  /\ Move(r, AgentDone(run[r], "generation_agent", "phase_transition"))

\* An evaluation that raises, or finds no generated content, leaves no score,
\* which post_validate reads as 0: it fails.
EvaluationAgent(r) ==
  /\ At(r, "evaluation_agent")
  /\ \E e \in {"pass", "fail"} :
       Move(r, [AgentDone(run[r], "evaluation_agent", "post_validate")
                  EXCEPT !.eval = e])

-----------------------------------------------------------------------------
(* nodes.py *)

\* Mutant: the plan is followed by validation.
SkipExecute(phase) ==
  CASE phase = "explore" -> "freeze"
    [] phase = "freeze"  -> "plan"
    [] phase = "plan"    -> "validate"
    [] OTHER             -> "done"

\* Mutant: the phase is named after the agent.
MisnamedPhase(phase) ==
  CASE phase = "explore" -> "freeze"
    [] phase = "freeze"  -> "plan"
    [] phase = "plan"    -> "execute"
    [] phase = "execute" -> "evaluation"
    [] OTHER             -> "done"

NextPhase(phase) ==
  CASE phase = "explore" -> "freeze"
    [] phase = "freeze"  -> "plan"
    [] phase = "plan"    -> "execute"
    [] phase = "execute" -> "validate"
    [] OTHER             -> "done"

PhaseTransition(r) ==
  /\ At(r, "phase_transition")
  /\ Move(r, [run[r] EXCEPT !.pc = "gateway", !.phase = NextPhase(@)])

\* Mutant: one rollback fewer than max_rollbacks.
RollBackLess(s) ==
  CASE s.eval = "none" -> "done"
    [] s.eval = "pass" -> IF HITL THEN "human_review" ELSE "done"
    [] s.eval = "fail" -> IF s.rb + 1 < MaxRollbacks THEN "rollback" ELSE "done"

\* The phase post_validate_transition chooses after an evaluation.
Verdict(s) ==
  CASE s.eval = "none" -> "done"
    [] s.eval = "pass" -> IF HITL THEN "human_review" ELSE "done"
    [] s.eval = "fail" -> IF s.rb < MaxRollbacks THEN "rollback" ELSE "done"

PostValidate(r) ==
  /\ At(r, "post_validate")
  /\ Move(r, [run[r] EXCEPT !.pc = "gateway", !.phase = Verdict(run[r])])

FreezeContext(r) ==
  /\ At(r, "freeze_context")
  /\ Move(r, [run[r] EXCEPT !.pc = "phase_transition", !.phase = "freeze"])

\* The reply of the LLM is a JSON list of dicts, a JSON list of other things,
\* or unusable, in which case the default plan takes its place.
PlanPhase(r) ==
  /\ At(r, "plan_phase")
  /\ \E ok \in BOOLEAN :
       Move(r, [run[r] EXCEPT !.pc = "phase_transition", !.phase = "plan",
                              !.planOk = ok])

\* Mutant: the retry starts with the plan, as README.md draws it.
RetryFromPlan(r) ==
  /\ At(r, "rollback_phase")
  /\ Move(r, [run[r] EXCEPT !.pc = "gateway", !.phase = "plan",
                            !.rb = @ + 1, !.ran = {}, !.retried = TRUE])

RollbackPhase(r) ==
  /\ At(r, "rollback_phase")
  /\ Move(r, [run[r] EXCEPT !.pc = "gateway", !.phase = "explore",
                            !.rb = @ + 1, !.ran = {}, !.retried = TRUE])

\* The output is put together from what the evidence graph holds.
AssembleOutput(r) ==
  /\ At(r, "assemble_output")
  /\ saved' = [run[r] EXCEPT !.pc = "end", !.phase = "done"]
  /\ Release(r, "answered")

-----------------------------------------------------------------------------
\* The event loop executes the next superstep of r's run.
Superstep(r) ==
  \/ Gateway(r)
  \/ RetrievalAgent(r)
  \/ GenerationAgent(r)
  \/ EvaluationAgent(r)
  \/ PhaseTransition(r)
  \/ PostValidate(r)
  \/ FreezeContext(r)
  \/ PlanPhase(r)
  \/ RollbackPhase(r)
  \/ AssembleOutput(r)
  \/ InvalidPlan(r)

Arrive(r) == Chat(r) \/ Approve(r) \/ Reject(r) \/ Edit(r)

\* All requests of the instance are served.
AllServed ==
  /\ \A r \in Requests : status[r] \notin {"idle", "running"}
  /\ UNCHANGED vars

Next ==
  \/ \E r \in Requests : Arrive(r) \/ Superstep(r) \/ Crash(r)
  \/ AllServed

\* An asyncio task whose awaits all return (the LLM, database and HTTP
\* clients have timeouts) keeps being scheduled.
Fairness == \A r \in Requests : WF_vars(Superstep(r))

Spec == Init /\ [][Next]_vars /\ Fairness
=============================================================================
