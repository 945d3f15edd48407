--------------------------- MODULE PipelineProofs ---------------------------
(***************************************************************************)
(* Proofs about Pipeline for every set of requests, every max_iterations   *)
(* and every max_rollbacks the assumptions admit.                          *)
(***************************************************************************)
EXTENDS PipelineProperties, Integers, TLAPS

-----------------------------------------------------------------------------
(* The inductive invariant: what holds of every reachable set of channel   *)
(* values, whether in the memory of a run or in the checkpoint ...         *)

\* The pending node and the phase agree, so phase_transition never falls
\* into its default and the rollback node runs only when it may.
Coherent(s) ==
  /\ s.pc = "retrieval_agent"  => s.phase = "explore"
  /\ s.pc = "freeze_context"   => s.phase = "freeze"
  /\ s.pc = "plan_phase"       => s.phase = "plan"
  /\ s.pc = "generation_agent" => s.phase = "execute"
  /\ s.pc = "evaluation_agent" => s.phase = "validate"
  /\ s.pc = "post_validate"    => s.phase = "validate"
  /\ s.pc = "phase_transition" => s.phase \in {"explore", "freeze", "plan", "execute"}
  /\ s.pc = "rollback_phase"   => s.phase = "rollback" /\ MayRollBack(s)
  /\ s.pc = "assemble_output"  => s.phase = "done"

Counters(s) ==
  /\ s.rb <= MaxRollbacks
  /\ s.pc \in Agents => s.iter < s.max
  /\ s.ran # {} \/ s.retried => s.iter <= s.max

\* Where the run is in its attempt.
BeforeRetrieval(s) ==
  \/ s.pc = "retrieval_agent"
  \/ s.pc = "gateway" /\ s.phase \in {"explore", "generation"}

BeforeGeneration(s) ==
  \/ s.pc \in {"freeze_context", "plan_phase", "generation_agent"}
  \/ s.pc = "phase_transition" /\ s.phase \in {"explore", "freeze", "plan"}
  \/ s.pc = "gateway" /\ s.phase \in {"freeze", "plan", "execute"}

BeforeEvaluation(s) ==
  \/ s.pc = "evaluation_agent"
  \/ s.pc = "phase_transition" /\ s.phase = "execute"
  \/ s.pc = "gateway" /\ s.phase = "validate"

AfterEvaluation(s) ==
  \/ s.pc \in {"post_validate", "rollback_phase"}
  \/ s.pc = "gateway" /\ s.phase \in {"human_review", "rollback"}

\* The agents that have run are those the place in the attempt implies.
Ordered(s) ==
  /\ BeforeRetrieval(s)  => s.ran = {}
  /\ BeforeGeneration(s) => s.ran = {"retrieval_agent"}
  /\ BeforeEvaluation(s) => s.ran = {"retrieval_agent", "generation_agent"}
  /\ AfterEvaluation(s)  => s.ran = Agents /\ s.eval # "none"

\* A retry has iterations left for each of its agents that has not run yet,
\* one more than it needs, so the ceiling never ends it.
RetryFits(s) ==
  s.retried =>
    /\ s.iter < s.max
    /\ BeforeRetrieval(s)  => s.iter + 3 < s.max
    /\ BeforeGeneration(s) => s.iter + 2 < s.max
    /\ BeforeEvaluation(s) => s.iter + 1 < s.max
    /\ s.pc = "gateway" /\ s.phase = "done" => s.ran = Agents
    /\ s.pc = "assemble_output" => s.ran = Agents

StateInv(s) == Coherent(s) /\ Counters(s) /\ Ordered(s) /\ RetryFits(s)

(* ... and what holds of a run in progress. *)

\* Supersteps a run can still make in its current attempt, the rollback that
\* may end it included.
PhaseLeft == [explore |-> 17, generation |-> 17, freeze |-> 14, plan |-> 11,
              execute |-> 8, validate |-> 5, rollback |-> 2,
              human_review |-> 2, done |-> 2]

NodeLeft == [retrieval_agent |-> 16, freeze_context |-> 13, plan_phase |-> 10,
             generation_agent |-> 7, evaluation_agent |-> 4,
             post_validate |-> 3, rollback_phase |-> 1, assemble_output |-> 1]

AttemptLeft(s) ==
  CASE s.pc = "gateway"          -> PhaseLeft[s.phase]
    [] s.pc = "phase_transition" -> PhaseLeft[s.phase] - 2
    [] OTHER                     -> NodeLeft[s.pc]

\* The longest run has one attempt of 17 supersteps per rollback and one more.
Left(s) == AttemptLeft(s) + 17 * (MaxRollbacks - s.rb)

LongestRun == 17 * MaxRollbacks + 17

\* How a chat comes to be done without the gateway's giving up.
ChatVerdict(s) ==
  /\ s.pc = "gateway" /\ s.phase = "human_review" => s.eval = "pass"
  /\ s.pc = "gateway" /\ s.phase = "done" =>
       \/ "evaluation_agent" \in s.ran /\ s.eval = "pass"
       \/ s.rb = MaxRollbacks
  /\ s.pc = "assemble_output" =>
       \/ "evaluation_agent" \in s.ran /\ s.eval = "pass"
       \/ s.rb = MaxRollbacks
       \/ s.iter + 3 >= s.max

RunInv(r) ==
  status[r] = "running" =>
    /\ run[r].pc \in Nodes
    /\ limit[r] >= 50
    /\ steps[r] + Left(run[r]) <= LongestRun + 1
    /\ kind[r] = "chat" => ChatVerdict(run[r])

IInv ==
  /\ TypeOK
  /\ StateInv(saved)
  /\ \A r \in Requests : StateInv(run[r]) /\ RunInv(r)
  /\ \A r \in Requests : status[r] # "running" => run[r] = NewSession

-----------------------------------------------------------------------------
(* Steps of the graph as functions on channel values *)

\* A superstep that leads from s to t keeps the invariant and makes progress.
Good(s, t) ==
  /\ t \in State
  /\ StateInv(t)
  /\ t.pc \in Nodes
  /\ Left(t) + 1 <= Left(s)
  /\ ChatVerdict(s) => ChatVerdict(t)

\* The gateway gives up at the iteration ceiling.
LEMMA CeilingGood ==
  ASSUME NEW s \in State, StateInv(s), s.pc = "gateway", AtCeiling(s)
  PROVE  Good(s, Assembling(s))
<1> DEFINE t == Assembling(s)
<1>1. /\ t.pc = "assemble_output" /\ t.phase = "done"
      /\ t.iter = s.iter /\ t.max = s.max /\ t.rb = s.rb /\ t.eval = s.eval
      /\ t.planOk = s.planOk /\ t.ran = s.ran /\ t.retried = s.retried
  BY DEF Assembling, State
<1>2. t \in State
  BY DEF Assembling, State, Places, Nodes, Phases
<1>3. ~ s.retried
  BY DEF StateInv, RetryFits, AtCeiling, State
<1> HIDE DEF t
<1>4. StateInv(t)
  BY <1>1, <1>3 DEF StateInv, Coherent, Counters, Ordered, RetryFits, Agents,
     BeforeRetrieval, BeforeGeneration, BeforeEvaluation, AfterEvaluation, State
<1>5. t.pc \in Nodes
  BY <1>1 DEF Nodes
<1>6. Left(t) + 1 <= Left(s)
  BY <1>1, MaxRollbacksAssumption DEF Left, AttemptLeft, PhaseLeft, NodeLeft, State, Phases
<1>7. ChatVerdict(s) => ChatVerdict(t)
  BY <1>1 DEF ChatVerdict, AtCeiling, State
<1>8. QED
  BY <1>2, <1>4, <1>5, <1>6, <1>7 DEF Good, t

\* The gateway dispatches the node of the phase.
LEMMA DispatchGood ==
  ASSUME NEW s \in State, StateInv(s), s.pc = "gateway",
         ~ AtCeiling(s), s.phase \in DOMAIN Worker
  PROVE  Good(s, [s EXCEPT !.pc = Worker[s.phase]])
<1> DEFINE t == [s EXCEPT !.pc = Worker[s.phase]]
<1>1. /\ t.pc = Worker[s.phase] /\ t.phase = s.phase
      /\ t.iter = s.iter /\ t.max = s.max /\ t.rb = s.rb
      /\ t.eval = s.eval /\ t.planOk = s.planOk
      /\ t.ran = s.ran /\ t.retried = s.retried
  BY DEF Worker, State
<1>2. t \in State
  BY DEF Worker, State, Places, Nodes, Phases, Agents
<1> HIDE DEF t
<1>4. StateInv(t)
  BY <1>1, MaxRollbacksAssumption DEF StateInv, Coherent, Counters, Ordered, RetryFits,
     BeforeRetrieval, BeforeGeneration, BeforeEvaluation, AfterEvaluation, MayRollBack, AtCeiling, Agents, State, Phases, Worker
<1>5. t.pc \in Nodes
  BY <1>1 DEF Nodes, Agents, Worker
<1>6. Left(t) + 1 <= Left(s)
  BY <1>1, MaxRollbacksAssumption DEF Left, AttemptLeft, PhaseLeft, NodeLeft,
     StateInv, Coherent, State, Phases, Worker
<1>7. ChatVerdict(s) => ChatVerdict(t)
  BY <1>1 DEF ChatVerdict, StateInv, Coherent, Ordered, AfterEvaluation, Counters, MayRollBack,
     AtCeiling, State, Phases, Agents, Worker
<1>8. QED
  BY <1>2, <1>4, <1>5, <1>6, <1>7 DEF Good, t

\* The gateway grants a rollback.
LEMMA RollbackGood ==
  ASSUME NEW s \in State, StateInv(s), s.pc = "gateway",
         s.phase = "rollback", MayRollBack(s)
  PROVE  Good(s, [s EXCEPT !.pc = "rollback_phase"])
<1> DEFINE t == [s EXCEPT !.pc = "rollback_phase"]
<1>1. /\ t.pc = "rollback_phase" /\ t.phase = s.phase
      /\ t.iter = s.iter /\ t.max = s.max /\ t.rb = s.rb
      /\ t.eval = s.eval /\ t.planOk = s.planOk
      /\ t.ran = s.ran /\ t.retried = s.retried
  BY DEF State
<1>2. t \in State
  BY DEF State, Places, Nodes, Phases, Agents
<1> HIDE DEF t
<1>4. StateInv(t)
  BY <1>1, MaxRollbacksAssumption DEF StateInv, Coherent, Counters, Ordered, RetryFits,
     BeforeRetrieval, BeforeGeneration, BeforeEvaluation, AfterEvaluation, MayRollBack, AtCeiling, Agents, State, Phases
<1>5. t.pc \in Nodes
  BY <1>1 DEF Nodes, Agents
<1>6. Left(t) + 1 <= Left(s)
  BY <1>1, MaxRollbacksAssumption DEF Left, AttemptLeft, PhaseLeft, NodeLeft,
     StateInv, Coherent, State, Phases
<1>7. ChatVerdict(s) => ChatVerdict(t)
  BY <1>1 DEF ChatVerdict, StateInv, Coherent, Ordered, AfterEvaluation, Counters, MayRollBack,
     AtCeiling, State, Phases, Agents
<1>8. QED
  BY <1>2, <1>4, <1>5, <1>6, <1>7 DEF Good, t

\* The gateway denies a rollback.
LEMMA ExhaustedGood ==
  ASSUME NEW s \in State, StateInv(s), s.pc = "gateway",
         s.phase = "rollback", ~ MayRollBack(s)
  PROVE  Good(s, Assembling(s))
<1> DEFINE t == Assembling(s)
<1>1. /\ t.pc = "assemble_output" /\ t.phase = "done"
      /\ t.iter = s.iter /\ t.max = s.max /\ t.rb = s.rb
      /\ t.eval = s.eval /\ t.planOk = s.planOk
      /\ t.ran = s.ran /\ t.retried = s.retried
  BY DEF Assembling, State
<1>2. t \in State
  BY DEF Assembling, State, Places, Nodes, Phases, Agents
<1> HIDE DEF t
<1>4. StateInv(t)
  BY <1>1, MaxRollbacksAssumption DEF StateInv, Coherent, Counters, Ordered, RetryFits,
     BeforeRetrieval, BeforeGeneration, BeforeEvaluation, AfterEvaluation, MayRollBack, AtCeiling, Agents, State, Phases
<1>5. t.pc \in Nodes
  BY <1>1 DEF Nodes, Agents
<1>6. Left(t) + 1 <= Left(s)
  BY <1>1, MaxRollbacksAssumption DEF Left, AttemptLeft, PhaseLeft, NodeLeft,
     StateInv, Coherent, State, Phases
<1>7. ChatVerdict(s) => ChatVerdict(t)
  BY <1>1, MaxRollbacksAssumption DEF ChatVerdict, StateInv, Coherent, Ordered, AfterEvaluation, Counters, MayRollBack,
     AtCeiling, State, Phases, Agents
<1>8. QED
  BY <1>2, <1>4, <1>5, <1>6, <1>7 DEF Good, t

\* The gateway has the output of a finished validation assembled.
LEMMA AfterReviewGood ==
  ASSUME NEW s \in State, StateInv(s), s.pc = "gateway",
         s.phase \in {"human_review", "done"}
  PROVE  Good(s, Assembling(s))
<1> DEFINE t == Assembling(s)
<1>1. /\ t.pc = "assemble_output" /\ t.phase = "done"
      /\ t.iter = s.iter /\ t.max = s.max /\ t.rb = s.rb
      /\ t.eval = s.eval /\ t.planOk = s.planOk
      /\ t.ran = s.ran /\ t.retried = s.retried
  BY DEF Assembling, State
<1>2. t \in State
  BY DEF Assembling, State, Places, Nodes, Phases, Agents
<1> HIDE DEF t
<1>4. StateInv(t)
  BY <1>1, MaxRollbacksAssumption DEF StateInv, Coherent, Counters, Ordered, RetryFits,
     BeforeRetrieval, BeforeGeneration, BeforeEvaluation, AfterEvaluation, MayRollBack, AtCeiling, Agents, State, Phases
<1>5. t.pc \in Nodes
  BY <1>1 DEF Nodes, Agents
<1>6. Left(t) + 1 <= Left(s)
  BY <1>1, MaxRollbacksAssumption DEF Left, AttemptLeft, PhaseLeft, NodeLeft,
     StateInv, Coherent, State, Phases
<1>7. ChatVerdict(s) => ChatVerdict(t)
  BY <1>1 DEF ChatVerdict, StateInv, Coherent, Ordered, AfterEvaluation, Counters, MayRollBack,
     AtCeiling, State, Phases, Agents
<1>8. QED
  BY <1>2, <1>4, <1>5, <1>6, <1>7 DEF Good, t

\* The gateway restarts the state machine for an unknown phase.
LEMMA DefaultGood ==
  ASSUME NEW s \in State, StateInv(s), s.pc = "gateway",
         ~ AtCeiling(s), s.phase = "generation"
  PROVE  Good(s, [s EXCEPT !.pc = "retrieval_agent", !.phase = "explore"])
<1> DEFINE t == [s EXCEPT !.pc = "retrieval_agent", !.phase = "explore"]
<1>1. /\ t.pc = "retrieval_agent" /\ t.phase = "explore"
      /\ t.iter = s.iter /\ t.max = s.max /\ t.rb = s.rb
      /\ t.eval = s.eval /\ t.planOk = s.planOk
      /\ t.ran = s.ran /\ t.retried = s.retried
  BY DEF State
<1>2. t \in State
  BY DEF State, Places, Nodes, Phases, Agents
<1> HIDE DEF t
<1>4. StateInv(t)
  BY <1>1, MaxRollbacksAssumption DEF StateInv, Coherent, Counters, Ordered, RetryFits,
     BeforeRetrieval, BeforeGeneration, BeforeEvaluation, AfterEvaluation, MayRollBack, AtCeiling, Agents, State, Phases
<1>5. t.pc \in Nodes
  BY <1>1 DEF Nodes, Agents
<1>6. Left(t) + 1 <= Left(s)
  BY <1>1, MaxRollbacksAssumption DEF Left, AttemptLeft, PhaseLeft, NodeLeft,
     StateInv, Coherent, State, Phases
<1>7. ChatVerdict(s) => ChatVerdict(t)
  BY <1>1 DEF ChatVerdict, StateInv, Coherent, Ordered, AfterEvaluation, Counters, MayRollBack,
     AtCeiling, State, Phases, Agents
<1>8. QED
  BY <1>2, <1>4, <1>5, <1>6, <1>7 DEF Good, t

\* The retrieval_agent ends.
LEMMA RetrievalGood ==
  ASSUME NEW s \in State, StateInv(s), s.pc = "retrieval_agent"
  PROVE  Good(s, AgentDone(s, "retrieval_agent", "phase_transition"))
<1> DEFINE t == AgentDone(s, "retrieval_agent", "phase_transition")
<1>1. /\ t.pc = "phase_transition" /\ t.phase = s.phase
      /\ t.iter = s.iter + 1 /\ t.max = s.max /\ t.rb = s.rb
      /\ t.eval = s.eval /\ t.planOk = s.planOk
      /\ t.ran = s.ran \cup {"retrieval_agent"} /\ t.retried = s.retried
  BY DEF AgentDone, State
<1>0. s.iter + 1 \in Nat /\ s.ran \cup {"retrieval_agent"} \in SUBSET Agents
  BY DEF State, Agents
<1>2. t \in State
  BY <1>0 DEF AgentDone, State, Places, Nodes, Phases, Agents
<1> HIDE DEF t
<1>4. StateInv(t)
  BY <1>1, MaxRollbacksAssumption DEF StateInv, Coherent, Counters, Ordered, RetryFits,
     BeforeRetrieval, BeforeGeneration, BeforeEvaluation, AfterEvaluation, MayRollBack, AtCeiling, Agents, State, Phases
<1>5. t.pc \in Nodes
  BY <1>1 DEF Nodes, Agents
<1>6. Left(t) + 1 <= Left(s)
  BY <1>1, MaxRollbacksAssumption DEF Left, AttemptLeft, PhaseLeft, NodeLeft,
     StateInv, Coherent, State, Phases
<1>7. ChatVerdict(s) => ChatVerdict(t)
  BY <1>1 DEF ChatVerdict, StateInv, Coherent, Ordered, AfterEvaluation, Counters, MayRollBack,
     AtCeiling, State, Phases, Agents
<1>8. QED
  BY <1>2, <1>4, <1>5, <1>6, <1>7 DEF Good, t

\* The generation_agent ends.
LEMMA GenerationGood ==
  ASSUME NEW s \in State, StateInv(s), s.pc = "generation_agent"
  PROVE  Good(s, AgentDone(s, "generation_agent", "phase_transition"))
<1> DEFINE t == AgentDone(s, "generation_agent", "phase_transition")
<1>1. /\ t.pc = "phase_transition" /\ t.phase = s.phase
      /\ t.iter = s.iter + 1 /\ t.max = s.max /\ t.rb = s.rb
      /\ t.eval = s.eval /\ t.planOk = s.planOk
      /\ t.ran = s.ran \cup {"generation_agent"} /\ t.retried = s.retried
  BY DEF AgentDone, State
<1>0. s.iter + 1 \in Nat /\ s.ran \cup {"generation_agent"} \in SUBSET Agents
  BY DEF State, Agents
<1>2. t \in State
  BY <1>0 DEF AgentDone, State, Places, Nodes, Phases, Agents
<1> HIDE DEF t
<1>4. StateInv(t)
  BY <1>1, MaxRollbacksAssumption DEF StateInv, Coherent, Counters, Ordered, RetryFits,
     BeforeRetrieval, BeforeGeneration, BeforeEvaluation, AfterEvaluation, MayRollBack, AtCeiling, Agents, State, Phases
<1>5. t.pc \in Nodes
  BY <1>1 DEF Nodes, Agents
<1>6. Left(t) + 1 <= Left(s)
  BY <1>1, MaxRollbacksAssumption DEF Left, AttemptLeft, PhaseLeft, NodeLeft,
     StateInv, Coherent, State, Phases
<1>7. ChatVerdict(s) => ChatVerdict(t)
  BY <1>1 DEF ChatVerdict, StateInv, Coherent, Ordered, AfterEvaluation, Counters, MayRollBack,
     AtCeiling, State, Phases, Agents
<1>8. QED
  BY <1>2, <1>4, <1>5, <1>6, <1>7 DEF Good, t

\* The evaluation_agent ends with a verdict.
LEMMA EvaluationGood ==
  ASSUME NEW s \in State, NEW e \in {"pass", "fail"}, StateInv(s),
         s.pc = "evaluation_agent"
  PROVE  Good(s, [AgentDone(s, "evaluation_agent", "post_validate") EXCEPT !.eval = e])
<1> DEFINE t == [AgentDone(s, "evaluation_agent", "post_validate") EXCEPT !.eval = e]
<1>1. /\ t.pc = "post_validate" /\ t.phase = s.phase
      /\ t.iter = s.iter + 1 /\ t.max = s.max /\ t.rb = s.rb
      /\ t.eval = e /\ t.planOk = s.planOk
      /\ t.ran = s.ran \cup {"evaluation_agent"} /\ t.retried = s.retried
  BY DEF AgentDone, State
<1>0. s.iter + 1 \in Nat /\ s.ran \cup {"evaluation_agent"} \in SUBSET Agents
  BY DEF State, Agents
<1>2. t \in State
  BY <1>0 DEF AgentDone, State, Places, Nodes, Phases, Agents
<1> HIDE DEF t
<1>4. StateInv(t)
  BY <1>1, MaxRollbacksAssumption DEF StateInv, Coherent, Counters, Ordered, RetryFits,
     BeforeRetrieval, BeforeGeneration, BeforeEvaluation, AfterEvaluation, MayRollBack, AtCeiling, Agents, State, Phases
<1>5. t.pc \in Nodes
  BY <1>1 DEF Nodes, Agents
<1>6. Left(t) + 1 <= Left(s)
  BY <1>1, MaxRollbacksAssumption DEF Left, AttemptLeft, PhaseLeft, NodeLeft,
     StateInv, Coherent, State, Phases
<1>7. ChatVerdict(s) => ChatVerdict(t)
  BY <1>1 DEF ChatVerdict, StateInv, Coherent, Ordered, AfterEvaluation, Counters, MayRollBack,
     AtCeiling, State, Phases, Agents
<1>8. QED
  BY <1>2, <1>4, <1>5, <1>6, <1>7 DEF Good, t

\* phase_transition advances the phase.
LEMMA TransitionGood ==
  ASSUME NEW s \in State, StateInv(s), s.pc = "phase_transition"
  PROVE  Good(s, [s EXCEPT !.pc = "gateway", !.phase = NextPhase(@)])
<1> DEFINE t == [s EXCEPT !.pc = "gateway", !.phase = NextPhase(@)]
<1>1. /\ t.pc = "gateway" /\ t.phase = NextPhase(s.phase)
      /\ t.iter = s.iter /\ t.max = s.max /\ t.rb = s.rb
      /\ t.eval = s.eval /\ t.planOk = s.planOk
      /\ t.ran = s.ran /\ t.retried = s.retried
  BY DEF NextPhase, State
<1>2. t \in State
  BY DEF NextPhase, State, Places, Nodes, Phases, Agents
<1> HIDE DEF t
<1>4. StateInv(t)
  BY <1>1, MaxRollbacksAssumption DEF StateInv, Coherent, Counters, Ordered, RetryFits,
     BeforeRetrieval, BeforeGeneration, BeforeEvaluation, AfterEvaluation, MayRollBack, AtCeiling, Agents, State, Phases, NextPhase
<1>5. t.pc \in Nodes
  BY <1>1 DEF Nodes, Agents, NextPhase
<1>6. Left(t) + 1 <= Left(s)
  BY <1>1, MaxRollbacksAssumption DEF Left, AttemptLeft, PhaseLeft, NodeLeft,
     StateInv, Coherent, State, Phases, NextPhase
<1>7. ChatVerdict(s) => ChatVerdict(t)
  BY <1>1 DEF ChatVerdict, StateInv, Coherent, Ordered, AfterEvaluation, Counters, MayRollBack,
     AtCeiling, State, Phases, Agents, NextPhase
<1>8. QED
  BY <1>2, <1>4, <1>5, <1>6, <1>7 DEF Good, t

\* post_validate turns the score into a phase.
LEMMA PostValidateGood ==
  ASSUME NEW s \in State, StateInv(s), s.pc = "post_validate"
  PROVE  Good(s, [s EXCEPT !.pc = "gateway", !.phase = Verdict(s)])
<1> DEFINE t == [s EXCEPT !.pc = "gateway", !.phase = Verdict(s)]
<1>1. /\ t.pc = "gateway" /\ t.phase = Verdict(s)
      /\ t.iter = s.iter /\ t.max = s.max /\ t.rb = s.rb
      /\ t.eval = s.eval /\ t.planOk = s.planOk
      /\ t.ran = s.ran /\ t.retried = s.retried
  BY DEF Verdict, State
<1>2. t \in State
  BY DEF Verdict, State, Places, Nodes, Phases, Agents
<1> HIDE DEF t
<1>4. StateInv(t)
  BY <1>1, MaxRollbacksAssumption, HITLAssumption DEF StateInv, Coherent, Counters, Ordered, RetryFits,
     BeforeRetrieval, BeforeGeneration, BeforeEvaluation, AfterEvaluation, MayRollBack, AtCeiling, Agents, State, Phases, Verdict
<1>5. t.pc \in Nodes
  BY <1>1 DEF Nodes, Agents, Verdict
<1>6. Left(t) + 1 <= Left(s)
  BY <1>1, MaxRollbacksAssumption DEF Left, AttemptLeft, PhaseLeft, NodeLeft,
     StateInv, Coherent, State, Phases, Verdict
<1>7. ChatVerdict(s) => ChatVerdict(t)
  BY <1>1, MaxRollbacksAssumption DEF ChatVerdict, StateInv, Coherent, Ordered,
     AfterEvaluation, Counters, MayRollBack, AtCeiling, State, Phases, Agents, Verdict
<1>8. QED
  BY <1>2, <1>4, <1>5, <1>6, <1>7 DEF Good, t

\* freeze_context ends.
LEMMA FreezeGood ==
  ASSUME NEW s \in State, StateInv(s), s.pc = "freeze_context"
  PROVE  Good(s, [s EXCEPT !.pc = "phase_transition", !.phase = "freeze"])
<1> DEFINE t == [s EXCEPT !.pc = "phase_transition", !.phase = "freeze"]
<1>1. /\ t.pc = "phase_transition" /\ t.phase = "freeze"
      /\ t.iter = s.iter /\ t.max = s.max /\ t.rb = s.rb
      /\ t.eval = s.eval /\ t.planOk = s.planOk
      /\ t.ran = s.ran /\ t.retried = s.retried
  BY DEF State
<1>2. t \in State
  BY DEF State, Places, Nodes, Phases, Agents
<1> HIDE DEF t
<1>4. StateInv(t)
  BY <1>1, MaxRollbacksAssumption DEF StateInv, Coherent, Counters, Ordered, RetryFits,
     BeforeRetrieval, BeforeGeneration, BeforeEvaluation, AfterEvaluation, MayRollBack, AtCeiling, Agents, State, Phases
<1>5. t.pc \in Nodes
  BY <1>1 DEF Nodes, Agents
<1>6. Left(t) + 1 <= Left(s)
  BY <1>1, MaxRollbacksAssumption DEF Left, AttemptLeft, PhaseLeft, NodeLeft,
     StateInv, Coherent, State, Phases
<1>7. ChatVerdict(s) => ChatVerdict(t)
  BY <1>1 DEF ChatVerdict, StateInv, Coherent, Ordered, AfterEvaluation, Counters, MayRollBack,
     AtCeiling, State, Phases, Agents
<1>8. QED
  BY <1>2, <1>4, <1>5, <1>6, <1>7 DEF Good, t

\* plan_phase ends with a good or a bad plan.
LEMMA PlanGood ==
  ASSUME NEW s \in State, NEW ok \in BOOLEAN, StateInv(s),
         s.pc = "plan_phase"
  PROVE  Good(s, [s EXCEPT !.pc = "phase_transition", !.phase = "plan", !.planOk = ok])
<1> DEFINE t == [s EXCEPT !.pc = "phase_transition", !.phase = "plan", !.planOk = ok]
<1>1. /\ t.pc = "phase_transition" /\ t.phase = "plan"
      /\ t.iter = s.iter /\ t.max = s.max /\ t.rb = s.rb
      /\ t.eval = s.eval /\ t.planOk = ok
      /\ t.ran = s.ran /\ t.retried = s.retried
  BY DEF State
<1>2. t \in State
  BY DEF State, Places, Nodes, Phases, Agents
<1> HIDE DEF t
<1>4. StateInv(t)
  BY <1>1, MaxRollbacksAssumption DEF StateInv, Coherent, Counters, Ordered, RetryFits,
     BeforeRetrieval, BeforeGeneration, BeforeEvaluation, AfterEvaluation, MayRollBack, AtCeiling, Agents, State, Phases
<1>5. t.pc \in Nodes
  BY <1>1 DEF Nodes, Agents
<1>6. Left(t) + 1 <= Left(s)
  BY <1>1, MaxRollbacksAssumption DEF Left, AttemptLeft, PhaseLeft, NodeLeft,
     StateInv, Coherent, State, Phases
<1>7. ChatVerdict(s) => ChatVerdict(t)
  BY <1>1 DEF ChatVerdict, StateInv, Coherent, Ordered, AfterEvaluation, Counters, MayRollBack,
     AtCeiling, State, Phases, Agents
<1>8. QED
  BY <1>2, <1>4, <1>5, <1>6, <1>7 DEF Good, t

\* rollback_phase starts the next attempt.
LEMMA RollbackPhaseGood ==
  ASSUME NEW s \in State, StateInv(s), s.pc = "rollback_phase"
  PROVE  Good(s, [s EXCEPT !.pc = "gateway", !.phase = "explore",
                         !.rb = @ + 1, !.ran = {}, !.retried = TRUE])
<1> DEFINE t == [s EXCEPT !.pc = "gateway", !.phase = "explore",
                         !.rb = @ + 1, !.ran = {}, !.retried = TRUE]
<1>1. /\ t.pc = "gateway" /\ t.phase = "explore"
      /\ t.iter = s.iter /\ t.max = s.max /\ t.rb = s.rb + 1
      /\ t.eval = s.eval /\ t.planOk = s.planOk
      /\ t.ran = {} /\ t.retried = TRUE
  BY DEF State
<1>0. s.rb + 1 \in Nat /\ {} \in SUBSET Agents
  BY DEF State
<1>2. t \in State
  BY <1>0 DEF State, Places, Nodes, Phases, Agents
<1> HIDE DEF t
<1>4. StateInv(t)
  BY <1>1, MaxRollbacksAssumption DEF StateInv, Coherent, Counters, Ordered, RetryFits,
     BeforeRetrieval, BeforeGeneration, BeforeEvaluation, AfterEvaluation, MayRollBack, AtCeiling, Agents, State, Phases
<1>5. t.pc \in Nodes
  BY <1>1 DEF Nodes, Agents
<1>6. Left(t) + 1 <= Left(s)
  BY <1>1, MaxRollbacksAssumption DEF Left, AttemptLeft, PhaseLeft, NodeLeft,
     StateInv, Coherent, State, Phases
<1>7. ChatVerdict(s) => ChatVerdict(t)
  BY <1>1 DEF ChatVerdict, StateInv, Coherent, Ordered, AfterEvaluation, Counters, MayRollBack,
     AtCeiling, State, Phases, Agents
<1>8. QED
  BY <1>2, <1>4, <1>5, <1>6, <1>7 DEF Good, t

-----------------------------------------------------------------------------
(* Steps of the specification *)

\* A session that no request has used satisfies the invariant.
LEMMA NewSessionInv == NewSession \in State /\ StateInv(NewSession)
  BY MaxRollbacksAssumption
  DEF NewSession, DefaultMaxIterations, State, Places, Nodes, Phases, Agents,
      StateInv, Coherent, Counters, Ordered, RetryFits, BeforeRetrieval,
      BeforeGeneration, BeforeEvaluation, AfterEvaluation

\* The invariant holds before the first request.
LEMMA InitInv == Init => IInv
  BY NewSessionInv DEF Init, IInv, TypeOK, RunInv, Statuses, Kinds

\* No attempt takes more than 17 supersteps.
LEMMA LeftBound ==
  ASSUME NEW s \in State, s.pc \in Nodes, s.rb <= MaxRollbacks
  PROVE  Left(s) \in Int /\ Left(s) <= LongestRun
<1>1. AttemptLeft(s) \in Int /\ AttemptLeft(s) <= 17
  BY DEF AttemptLeft, PhaseLeft, NodeLeft, State, Phases, Nodes, Agents
<1>2. QED
  BY <1>1, MaxRollbacksAssumption DEF Left, LongestRun, State

\* The end of a superstep keeps the invariant.
LEMMA MoveKeeps ==
  ASSUME IInv, NEW r \in Requests, status[r] = "running",
         NEW t, Good(run[r], t), Move(r, t)
  PROVE  IInv'
<1>1. /\ run' = [run EXCEPT ![r] = t] /\ saved' = t
      /\ steps' = [steps EXCEPT ![r] = @ + 1]
      /\ status' = status /\ kind' = kind /\ limit' = limit
  BY DEF Move
<1>2. t \in State /\ StateInv(t) /\ t.pc \in Nodes
  BY DEF Good
<1>3. TypeOK'
  BY <1>1, <1>2 DEF IInv, TypeOK
<1>4. run'[r] = t /\ steps'[r] = steps[r] + 1
  BY <1>1 DEF IInv, TypeOK
<1>5. StateInv(saved)'
  BY <1>1, <1>2 DEF StateInv, Coherent, Counters, Ordered, RetryFits,
     BeforeRetrieval, BeforeGeneration, BeforeEvaluation, AfterEvaluation, MayRollBack
<1>6. ASSUME NEW q \in Requests PROVE StateInv(run[q])' /\ RunInv(q)'
  <2>1. CASE q = r
    <3>1. StateInv(run[r])'
      BY <1>2, <1>4 DEF StateInv, Coherent, Counters, Ordered, RetryFits,
         BeforeRetrieval, BeforeGeneration, BeforeEvaluation, AfterEvaluation, MayRollBack
    <3>2. limit[r] >= 50 /\ steps[r] + Left(run[r]) <= LongestRun + 1
      BY DEF IInv, RunInv
    <3>3. /\ run[r] \in State /\ run[r].pc \in Nodes /\ run[r].rb <= MaxRollbacks
          /\ t.rb <= MaxRollbacks /\ steps[r] \in Nat
      BY <1>2 DEF IInv, TypeOK, RunInv, StateInv, Counters
    <3>4. Left(run[r]) \in Int /\ Left(t) \in Int
      BY <1>2, <3>3, LeftBound
    <3>5. Left(t) + 1 <= Left(run[r])
      BY DEF Good
    <3>6. (steps[r] + 1) + Left(t) <= LongestRun + 1
      BY <3>2, <3>3, <3>4, <3>5, MaxRollbacksAssumption DEF LongestRun
    <3>7. kind[r] = "chat" => ChatVerdict(t)
      BY DEF IInv, RunInv, Good
    <3>8. Left(run[r])' = Left(t)
      BY <1>4 DEF Left, AttemptLeft
    <3>9. (kind[r] = "chat" => ChatVerdict(run[r]))'
      BY <1>1, <1>4, <3>7 DEF ChatVerdict
    <3>10. RunInv(r)'
      BY <1>1, <1>2, <1>4, <3>2, <3>6, <3>8, <3>9 DEF RunInv, LongestRun
    <3>11. QED
      BY <2>1, <3>1, <3>10
  <2>2. CASE q # r
    <3>1. run'[q] = run[q] /\ steps'[q] = steps[q]
      BY <1>1, <2>2 DEF IInv, TypeOK
    <3>2. QED
      BY <1>1, <3>1 DEF IInv, RunInv, StateInv, Coherent, Counters, Ordered, RetryFits,
         BeforeRetrieval, BeforeGeneration, BeforeEvaluation, AfterEvaluation, MayRollBack,
         Left, AttemptLeft, LongestRun, ChatVerdict
  <2>3. QED
    BY <2>1, <2>2
<1>7. ASSUME NEW q \in Requests, status'[q] # "running" PROVE run'[q] = NewSession
  BY <1>1, <1>7 DEF IInv, TypeOK
<1>8. QED
  BY <1>3, <1>5, <1>6, <1>7 DEF IInv, NewSession, DefaultMaxIterations

\* A step that changes nothing about a run keeps what holds of the run.
LEMMA UntouchedRun ==
  ASSUME NEW q \in Requests, StateInv(run[q]), RunInv(q),
         run'[q] = run[q], steps'[q] = steps[q], status'[q] = status[q],
         kind'[q] = kind[q], limit'[q] = limit[q]
  PROVE  StateInv(run[q])' /\ RunInv(q)'
  BY DEF RunInv, StateInv, Coherent, Counters, Ordered, RetryFits,
     BeforeRetrieval, BeforeGeneration, BeforeEvaluation, AfterEvaluation, MayRollBack,
     Left, AttemptLeft, LongestRun, ChatVerdict

\* The start of a run keeps the invariant.
LEMMA BeginKeeps ==
  ASSUME IInv, NEW r \in Requests, NEW k \in Kinds, NEW s \in State, NEW lim \in Nat,
         StateInv(s), s.pc \in Nodes, lim >= 50, k = "chat" => ChatVerdict(s),
         Begin(r, k, s, lim)
  PROVE  IInv'
<1>1. /\ run' = [run EXCEPT ![r] = s] /\ saved' = s
      /\ status' = [status EXCEPT ![r] = "running"]
      /\ kind' = [kind EXCEPT ![r] = k]
      /\ steps' = [steps EXCEPT ![r] = 1]
      /\ limit' = [limit EXCEPT ![r] = lim]
  BY DEF Begin
<1>2. TypeOK'
  BY <1>1 DEF IInv, TypeOK, Statuses
<1>3. /\ run'[r] = s /\ status'[r] = "running" /\ kind'[r] = k
      /\ steps'[r] = 1 /\ limit'[r] = lim
  BY <1>1 DEF IInv, TypeOK
<1>4. StateInv(saved)'
  BY <1>1 DEF StateInv, Coherent, Counters, Ordered, RetryFits,
     BeforeRetrieval, BeforeGeneration, BeforeEvaluation, AfterEvaluation, MayRollBack
<1>5. ASSUME NEW q \in Requests PROVE StateInv(run[q])' /\ RunInv(q)'
  <2>1. CASE q = r
    <3>1. StateInv(run[r])'
      BY <1>3 DEF StateInv, Coherent, Counters, Ordered, RetryFits,
     BeforeRetrieval, BeforeGeneration, BeforeEvaluation, AfterEvaluation, MayRollBack
    <3>2. Left(s) \in Int /\ Left(s) <= LongestRun
      BY LeftBound DEF StateInv, Counters
    <3>3. 1 + Left(s) <= LongestRun + 1
      BY <3>2, MaxRollbacksAssumption DEF LongestRun
    <3>4. Left(run[r])' = Left(s)
      BY <1>3 DEF Left, AttemptLeft
    <3>5. (kind[r] = "chat" => ChatVerdict(run[r]))'
      BY <1>3 DEF ChatVerdict
    <3>6. RunInv(r)'
      BY <1>3, <3>3, <3>4, <3>5 DEF RunInv, LongestRun
    <3>7. QED
      BY <2>1, <3>1, <3>6
  <2>2. CASE q # r
    BY <1>1, <2>2, UntouchedRun DEF IInv, TypeOK
  <2>3. QED
    BY <2>1, <2>2
<1>6. ASSUME NEW q \in Requests, status'[q] # "running" PROVE run'[q] = NewSession
  BY <1>1, <1>6 DEF IInv, TypeOK
<1>7. QED
  BY <1>2, <1>4, <1>5, <1>6 DEF IInv, NewSession, DefaultMaxIterations

\* A reply without a run keeps the invariant.
LEMMA ReplyKeeps ==
  ASSUME IInv, NEW r \in Requests, NEW k \in Kinds,
         NEW outcome \in Statuses \ {"running"}, status[r] = "idle",
         ReplyAtOnce(r, k, outcome)
  PROVE  IInv'
<1>1. /\ status' = [status EXCEPT ![r] = outcome]
      /\ kind' = [kind EXCEPT ![r] = k]
      /\ saved' = saved /\ run' = run /\ steps' = steps /\ limit' = limit
  BY DEF ReplyAtOnce
<1>2. TypeOK'
  BY <1>1 DEF IInv, TypeOK, Statuses
<1>3. StateInv(saved)'
  BY <1>1 DEF IInv, StateInv, Coherent, Counters, Ordered, RetryFits,
     BeforeRetrieval, BeforeGeneration, BeforeEvaluation, AfterEvaluation, MayRollBack
<1>4. ASSUME NEW q \in Requests PROVE StateInv(run[q])' /\ RunInv(q)'
  <2>1. CASE q = r
    BY <1>1, <2>1 DEF IInv, TypeOK, RunInv, StateInv, Coherent, Counters, Ordered, RetryFits,
     BeforeRetrieval, BeforeGeneration, BeforeEvaluation, AfterEvaluation, MayRollBack
  <2>2. CASE q # r
    BY <1>1, <2>2, UntouchedRun DEF IInv, TypeOK
  <2>3. QED
    BY <2>1, <2>2
<1>5. ASSUME NEW q \in Requests, status'[q] # "running" PROVE run'[q] = NewSession
  BY <1>1, <1>5 DEF IInv, TypeOK
<1>6. QED
  BY <1>2, <1>3, <1>4, <1>5 DEF IInv, NewSession, DefaultMaxIterations

\* The end of a run keeps the invariant, whatever it leaves in the checkpoint.
LEMMA ReleaseKeeps ==
  ASSUME IInv, NEW r \in Requests, NEW outcome \in Statuses \ {"running"},
         Release(r, outcome), NEW s \in State, saved' = s, StateInv(s)
  PROVE  IInv'
<1>1. /\ run' = [run EXCEPT ![r] = NewSession]
      /\ status' = [status EXCEPT ![r] = outcome]
      /\ steps' = [steps EXCEPT ![r] = 0]
      /\ limit' = [limit EXCEPT ![r] = 0]
      /\ kind' = kind
  BY DEF Release
<1>2. TypeOK'
  BY <1>1, NewSessionInv DEF IInv, TypeOK
<1>3. StateInv(saved)'
  BY DEF StateInv, Coherent, Counters, Ordered, RetryFits,
     BeforeRetrieval, BeforeGeneration, BeforeEvaluation, AfterEvaluation, MayRollBack
<1>4. ASSUME NEW q \in Requests PROVE StateInv(run[q])' /\ RunInv(q)'
  <2>1. CASE q = r
    <3>1. run'[r] = NewSession /\ status'[r] = outcome
      BY <1>1 DEF IInv, TypeOK
    <3>2. StateInv(run[r])'
      BY <3>1, NewSessionInv DEF StateInv, Coherent, Counters, Ordered, RetryFits,
     BeforeRetrieval, BeforeGeneration, BeforeEvaluation, AfterEvaluation, MayRollBack
    <3>3. RunInv(r)'
      BY <3>1 DEF RunInv
    <3>4. QED
      BY <2>1, <3>2, <3>3
  <2>2. CASE q # r
    BY <1>1, <2>2, UntouchedRun DEF IInv, TypeOK
  <2>3. QED
    BY <2>1, <2>2
<1>5. ASSUME NEW q \in Requests, status'[q] # "running" PROVE run'[q] = NewSession
  BY <1>1, <1>5 DEF IInv, TypeOK
<1>6. QED
  BY <1>2, <1>3, <1>4, <1>5 DEF IInv, NewSession, DefaultMaxIterations

\* An input puts the session before its first node in a coherent state.
LEMMA InputInv ==
  ASSUME IInv, NEW phase \in {"explore", "generation", "done"}, NEW m \in Nat
  PROVE  LET s == WithInput(phase)
             c == [s EXCEPT !.max = m]
         IN  /\ s \in State /\ StateInv(s) /\ s.pc = "gateway" /\ s.phase = phase
             /\ c \in State /\ StateInv(c) /\ c.pc = "gateway" /\ c.phase = phase
<1> DEFINE s == WithInput(phase)
           c == [s EXCEPT !.max = m]
<1>1. saved \in State /\ saved.rb <= MaxRollbacks
  BY DEF IInv, TypeOK, StateInv, Counters
<1>2. s \in State /\ c \in State
  BY <1>1 DEF WithInput, State, Places, Nodes, Phases
<1>3. /\ s.pc = "gateway" /\ s.phase = phase /\ s.rb = saved.rb /\ s.ran = {} /\ s.retried = FALSE
      /\ c.pc = "gateway" /\ c.phase = phase /\ c.rb = saved.rb /\ c.ran = {} /\ c.retried = FALSE
  BY <1>1 DEF WithInput, State
<1> HIDE DEF s, c
<1>4. StateInv(s) /\ StateInv(c)
  BY <1>1, <1>3 DEF Agents, StateInv, Coherent, Counters, Ordered, RetryFits,
     BeforeRetrieval, BeforeGeneration, BeforeEvaluation, AfterEvaluation, MayRollBack
<1>5. QED
  BY <1>2, <1>3, <1>4 DEF s, c

\* The arrival of a request keeps the invariant.
LEMMA ArriveKeeps ==
  ASSUME IInv, NEW r \in Requests, Arrive(r)
  PROVE  IInv'
<1>1. CASE Chat(r)
  <2>1. PICK m \in MaxIterations :
          Begin(r, "chat", [WithInput("explore") EXCEPT !.max = m], ChatLimit(m))
    BY <1>1 DEF Chat
  <2>2. m \in Nat
    BY MaxIterationsAssumption
  <2>3. ChatLimit(m) \in Nat /\ ChatLimit(m) >= 50
    BY <2>2 DEF ChatLimit
  <2> DEFINE c == [WithInput("explore") EXCEPT !.max = m]
  <2>4. c \in State /\ StateInv(c) /\ c.pc = "gateway" /\ c.phase = "explore"
    BY <2>2, InputInv
  <2> HIDE DEF c
  <2>5. c.pc \in Nodes /\ ChatVerdict(c)
    BY <2>4 DEF Nodes, ChatVerdict
  <2>6. Begin(r, "chat", c, ChatLimit(m))
    BY <2>1 DEF c
  <2>7. QED
    BY <2>3, <2>4, <2>5, <2>6, BeginKeeps DEF Kinds
<1>2. CASE Approve(r)
  <2>1. CASE Begin(r, "approve", saved, 50) /\ saved.pc \in Nodes
    BY <2>1, BeginKeeps DEF Kinds, IInv, TypeOK
  <2>2. CASE ReplyAtOnce(r, "approve", "failed")
    BY <1>2, <2>2, ReplyKeeps DEF Kinds, Statuses, Approve
  <2>3. CASE ReplyAtOnce(r, "approve", "answered")
    BY <1>2, <2>3, ReplyKeeps DEF Kinds, Statuses, Approve
  <2>4. QED
    BY <1>2, <2>1, <2>2, <2>3 DEF Approve
<1>3. CASE Reject(r)
  <2>1. /\ WithInput("generation") \in State /\ StateInv(WithInput("generation"))
        /\ WithInput("generation").pc \in Nodes
    BY InputInv DEF Nodes
  <2>2. QED
    BY <1>3, <2>1, BeginKeeps DEF Reject, Kinds
<1>4. CASE Edit(r)
  <2>1. /\ WithInput("done") \in State /\ StateInv(WithInput("done"))
        /\ WithInput("done").pc \in Nodes
    BY InputInv DEF Nodes
  <2>2. QED
    BY <1>4, <2>1, BeginKeeps DEF Edit, Kinds
<1>5. QED
  BY <1>1, <1>2, <1>3, <1>4 DEF Arrive

\* Each superstep keeps the invariant.
LEMMA SuperstepKeeps ==
  ASSUME IInv, NEW r \in Requests, Superstep(r)
  PROVE  IInv'
<1>1. run[r] \in State /\ StateInv(run[r])
  BY DEF IInv, TypeOK
<1>2. CASE GatewayCeiling(r)
  <2>1. Good(run[r], Assembling(run[r]))
    BY <1>1, <1>2, CeilingGood DEF GatewayCeiling, At
  <2>2. QED
    BY <1>2, <2>1, MoveKeeps DEF GatewayCeiling, At
<1>3. CASE GatewayDispatch(r)
  <2>1. Good(run[r], [run[r] EXCEPT !.pc = Worker[run[r].phase]])
    BY <1>1, <1>3, DispatchGood DEF GatewayDispatch, At
  <2>2. QED
    BY <1>3, <2>1, MoveKeeps DEF GatewayDispatch, At
<1>4. CASE GatewayRollback(r)
  <2>1. Good(run[r], [run[r] EXCEPT !.pc = "rollback_phase"])
    BY <1>1, <1>4, RollbackGood DEF GatewayRollback, At
  <2>2. QED
    BY <1>4, <2>1, MoveKeeps DEF GatewayRollback, At
<1>5. CASE GatewayExhausted(r)
  <2>1. Good(run[r], Assembling(run[r]))
    BY <1>1, <1>5, ExhaustedGood DEF GatewayExhausted, At
  <2>2. QED
    BY <1>5, <2>1, MoveKeeps DEF GatewayExhausted, At
<1>6. CASE GatewayAfterReview(r)
  <2>1. Good(run[r], Assembling(run[r]))
    BY <1>1, <1>6, AfterReviewGood DEF GatewayAfterReview, At
  <2>2. QED
    BY <1>6, <2>1, MoveKeeps DEF GatewayAfterReview, At
<1>7. CASE GatewayDefault(r)
  <2>1. run[r].phase = "generation"
    BY <1>1, <1>7 DEF GatewayDefault, State, Phases, Worker
  <2>2. Good(run[r], [run[r] EXCEPT !.pc = "retrieval_agent", !.phase = "explore"])
    BY <1>1, <1>7, <2>1, DefaultGood DEF GatewayDefault, At
  <2>3. QED
    BY <1>7, <2>2, MoveKeeps DEF GatewayDefault, At
<1>8. CASE RetrievalAgent(r)
  <2>1. Good(run[r], AgentDone(run[r], "retrieval_agent", "phase_transition"))
    BY <1>1, <1>8, RetrievalGood DEF RetrievalAgent, At
  <2>2. QED
    BY <1>8, <2>1, MoveKeeps DEF RetrievalAgent, At
<1>9. CASE GenerationAgent(r)
  <2>1. Good(run[r], AgentDone(run[r], "generation_agent", "phase_transition"))
    BY <1>1, <1>9, GenerationGood DEF GenerationAgent, At
  <2>2. QED
    BY <1>9, <2>1, MoveKeeps DEF GenerationAgent, At
<1>10. CASE EvaluationAgent(r)
  <2>1. PICK e \in {"pass", "fail"} :
          Move(r, [AgentDone(run[r], "evaluation_agent", "post_validate")
                     EXCEPT !.eval = e])
    BY <1>10 DEF EvaluationAgent
  <2>2. Good(run[r], [AgentDone(run[r], "evaluation_agent", "post_validate")
                        EXCEPT !.eval = e])
    BY <1>1, <1>10, EvaluationGood DEF EvaluationAgent, At
  <2>3. QED
    BY <1>10, <2>1, <2>2, MoveKeeps DEF EvaluationAgent, At
<1>11. CASE PhaseTransition(r)
  <2>1. Good(run[r], [run[r] EXCEPT !.pc = "gateway", !.phase = NextPhase(@)])
    BY <1>1, <1>11, TransitionGood DEF PhaseTransition, At
  <2>2. QED
    BY <1>11, <2>1, MoveKeeps DEF PhaseTransition, At
<1>12. CASE PostValidate(r)
  <2>1. Good(run[r], [run[r] EXCEPT !.pc = "gateway", !.phase = Verdict(run[r])])
    BY <1>1, <1>12, PostValidateGood DEF PostValidate, At
  <2>2. QED
    BY <1>12, <2>1, MoveKeeps DEF PostValidate, At
<1>13. CASE FreezeContext(r)
  <2>1. Good(run[r], [run[r] EXCEPT !.pc = "phase_transition", !.phase = "freeze"])
    BY <1>1, <1>13, FreezeGood DEF FreezeContext, At
  <2>2. QED
    BY <1>13, <2>1, MoveKeeps DEF FreezeContext, At
<1>14. CASE PlanPhase(r)
  <2>1. PICK ok \in BOOLEAN :
          Move(r, [run[r] EXCEPT !.pc = "phase_transition", !.phase = "plan",
                                 !.planOk = ok])
    BY <1>14 DEF PlanPhase
  <2>2. Good(run[r], [run[r] EXCEPT !.pc = "phase_transition", !.phase = "plan",
                                    !.planOk = ok])
    BY <1>1, <1>14, PlanGood DEF PlanPhase, At
  <2>3. QED
    BY <1>14, <2>1, <2>2, MoveKeeps DEF PlanPhase, At
<1>15. CASE RollbackPhase(r)
  <2>1. Good(run[r], [run[r] EXCEPT !.pc = "gateway", !.phase = "explore",
                                    !.rb = @ + 1, !.ran = {}, !.retried = TRUE])
    BY <1>1, <1>15, RollbackPhaseGood DEF RollbackPhase, At
  <2>2. QED
    BY <1>15, <2>1, MoveKeeps DEF RollbackPhase, At
<1>16. CASE AssembleOutput(r)
  <2> DEFINE s == [run[r] EXCEPT !.pc = "end", !.phase = "done"]
  <2>1. s \in State
    BY <1>1 DEF State, Places, Phases
  <2>2. /\ s.pc = "end" /\ s.phase = "done" /\ s.iter = run[r].iter
        /\ s.max = run[r].max /\ s.rb = run[r].rb /\ s.ran = run[r].ran
        /\ s.retried = run[r].retried
    BY <1>1 DEF State
  <2>3. saved' = s /\ Release(r, "answered")
    BY <1>16 DEF AssembleOutput
  <2> HIDE DEF s
  <2>4. StateInv(s)
    BY <1>1, <2>2 DEF Agents, StateInv, Coherent, Counters, Ordered, RetryFits,
     BeforeRetrieval, BeforeGeneration, BeforeEvaluation, AfterEvaluation, MayRollBack
  <2>5. QED
    BY <2>1, <2>3, <2>4, ReleaseKeeps DEF Statuses
<1>17. CASE InvalidPlan(r)
  BY <1>17, ReleaseKeeps DEF InvalidPlan, Statuses, IInv, TypeOK
<1>18. QED
  BY <1>2, <1>3, <1>4, <1>5, <1>6, <1>7, <1>8, <1>9, <1>10, <1>11, <1>12,
     <1>13, <1>14, <1>15, <1>16, <1>17 DEF Superstep, Gateway

\* Every step of the specification keeps the invariant.
LEMMA NextKeeps == IInv /\ [Next]_vars => IInv'
<1> SUFFICES ASSUME IInv, [Next]_vars PROVE IInv'
  OBVIOUS
<1>1. CASE \E r \in Requests : Arrive(r) \/ Superstep(r) \/ Crash(r)
  <2>1. PICK r \in Requests : Arrive(r) \/ Superstep(r) \/ Crash(r)
    BY <1>1
  <2>2. CASE Crash(r)
    BY <2>2, ReleaseKeeps DEF Crash, Statuses, IInv, TypeOK
  <2>3. QED
    BY <2>1, <2>2, ArriveKeeps, SuperstepKeeps
<1>2. CASE UNCHANGED vars
  BY <1>2 DEF vars, IInv, TypeOK, RunInv, NewSession, DefaultMaxIterations, StateInv, Coherent, Counters, Ordered, RetryFits,
     BeforeRetrieval, BeforeGeneration, BeforeEvaluation, AfterEvaluation, MayRollBack,
     Left, AttemptLeft, LongestRun, ChatVerdict
<1>3. QED
  BY <1>1, <1>2 DEF Next, AllServed

\* The invariant holds in every reachable state.
THEOREM Invariance == Spec => []IInv
  BY InitInv, NextKeeps, PTL DEF Spec

-----------------------------------------------------------------------------
(* What follows from it *)

\* The channels keep the types PipelineState declares for them.
THEOREM TypeCorrect == Spec => []TypeOK
<1>1. IInv => TypeOK
  BY DEF IInv
<1>2. QED
  BY <1>1, Invariance, PTL

\* No session ever rolls back more often than max_rollbacks.
THEOREM RollbacksAreBounded == Spec => []RollbackBounded
<1>1. IInv => RollbackBounded
  BY DEF IInv, StateInv, Counters, RollbackBounded
<1>2. QED
  BY <1>1, Invariance, PTL

\* No run of the pipeline ever reaches LangGraph's recursion limit.
THEOREM RecursionLimitIsNeverReached == Spec => []StepsBelowLimit
<1>1. ASSUME IInv, NEW r \in Requests, status[r] = "running"
      PROVE  steps[r] < limit[r]
  <2>1. /\ run[r] \in State /\ StateInv(run[r]) /\ run[r].pc \in Nodes
        /\ limit[r] >= 50 /\ steps[r] + Left(run[r]) <= LongestRun + 1
        /\ steps[r] \in Nat /\ limit[r] \in Nat
    BY <1>1 DEF IInv, TypeOK, RunInv
  <2>2. Left(run[r]) \in Int /\ Left(run[r]) >= 1
    <3>1. AttemptLeft(run[r]) \in Int /\ AttemptLeft(run[r]) >= 1
      BY <2>1 DEF AttemptLeft, PhaseLeft, NodeLeft, State, Phases, Nodes, Agents,
         StateInv, Coherent
    <3>2. QED
      BY <2>1, <3>1, MaxRollbacksAssumption DEF Left, StateInv, Counters, State
  <2>3. QED
    BY <2>1, <2>2, MaxRollbacksAssumption DEF LongestRun
<1>2. IInv => StepsBelowLimit
  BY <1>1 DEF StepsBelowLimit
<1>3. QED
  BY <1>2, Invariance, PTL

\* No agent is dispatched at the iteration ceiling, and no run counts past it.
THEOREM CeilingIsHard == Spec => []HardCeiling
<1>1. IInv => HardCeiling
  BY DEF IInv, StateInv, Counters, HardCeiling
<1>2. QED
  BY <1>1, Invariance, PTL

\* Generation follows retrieval and evaluation follows generation, in every
\* attempt of every run, however requests interleave, crash and resume.
THEOREM StagesFollowInOrder == Spec => []StagesInOrder
<1>1. IInv => StagesInOrder
  BY DEF IInv, StateInv, Ordered, BeforeGeneration, BeforeEvaluation, StagesInOrder
<1>2. QED
  BY <1>1, Invariance, PTL

\* A granted rollback always has the iterations its retry needs.
THEOREM RetriesReachValidation == Spec => []RetryReachesValidation
<1>1. IInv => RetryReachesValidation
  BY DEF IInv, StateInv, RetryFits, RetryReachesValidation
<1>2. QED
  BY <1>1, Invariance, PTL

\* A chat is answered without a passed evaluation only when the retries or
\* the iterations are used up.
THEOREM UnvalidatedIsExhausted == Spec => []UnvalidatedOnlyWhenExhausted
<1>1. ASSUME IInv, NEW r \in Requests, kind[r] = "chat", run[r].pc = "assemble_output"
      PROVE  \/ "evaluation_agent" \in run[r].ran /\ run[r].eval = "pass"
             \/ run[r].rb = MaxRollbacks
             \/ run[r].iter + 3 >= run[r].max
  <2>1. status[r] = "running"
    BY <1>1 DEF IInv, NewSession
  <2>2. QED
    BY <1>1, <2>1 DEF IInv, RunInv, ChatVerdict
<1>2. IInv => UnvalidatedOnlyWhenExhausted
  BY <1>1 DEF UnvalidatedOnlyWhenExhausted
<1>3. QED
  BY <1>2, Invariance, PTL

-----------------------------------------------------------------------------
(* Pipeline implements Workflow *)

StageMap == [r \in Requests |-> Stage(r)]
RetriesMap == [r \in Requests |-> run[r].rb]

\* The stage of a run in progress.
StageOf(phase) == IF phase = "generation" THEN "explore" ELSE phase

\* The initial states map to initial states of Workflow.
LEMMA InitMaps == Init => W!Init
  BY DEF Init, W!Init, Stage, Live, NewSession

\* How the end of a superstep changes the mapped variables.
LEMMA MoveMaps ==
  ASSUME IInv, NEW r \in Requests, status[r] = "running",
         NEW t \in State, Move(r, t)
  PROVE  /\ StageMap[r] = StageOf(run[r].phase) /\ RetriesMap[r] = run[r].rb
         /\ StageMap' = [StageMap EXCEPT ![r] = StageOf(t.phase)]
         /\ RetriesMap' = [RetriesMap EXCEPT ![r] = t.rb]
<1>1. status' = status /\ run' = [run EXCEPT ![r] = t] /\ run \in [Requests -> State]
  BY DEF Move, IInv, TypeOK
<1>2. StageMap[r] = StageOf(run[r].phase) /\ RetriesMap[r] = run[r].rb
  BY DEF StageMap, RetriesMap, Stage, Live, StageOf
<1>3. ASSUME NEW q \in Requests
      PROVE  Stage(q)' = IF q = r THEN StageOf(t.phase) ELSE Stage(q)
  BY <1>1 DEF Stage, Live, StageOf
<1>4. StageMap' = [StageMap EXCEPT ![r] = StageOf(t.phase)]
  BY <1>3 DEF StageMap
<1>5. RetriesMap' = [RetriesMap EXCEPT ![r] = t.rb]
  BY <1>1 DEF RetriesMap
<1>6. QED
  BY <1>2, <1>4, <1>5

\* A superstep that stays in its stage is a stuttering step of Workflow.
LEMMA SameStageMaps ==
  ASSUME IInv, NEW r \in Requests, status[r] = "running", NEW t \in State,
         Move(r, t), StageOf(t.phase) = StageOf(run[r].phase), t.rb = run[r].rb
  PROVE  UNCHANGED W!vars
<1>1. StageMap' = StageMap /\ RetriesMap' = RetriesMap
  BY MoveMaps DEF StageMap, RetriesMap
<1>2. QED
  BY <1>1 DEF StageMap, RetriesMap, W!vars

\* A superstep that goes on to the next phase of the diagram.
LEMMA AdvanceMaps ==
  ASSUME IInv, NEW r \in Requests, status[r] = "running", NEW t \in State,
         Move(r, t), StageOf(run[r].phase) \in DOMAIN W!Follows,
         StageOf(t.phase) \in W!Follows[StageOf(run[r].phase)], t.rb = run[r].rb
  PROVE  W!Advance(r)
<1>1. /\ StageMap[r] = StageOf(run[r].phase)
      /\ StageMap' = [StageMap EXCEPT ![r] = StageOf(t.phase)]
      /\ RetriesMap' = RetriesMap
  BY MoveMaps DEF RetriesMap
<1>2. QED
  BY <1>1 DEF StageMap, RetriesMap, W!Advance

\* A superstep that gives up.
LEMMA GiveUpMaps ==
  ASSUME IInv, NEW r \in Requests, status[r] = "running",
         run[r].phase \in Phases, Move(r, Assembling(run[r]))
  PROVE  W!GiveUp(r)
<1>1. run[r] \in State
  BY DEF IInv, TypeOK
<1>2. /\ Assembling(run[r]) \in State /\ Assembling(run[r]).phase = "done"
      /\ Assembling(run[r]).rb = run[r].rb
  BY <1>1 DEF Assembling, State, Places, Nodes, Phases
<1>3. /\ StageMap[r] = StageOf(run[r].phase)
      /\ StageMap' = [StageMap EXCEPT ![r] = "done"]
      /\ RetriesMap' = RetriesMap
  BY <1>2, MoveMaps DEF RetriesMap, StageOf
<1>4. StageMap[r] \in DOMAIN W!Follows
  BY <1>3 DEF StageOf, Phases, W!Follows
<1>5. QED
  BY <1>3, <1>4 DEF StageMap, RetriesMap, W!GiveUp

\* The start of a run.
LEMMA BeginMaps ==
  ASSUME IInv, NEW r \in Requests, status[r] = "idle", NEW k, NEW s \in State,
         StateInv(s), NEW lim, Begin(r, k, s, lim)
  PROVE  W!Start(r)
<1>1. /\ status' = [status EXCEPT ![r] = "running"] /\ run' = [run EXCEPT ![r] = s]
      /\ run \in [Requests -> State] /\ status \in [Requests -> Statuses]
  BY DEF Begin, IInv, TypeOK
<1>2. StageMap[r] = "idle"
  BY DEF StageMap, Stage, Live
<1>3. ASSUME NEW q \in Requests
      PROVE  Stage(q)' = IF q = r THEN StageOf(s.phase) ELSE Stage(q)
  BY <1>1 DEF Stage, Live, StageOf
<1>4. StageMap' = [StageMap EXCEPT ![r] = StageOf(s.phase)]
  BY <1>3 DEF StageMap
<1>5. RetriesMap' = [RetriesMap EXCEPT ![r] = s.rb]
  BY <1>1 DEF RetriesMap
<1>6. StageOf(s.phase) \in W!Stages \ {"idle"}
  BY DEF StageOf, State, Phases, W!Stages, W!Follows
<1>7. s.rb \in 0..MaxRollbacks
  BY MaxRollbacksAssumption DEF State, StateInv, Counters
<1>8. QED
  BY <1>2, <1>4, <1>5, <1>6, <1>7 DEF StageMap, RetriesMap, W!Start

\* A reply without a run.
LEMMA ReplyMaps ==
  ASSUME IInv, NEW r \in Requests, status[r] = "idle", NEW k,
         NEW outcome \in Statuses \ {"idle", "running"}, ReplyAtOnce(r, k, outcome)
  PROVE  W!Start(r)
<1>1. /\ status' = [status EXCEPT ![r] = outcome] /\ run' = run
      /\ run \in [Requests -> State] /\ status \in [Requests -> Statuses]
  BY DEF ReplyAtOnce, IInv, TypeOK
<1>2. StageMap[r] = "idle"
  BY DEF StageMap, Stage, Live
<1>3. ASSUME NEW q \in Requests
      PROVE  Stage(q)' = IF q = r THEN "over" ELSE Stage(q)
  BY <1>1 DEF Stage, Live, Statuses
<1>4. StageMap' = [StageMap EXCEPT ![r] = "over"]
  BY <1>3 DEF StageMap
<1>5. run[r].rb = 0
  BY DEF IInv, NewSession
<1>6. RetriesMap' = [RetriesMap EXCEPT ![r] = 0]
  BY <1>1, <1>5 DEF RetriesMap
<1>7. "over" \in W!Stages \ {"idle"} /\ 0 \in 0..MaxRollbacks
  BY MaxRollbacksAssumption DEF W!Stages, W!Follows
<1>8. QED
  BY <1>2, <1>4, <1>6, <1>7 DEF StageMap, RetriesMap, W!Start

\* The end of a run.
LEMMA ReleaseMaps ==
  ASSUME IInv, NEW r \in Requests, status[r] = "running",
         NEW outcome \in Statuses \ {"idle", "running"}, Release(r, outcome)
  PROVE  W!End(r)
<1>1. /\ status' = [status EXCEPT ![r] = outcome]
      /\ run' = [run EXCEPT ![r] = NewSession]
      /\ run \in [Requests -> State] /\ status \in [Requests -> Statuses]
  BY DEF Release, IInv, TypeOK
<1>2. StageMap[r] \in DOMAIN W!Follows
  BY <1>1 DEF StageMap, Stage, Live, State, Phases, W!Follows
<1>3. ASSUME NEW q \in Requests
      PROVE  Stage(q)' = IF q = r THEN "over" ELSE Stage(q)
  BY <1>1 DEF Stage, Live, Statuses
<1>4. StageMap' = [StageMap EXCEPT ![r] = "over"]
  BY <1>3 DEF StageMap
<1>5. RetriesMap' = [RetriesMap EXCEPT ![r] = 0]
  BY <1>1 DEF RetriesMap, NewSession
<1>6. QED
  BY <1>2, <1>4, <1>5 DEF StageMap, RetriesMap, W!End

\* Every superstep maps to a step of Workflow or to a stutter.
LEMMA SuperstepMaps ==
  ASSUME IInv, NEW r \in Requests, Superstep(r)
  PROVE  [W!Next]_(W!vars)
<1>1. /\ run[r] \in State /\ StateInv(run[r]) /\ run[r].phase \in Phases
      /\ run[r].rb \in Nat /\ run[r].rb <= MaxRollbacks
  BY DEF IInv, TypeOK, StateInv, Counters, State
<1>2. CASE GatewayCeiling(r) \/ GatewayExhausted(r) \/ GatewayAfterReview(r)
  BY <1>1, <1>2, GiveUpMaps
  DEF GatewayCeiling, GatewayExhausted, GatewayAfterReview, At, W!Next
<1>3. CASE GatewayDispatch(r)
  <2> DEFINE t == [run[r] EXCEPT !.pc = Worker[run[r].phase]]
  <2>1. t \in State /\ t.phase = run[r].phase /\ t.rb = run[r].rb
    BY <1>1, <1>3 DEF GatewayDispatch, Worker, State, Places, Nodes, Agents
  <2>2. status[r] = "running" /\ Move(r, t)
    BY <1>3 DEF GatewayDispatch, At
  <2> HIDE DEF t
  <2>3. QED
    BY <2>1, <2>2, SameStageMaps
<1>4. CASE GatewayRollback(r)
  <2> DEFINE t == [run[r] EXCEPT !.pc = "rollback_phase"]
  <2>1. t \in State /\ t.phase = run[r].phase /\ t.rb = run[r].rb
    BY <1>1 DEF State, Places, Nodes
  <2>2. status[r] = "running" /\ Move(r, t)
    BY <1>4 DEF GatewayRollback, At
  <2> HIDE DEF t
  <2>3. QED
    BY <2>1, <2>2, SameStageMaps
<1>5. CASE GatewayDefault(r)
  <2> DEFINE t == [run[r] EXCEPT !.pc = "retrieval_agent", !.phase = "explore"]
  <2>1. t \in State /\ t.phase = "explore" /\ t.rb = run[r].rb
    BY <1>1 DEF State, Places, Nodes, Agents, Phases
  <2>2. status[r] = "running" /\ Move(r, t) /\ run[r].phase = "generation"
    BY <1>1, <1>5 DEF GatewayDefault, At, Phases, Worker
  <2> HIDE DEF t
  <2>3. QED
    BY <2>1, <2>2, SameStageMaps DEF StageOf
<1>6. ASSUME NEW agent \in Agents, NEW next \in Nodes
      PROVE  LET t == AgentDone(run[r], agent, next)
             IN  t \in State /\ t.phase = run[r].phase /\ t.rb = run[r].rb
  <2>1. run[r].iter + 1 \in Nat /\ run[r].ran \cup {agent} \in SUBSET Agents
    BY <1>1 DEF State
  <2>2. QED
    BY <1>1, <2>1 DEF AgentDone, State, Places
<1>7. ASSUME NEW t \in State, NEW e \in {"pass", "fail"}
      PROVE  LET u == [t EXCEPT !.eval = e]
             IN  u \in State /\ u.phase = t.phase /\ u.rb = t.rb
  BY DEF State
<1>8. CASE RetrievalAgent(r)
  <2> DEFINE t == AgentDone(run[r], "retrieval_agent", "phase_transition")
  <2>1. t \in State /\ t.phase = run[r].phase /\ t.rb = run[r].rb
    BY <1>6 DEF Nodes, Agents
  <2>2. status[r] = "running" /\ Move(r, t)
    BY <1>8 DEF RetrievalAgent, At
  <2> HIDE DEF t
  <2>3. QED
    BY <2>1, <2>2, SameStageMaps
<1>9. CASE GenerationAgent(r)
  <2> DEFINE t == AgentDone(run[r], "generation_agent", "phase_transition")
  <2>1. t \in State /\ t.phase = run[r].phase /\ t.rb = run[r].rb
    BY <1>6 DEF Nodes, Agents
  <2>2. status[r] = "running" /\ Move(r, t)
    BY <1>9 DEF GenerationAgent, At
  <2> HIDE DEF t
  <2>3. QED
    BY <2>1, <2>2, SameStageMaps
<1>10. CASE EvaluationAgent(r)
  <2>1. PICK e \in {"pass", "fail"} :
          Move(r, [AgentDone(run[r], "evaluation_agent", "post_validate")
                     EXCEPT !.eval = e])
    BY <1>10 DEF EvaluationAgent
  <2> DEFINE u == AgentDone(run[r], "evaluation_agent", "post_validate")
             t == [u EXCEPT !.eval = e]
  <2>2. u \in State /\ u.phase = run[r].phase /\ u.rb = run[r].rb
    BY <1>6 DEF Nodes, Agents
  <2> HIDE DEF u
  <2>3. t \in State /\ t.phase = run[r].phase /\ t.rb = run[r].rb
    BY <1>7, <2>2
  <2> USE DEF u
  <2>4. status[r] = "running" /\ Move(r, t)
    BY <1>10, <2>1 DEF EvaluationAgent, At
  <2> HIDE DEF t
  <2>5. QED
    BY <2>3, <2>4, SameStageMaps
<1>11. CASE PhaseTransition(r)
  <2> DEFINE t == [run[r] EXCEPT !.pc = "gateway", !.phase = NextPhase(@)]
  <2>1. run[r].phase \in {"explore", "freeze", "plan", "execute"}
    BY <1>1, <1>11 DEF PhaseTransition, At, StateInv, Coherent
  <2>2. t \in State /\ t.phase = NextPhase(run[r].phase) /\ t.rb = run[r].rb
    BY <1>1 DEF NextPhase, State, Places, Nodes, Phases
  <2>3. status[r] = "running" /\ Move(r, t)
    BY <1>11 DEF PhaseTransition, At
  <2> HIDE DEF t
  <2>4. W!Advance(r)
    BY <2>1, <2>2, <2>3, AdvanceMaps DEF StageOf, NextPhase, W!Follows
  <2>5. QED
    BY <2>4 DEF W!Next
<1>12. CASE PostValidate(r)
  <2> DEFINE t == [run[r] EXCEPT !.pc = "gateway", !.phase = Verdict(run[r])]
  <2>1. run[r].phase = "validate"
    BY <1>1, <1>12 DEF PostValidate, At, StateInv, Coherent
  <2>2. Verdict(run[r]) \in {"done", "human_review", "rollback"}
    BY <1>1 DEF Verdict, State
  <2>3. t \in State /\ t.phase = Verdict(run[r]) /\ t.rb = run[r].rb
    BY <1>1, <2>2 DEF State, Places, Nodes, Phases
  <2>4. status[r] = "running" /\ Move(r, t)
    BY <1>12 DEF PostValidate, At
  <2> HIDE DEF t
  <2>5. W!Advance(r)
    BY <2>1, <2>2, <2>3, <2>4, AdvanceMaps DEF StageOf, W!Follows
  <2>6. QED
    BY <2>5 DEF W!Next
<1>13. CASE FreezeContext(r)
  <2> DEFINE t == [run[r] EXCEPT !.pc = "phase_transition", !.phase = "freeze"]
  <2>1. run[r].phase = "freeze"
    BY <1>1, <1>13 DEF FreezeContext, At, StateInv, Coherent
  <2>2. t \in State /\ t.phase = "freeze" /\ t.rb = run[r].rb
    BY <1>1 DEF State, Places, Nodes, Phases
  <2>3. status[r] = "running" /\ Move(r, t)
    BY <1>13 DEF FreezeContext, At
  <2> HIDE DEF t
  <2>4. QED
    BY <2>1, <2>2, <2>3, SameStageMaps
<1>14. CASE PlanPhase(r)
  <2>1. PICK ok \in BOOLEAN :
          Move(r, [run[r] EXCEPT !.pc = "phase_transition", !.phase = "plan",
                                 !.planOk = ok])
    BY <1>14 DEF PlanPhase
  <2> DEFINE t == [run[r] EXCEPT !.pc = "phase_transition", !.phase = "plan",
                                 !.planOk = ok]
  <2>2. run[r].phase = "plan"
    BY <1>1, <1>14 DEF PlanPhase, At, StateInv, Coherent
  <2>3. t \in State /\ t.phase = "plan" /\ t.rb = run[r].rb
    BY <1>1 DEF State, Places, Nodes, Phases
  <2>4. status[r] = "running" /\ Move(r, t)
    BY <1>14, <2>1 DEF PlanPhase, At
  <2> HIDE DEF t
  <2>5. QED
    BY <2>2, <2>3, <2>4, SameStageMaps
<1>15. CASE RollbackPhase(r)
  <2> DEFINE t == [run[r] EXCEPT !.pc = "gateway", !.phase = "explore",
                                 !.rb = @ + 1, !.ran = {}, !.retried = TRUE]
  <2>1. run[r].phase = "rollback" /\ run[r].rb < MaxRollbacks
    BY <1>1, <1>15 DEF RollbackPhase, At, StateInv, Coherent, MayRollBack
  <2>2. run[r].rb + 1 \in Nat
    BY <1>1
  <2>3. t \in State /\ t.phase = "explore" /\ t.rb = run[r].rb + 1
    BY <1>1, <2>2 DEF State, Places, Nodes, Phases
  <2>4. status[r] = "running" /\ Move(r, t)
    BY <1>15 DEF RollbackPhase, At
  <2> HIDE DEF t
  <2>5. /\ StageMap[r] = "rollback" /\ RetriesMap[r] = run[r].rb
        /\ StageMap' = [StageMap EXCEPT ![r] = "explore"]
        /\ RetriesMap' = [RetriesMap EXCEPT ![r] = run[r].rb + 1]
    BY <2>1, <2>3, <2>4, MoveMaps DEF StageOf
  <2>6. W!Retry(r)
    BY <2>1, <2>5 DEF StageMap, RetriesMap, W!Retry
  <2>7. QED
    BY <2>6 DEF W!Next
<1>16. CASE AssembleOutput(r) \/ InvalidPlan(r)
  BY <1>16, ReleaseMaps DEF AssembleOutput, InvalidPlan, At, Statuses, W!Next
<1>17. QED
  BY <1>2, <1>3, <1>4, <1>5, <1>8, <1>9, <1>10, <1>11, <1>12, <1>13, <1>14,
     <1>15, <1>16 DEF Superstep, Gateway

\* The arrival of a request maps to the start of its run.
LEMMA ArriveMaps ==
  ASSUME IInv, NEW r \in Requests, Arrive(r)
  PROVE  W!Start(r)
<1>1. CASE Chat(r)
  <2>1. PICK m \in MaxIterations :
          Begin(r, "chat", [WithInput("explore") EXCEPT !.max = m], ChatLimit(m))
    BY <1>1 DEF Chat
  <2>2. /\ [WithInput("explore") EXCEPT !.max = m] \in State
        /\ StateInv([WithInput("explore") EXCEPT !.max = m])
    BY MaxIterationsAssumption, InputInv
  <2>3. QED
    BY <1>1, <2>1, <2>2, BeginMaps DEF Chat
<1>2. CASE Approve(r)
  BY <1>2, BeginMaps, ReplyMaps DEF Approve, Statuses, IInv, TypeOK
<1>3. CASE Reject(r)
  <2>1. WithInput("generation") \in State /\ StateInv(WithInput("generation"))
    BY InputInv
  <2>2. QED
    BY <1>3, <2>1, BeginMaps DEF Reject
<1>4. CASE Edit(r)
  <2>1. WithInput("done") \in State /\ StateInv(WithInput("done"))
    BY InputInv
  <2>2. QED
    BY <1>4, <2>1, BeginMaps DEF Edit
<1>5. QED
  BY <1>1, <1>2, <1>3, <1>4 DEF Arrive

\* Every step maps to a step of Workflow or to a stutter.
LEMMA NextMaps == IInv /\ [Next]_vars => [W!Next]_(W!vars)
<1> SUFFICES ASSUME IInv, [Next]_vars PROVE [W!Next]_(W!vars)
  OBVIOUS
<1>1. CASE \E r \in Requests : Arrive(r) \/ Superstep(r) \/ Crash(r)
  <2>1. PICK r \in Requests : Arrive(r) \/ Superstep(r) \/ Crash(r)
    BY <1>1
  <2>2. CASE Crash(r)
    BY <2>2, ReleaseMaps DEF Crash, Statuses, W!Next
  <2>3. CASE Arrive(r)
    BY <2>3, ArriveMaps DEF W!Next
  <2>4. QED
    BY <2>1, <2>2, <2>3, SuperstepMaps
<1>2. CASE UNCHANGED vars
  BY <1>2 DEF vars, W!vars, Stage, Live
<1>3. QED
  BY <1>1, <1>2 DEF Next, AllServed

\* Every run goes through the phases of the documented state machine, in its
\* order, with at most max_rollbacks retries.
THEOREM ImplementsWorkflow == Spec => FollowsWorkflow
  BY InitMaps, NextMaps, Invariance, PTL DEF Spec, FollowsWorkflow, W!Spec
=============================================================================
