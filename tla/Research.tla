------------------------------ MODULE Research ------------------------------
(***************************************************************************)
(* The automated research loop: the graph of orchestration/research_*.py,  *)
(* the stages of agents/research/agent.py and the start and feedback       *)
(* handlers of presentation/api/v1/research.py, on one session.            *)
(*                                                                         *)
(* A start puts a few channels to their first values and leaves the other  *)
(* ones as the session's last checkpoint has them: hypotheses, experiments *)
(* and the iteration history outlive a run.  Runs follow each other here;  *)
(* runs that overlap on a session are the subject of Pipeline.  A node is  *)
(* one superstep and one action.                                           *)
(*                                                                         *)
(* domain_context, literature and the journal do not influence the control *)
(* and are left out, and with them the adjust feedback, which only writes  *)
(* domain_context.                                                         *)
(***************************************************************************)
EXTENDS Naturals, Sequences

CONSTANTS
  MaxIterations,   \* the values of max_iterations the starts choose
  RecursionLimit,  \* LangGraph's default: no handler here configures one
  Batch,           \* the hypotheses one synthesis proposes at most
  MaxStarts        \* bound: the starts on the session

\* ResearchStartRequest.max_iterations is validated to 1..20.
ASSUME ResearchIterationsAssumption == MaxIterations \subseteq 1..20

ASSUME RecursionLimitAssumption == RecursionLimit \in Nat

\* _build_hypotheses keeps the first five.
ASSUME BatchAssumption == Batch \in 0..5

VARIABLES
  saved,    \* the channel values of the session's latest checkpoint
  run,      \* the channel values and next node of the run, in memory
  status,   \* what became of the latest start
  starts,   \* the number of starts so far
  steps,    \* the supersteps of the run so far, START included
  streamed, \* the latest start came through /stream
  stopped   \* history: a stop was acknowledged during the run

vars == <<saved, run, status, starts, steps, streamed, stopped>>

-----------------------------------------------------------------------------
(***************************************************************************)
(* Channel values.  hyps is the list of hypotheses, by status; exps the    *)
(* list of experiments, with the hypothesis each is for; last the decision *)
(* of the latest iteration record; report says whether final_report is     *)
(* empty, written by this run, or by an earlier one.  ran is history: the  *)
(* stages that have run in the current iteration; undecided, too: a        *)
(* decision of this run has failed.                                        *)
(***************************************************************************)
HypothesisStatus == {"proposed", "testing", "confirmed", "rejected", "inconclusive"}
ExperimentStatus == {"designed", "running", "completed", "failed", "timeout"}
Settled == {"completed", "failed", "timeout"}

Stages == {"scout", "survey", "synthesize", "design", "experiment", "analyze",
           "decide"}
Phases == Stages \cup {"conclude"}
Nodes == Phases \cup {"gateway", "phase_transition", "post_decide"}

Decisions == {"iterate", "pivot", "conclude"}

State == [pc        : Nodes,
          phase     : Phases,
          iter      : Nat,
          max       : Nat,
          hyps      : Seq(HypothesisStatus),
          exps      : Seq([hyp : Nat, status : ExperimentStatus]),
          last      : Decisions \cup {"none"},
          report    : {"none", "old", "new"},
          ran       : SUBSET Stages,
          undecided : BOOLEAN]

\* The defaults of ResearchState; max is always set by the start.
NewSession == [pc |-> "gateway", phase |-> "scout", iter |-> 1, max |-> 5,
               hyps |-> <<>>, exps |-> <<>>, last |-> "none",
               report |-> "none", ran |-> {}, undecided |-> FALSE]

Init == /\ saved = NewSession
        /\ run = NewSession
        /\ status = "idle"
        /\ starts = 0
        /\ steps = 0
        /\ streamed = FALSE
        /\ stopped = FALSE

-----------------------------------------------------------------------------
(* research.py *)

\* POST /start and /stream.
Start ==
  /\ status # "running"
  /\ starts < MaxStarts
  /\ \E m \in MaxIterations :
       run' = [saved EXCEPT !.pc = "gateway", !.phase = "scout", !.iter = 1,
                            !.max = m, !.ran = {}, !.undecided = FALSE,
                            !.report = IF @ = "none" THEN "none" ELSE "old"]
  /\ saved' = run'
  /\ status' = "running"
  /\ starts' = starts + 1
  /\ steps' = 1
  /\ streamed' \in BOOLEAN
  /\ stopped' = FALSE

\* POST /feedback stop: it updates the checkpoint, which no run reads again.
Stop ==
  /\ starts > 0
  /\ saved' = [saved EXCEPT !.phase = "conclude"]
  /\ stopped' = (status = "running")
  /\ UNCHANGED <<run, status, starts, steps, streamed>>

\* The client of a stream disconnects, the process dies, or a checkpoint
\* cannot be written: what is in memory only is lost.
Crash ==
  /\ status = "running"
  /\ status' = "crashed"
  /\ run' = NewSession
  /\ UNCHANGED <<saved, starts, steps, streamed, stopped>>

\* The superstep after the last one allowed raises GraphRecursionError.
CutOff ==
  /\ status = "running"
  /\ steps > RecursionLimit
  /\ status' = "cutoff"
  /\ run' = NewSession
  /\ UNCHANGED <<saved, starts, steps, streamed, stopped>>

-----------------------------------------------------------------------------
At(node) ==
  /\ status = "running"
  /\ steps <= RecursionLimit
  /\ run.pc = node

\* The superstep ends with the channel values s.  Hypotheses and experiments
\* are objects that nodes change in place, but a checkpoint holds a new
\* version of their channel only if the node has returned it.
Move(s, returned) ==
  /\ run' = s
  /\ saved' = [s EXCEPT !.hyps = IF "hyps" \in returned THEN @ ELSE saved.hyps,
                        !.exps = IF "exps" \in returned THEN @ ELSE saved.exps]
  /\ steps' = steps + 1
  /\ UNCHANGED <<status, starts, streamed, stopped>>

\* research_gateway; every phase has the name of its node.
Gateway ==
  /\ At("gateway")
  /\ IF run.iter > run.max
       THEN Move([run EXCEPT !.pc = "conclude", !.phase = "conclude"], {})
       ELSE ~ streamed /\ Move([run EXCEPT !.pc = run.phase], {})

\* A dispatch of the gateway updates no channel, and LangGraph streams None
\* for it, on which the event generator of /stream raises.
StreamFails ==
  /\ At("gateway")
  /\ streamed
  /\ run.iter <= run.max
  /\ status' = "failed"
  /\ run' = NewSession
  /\ UNCHANGED <<saved, starts, steps, streamed, stopped>>

-----------------------------------------------------------------------------
(* agent.py: the stages.  A stage that fails leaves an entry in the journal *)
(* and goes on to the next phase.                                           *)

Done(s, stage, next) == [s EXCEPT !.pc = next, !.ran = @ \cup {stage}]

\* Scouting and surveying, or failing to, change none of the channels here.
ScoutOrSurvey(stage) ==
  /\ At(stage)
  /\ Move(Done(run, stage, "phase_transition"), {})

Scout == ScoutOrSurvey("scout")
Survey == ScoutOrSurvey("survey")

Synthesize ==
  /\ At("synthesize")
  /\ \E k \in 0..Batch :
       Move([Done(run, "synthesize", "phase_transition")
               EXCEPT !.hyps = @ \o [i \in 1..k |-> "proposed"]], {"hyps"})

\* The model or its answer fails: no hypotheses are returned.
SynthesizeSkipped ==
  /\ At("synthesize")
  /\ Move(Done(run, "synthesize", "phase_transition"), {})

Testable(s) == {h \in DOMAIN s.hyps : s.hyps[h] \in {"proposed", "inconclusive"}}

\* The experiments of s whose status is in S.
With(s, S) == {e \in DOMAIN s.exps : s.exps[e].status \in S}

\* The first and the last index of I, if there is one.
First(I) == {i \in I : \A j \in I : i <= j}
Latest(I) == {i \in I : \A j \in I : j <= i}

\* No hypothesis is testable, or the designer raises.
DesignSkipped ==
  /\ At("design")
  /\ Move(Done(run, "design", "phase_transition"), {})

Design ==
  /\ At("design")
  /\ \E h \in First(Testable(run)) :
       Move([Done(run, "design", "phase_transition")
               EXCEPT !.hyps[h] = "testing",
                      !.exps = Append(@, [hyp |-> h, status |-> "designed"])],
            {"hyps", "exps"})

\* Mutant: the latest experiment is taken whatever its status.
AnyExperiment(s) == Latest(DOMAIN s.exps)

\* The experiment to run, if any: the latest designed one, or the latest one
\* that an earlier attempt has left running.
Runnable(s) ==
  LET designed == With(s, {"designed"})
  IN  Latest(IF designed # {} THEN designed ELSE With(s, {"running"}))

ExperimentSkipped ==
  /\ At("experiment")
  /\ Runnable(run) = {}
  /\ Move(Done(run, "experiment", "phase_transition"), {})

\* Mutant: the code of an experiment is waited for without a timeout.
WaitForSandbox == At("experiment") /\ UNCHANGED vars

\* The exit code of the sandbox settles the experiment; if the sandbox raises
\* instead, the experiment is left running, in memory only.
RunExperiment ==
  /\ At("experiment")
  /\ \E e \in Runnable(run), outcome \in Settled \cup {"running"} :
       Move([Done(run, "experiment", "phase_transition")
               EXCEPT !.exps[e].status = outcome],
            IF outcome = "running" THEN {} ELSE {"exps"})

Verdicts == {"confirmed", "rejected", "inconclusive"}

\* Mutant: the verdict goes to the first hypothesis.
JudgeFirst(s, e) == 1

\* The hypothesis experiment e is for.
Judged(s, e) == s.exps[e].hyp

\* The latest settled experiment is judged, whichever iteration ran it.  A
\* reply with a confidence that is no number raises after the verdict is
\* set, which then is in memory only.
Analyze ==
  /\ At("analyze")
  /\ \E e \in Latest(With(run, Settled)), verdict \in Verdicts,
        returned \in {{"hyps"}, {}} :
       Move([Done(run, "analyze", "phase_transition")
               EXCEPT !.hyps[Judged(run, e)] = verdict], returned)

\* No experiment is settled, or the analysis raises before its verdict.
AnalyzeSkipped ==
  /\ At("analyze")
  /\ Move(Done(run, "analyze", "phase_transition"), {})

-----------------------------------------------------------------------------
(* iteration_planner.py and run_decide *)

Deciding == Done(run, "decide", "post_decide")

\* Mutant: the ceiling is noticed one iteration late.
PastMax(s) == s.iter > s.max

MustConclude(s) == s.iter >= s.max

\* Mutant: a forced conclusion leaves the report of an earlier run.
KeepReport(s) == s.report

\* The final_report that comes with a forced conclusion is empty.
ForcedReport(s) == "none"

DecideForced ==
  /\ At("decide")
  /\ MustConclude(run)
  /\ Move([Deciding EXCEPT !.last = "conclude", !.report = ForcedReport(run)], {})

\* The LLM may conclude without a summary; a failing LLM does.
DecideConclude ==
  /\ At("decide")
  /\ ~ MustConclude(run)
  /\ \E report \in {"none", "new"} :
       Move([Deciding EXCEPT !.last = "conclude", !.report = report], {})

DecideContinue ==
  /\ At("decide")
  /\ ~ MustConclude(run)
  /\ \E decision \in {"iterate", "pivot"} :
       Move([Deciding EXCEPT !.last = decision, !.iter = @ + 1], {})

\* The reply does not fit an IterationRecord: no decision is recorded.
DecideFails ==
  /\ At("decide")
  /\ ~ MustConclude(run)
  /\ Move([Deciding EXCEPT !.undecided = TRUE], {})

-----------------------------------------------------------------------------
(* research_nodes.py *)

PhaseSequence(phase) ==
  CASE phase = "scout"      -> "survey"
    [] phase = "survey"     -> "synthesize"
    [] phase = "synthesize" -> "design"
    [] phase = "design"     -> "experiment"
    [] phase = "experiment" -> "analyze"
    [] OTHER                -> "decide"

PhaseTransition ==
  /\ At("phase_transition")
  /\ Move([run EXCEPT !.pc = "gateway", !.phase = PhaseSequence(@)], {})

\* Mutant: the decision is not a phase of its own.
ByDecision(last) == last

\* The phase after the latest decision on record, which is an earlier one if
\* the decision of this iteration has failed.
AfterDecision(last) ==
  CASE last = "iterate" -> "survey"
    [] last = "pivot"   -> "scout"
    [] OTHER            -> "conclude"

PostDecide ==
  /\ At("post_decide")
  /\ LET next == AfterDecision(run.last)
     IN  Move([run EXCEPT !.pc = "gateway", !.phase = next,
                          !.ran = IF next = "conclude" THEN @ ELSE {}], {})

\* The run ends here; if this superstep is one too many for LangGraph, it is
\* answered with the error although its checkpoint is written.
Conclude ==
  /\ At("conclude")
  /\ saved' = [run EXCEPT !.report = IF @ = "none" THEN "new" ELSE @,
                          !.hyps = saved.hyps, !.exps = saved.exps]
  /\ run' = NewSession
  /\ status' = IF steps < RecursionLimit THEN "answered" ELSE "cutoff"
  /\ UNCHANGED <<starts, steps, streamed, stopped>>

-----------------------------------------------------------------------------
Superstep ==
  \/ Gateway
  \/ StreamFails
  \/ Scout
  \/ Survey
  \/ Synthesize
  \/ SynthesizeSkipped
  \/ Design
  \/ DesignSkipped
  \/ RunExperiment
  \/ ExperimentSkipped
  \/ Analyze
  \/ AnalyzeSkipped
  \/ DecideForced
  \/ DecideConclude
  \/ DecideContinue
  \/ DecideFails
  \/ PhaseTransition
  \/ PostDecide
  \/ Conclude

\* All starts of the instance are used and over.
AllServed ==
  /\ starts = MaxStarts
  /\ status # "running"
  /\ UNCHANGED vars

Next == Start \/ Stop \/ Crash \/ CutOff \/ Superstep \/ AllServed

\* Every await of a stage returns: the LLM and HTTP clients and the sandbox
\* have timeouts.
Fairness == WF_vars(Superstep \/ CutOff)

Spec == Init /\ [][Next]_vars /\ Fairness
=============================================================================
