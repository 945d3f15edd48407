------------------------- MODULE ResearchProperties -------------------------
(***************************************************************************)
(* What is claimed of Research: the properties its runs check.             *)
(***************************************************************************)
EXTENDS Research

Statuses == {"idle", "running", "answered", "failed", "cutoff", "crashed"}

\* The variables have the types of the channels they model, and experiments
\* refer to hypotheses the same state lists.
TypeOK ==
  /\ saved \in State
  /\ run \in State
  /\ status \in Statuses
  /\ starts \in Nat
  /\ steps \in Nat
  /\ streamed \in BOOLEAN
  /\ stopped \in BOOLEAN
  /\ \A s \in {saved, run} : \A e \in DOMAIN s.exps : s.exps[e].hyp \in DOMAIN s.hyps

-----------------------------------------------------------------------------
(* Safety *)

\* max_iterations is a hard ceiling: the planner concludes at it, so neither
\* a run nor a checkpoint ever counts an iteration more.
IterationsWithinMax ==
  /\ status = "running" => run.iter <= run.max
  /\ starts > 0 => saved.iter <= saved.max

\* No iteration skips a stage: a decision is taken only after literature,
\* synthesis, design, experiment and analysis have run in its iteration, and
\* nothing is concluded without having reached a decision.
FullIteration ==
  status = "running" =>
    /\ run.pc = "decide" =>
         {"survey", "synthesize", "design", "experiment", "analyze"} \subseteq run.ran
    /\ run.pc = "conclude" => "decide" \in run.ran

\* A hypothesis leaves its first status only with an experiment of its own,
\* and a verdict on it rests on one that has been run to an outcome, also in a
\* checkpoint that lacks what was changed in place (agent.py:179, :276).
JudgedByOwnExperiment ==
  \A s \in {saved, run} : \A h \in DOMAIN s.hyps :
    s.hyps[h] # "proposed" =>
      \E e \in DOMAIN s.exps :
        /\ s.exps[e].hyp = h
        /\ s.hyps[h] \in Verdicts => s.exps[e].status \in Settled

\* The report of an answered start is not the one an earlier start has left
\* in the session, unless the planner has failed to decide.
ReportIsOwn ==
  status = "answered" /\ ~ saved.undecided => saved.report = "new"

\* What may become of an experiment.
Onwards(st) == CASE st = "designed" -> ExperimentStatus
                 [] st = "running"  -> ExperimentStatus \ {"designed"}
                 [] OTHER           -> {st}

\* The experiments of a checkpoint only go forward, however often the session
\* is stopped, cut off, lost and started again: none disappears or passes to
\* another hypothesis, none is designed again, and an outcome stays as it is.
ExperimentsOnlyAdvance ==
  [][\A e \in DOMAIN saved.exps :
       /\ e \in DOMAIN saved'.exps
       /\ saved'.exps[e].hyp = saved.exps[e].hyp
       /\ saved'.exps[e].status \in Onwards(saved.exps[e].status)]_vars

-----------------------------------------------------------------------------
(* Refinement: the stage of a run is its phase, and the one between a      *)
(* decision and its execution is told by the pending node.                 *)

Live == status = "running"

Ended == CASE status = "idle"     -> "idle"
           [] status = "answered" -> "answered"
           [] OTHER               -> "broken"

Stage == IF ~ Live THEN Ended
         ELSE IF run.pc = "post_decide" THEN "decided" ELSE run.phase

C == INSTANCE ResearchCycle WITH
       stage     <- Stage,
       iteration <- IF Live THEN run.iter ELSE 0,
       bound     <- IF Live THEN run.max ELSE 0,
       verdict   <- IF Live THEN run.last ELSE "none"

\* However often a session is started, stopped, cut off and started again,
\* and whichever stages and decisions fail, its runs go through the stages in
\* the order research_gateway.py documents: no iteration skips one, nothing
\* is concluded that has not been decided, and the iterations counted never
\* exceed the bound the start has set.
FollowsCycle == C!Spec

-----------------------------------------------------------------------------
(* Liveness *)

\* A start whose process survives is answered, be it with an error.
EveryResearchEnds == status = "running" ~> status # "running"

-----------------------------------------------------------------------------
(* Claims of the documentation that the code does not keep *)

\* The design document's test TC-INT-1 runs the full loop with two iterations
\* and expects the final report: no run is cut off.
NeverCutOff == status # "cutoff"

\* research.py:297,327: feedback is injected into a running session, and stop
\* is acknowledged as "stopping": the gateway then starts no further stage.
StopIsHonoured ==
  [][stopped /\ run.pc = "gateway" /\ run'.pc \in Nodes /\ steps' = steps + 1
       => run'.pc = "conclude"]_vars
=============================================================================
