--------------------------- MODULE ResearchProofs ---------------------------
(***************************************************************************)
(* Proofs about Research for every recursion limit, every max_iterations   *)
(* and every number of hypotheses the assumptions admit, and for any       *)
(* number of starts.                                                       *)
(***************************************************************************)
EXTENDS ResearchProperties, Integers, SequenceTheorems, TLAPS

Experiment == [hyp : Nat, status : ExperimentStatus]

-----------------------------------------------------------------------------
(* The inductive invariant: what holds of the data of a run and of a       *)
(* checkpoint, ...                                                         *)

Refs(s) == \A e \in DOMAIN s.exps : s.exps[e].hyp \in DOMAIN s.hyps

\* Experiment e of s is what the status of hypothesis h rests on.
Founds(s, e, h) ==
  /\ s.exps[e].hyp = h
  /\ s.hyps[h] \in Verdicts => s.exps[e].status \in Settled

Judgements(s) ==
  \A h \in DOMAIN s.hyps : s.hyps[h] # "proposed" =>
    \E e \in DOMAIN s.exps : Founds(s, e, h)

Data(s) == s \in State /\ Refs(s) /\ Judgements(s)

\* ... how the checkpoint c lags behind the memory s of the run: it may lack
\* the changes made in place, and then takes an experiment that has been
\* started for a designed one, but it has every outcome, ...
Lags(st, current) == st = current \/ (st = "designed" /\ current = "running")

Behind(c, s) ==
  /\ c.iter = s.iter /\ c.max = s.max
  /\ DOMAIN c.hyps = DOMAIN s.hyps
  /\ DOMAIN c.exps = DOMAIN s.exps
  /\ \A e \in DOMAIN s.exps :
       /\ c.exps[e].hyp = s.exps[e].hyp
       /\ Lags(c.exps[e].status, s.exps[e].status)

\* ... and where in its iteration a run is.
Before(phase) ==
  CASE phase = "synthesize" -> {"survey"}
    [] phase = "design"     -> {"survey", "synthesize"}
    [] phase = "experiment" -> {"survey", "synthesize", "design"}
    [] phase = "analyze"    -> {"survey", "synthesize", "design", "experiment"}
    [] phase = "decide"     -> {"survey", "synthesize", "design", "experiment",
                                "analyze"}
    [] phase = "conclude"   -> {"decide"}
    [] OTHER                -> {}

Placed(s) ==
  /\ s.pc \in Phases \cup {"gateway"} => Before(s.phase) \subseteq s.ran
  /\ s.pc \in Phases => s.pc = s.phase
  /\ s.pc = "phase_transition" =>
       /\ s.phase \in Stages \ {"decide"}
       /\ Before(s.phase) \cup {s.phase} \subseteq s.ran
  /\ s.pc = "post_decide" => s.phase = "decide" /\ "decide" \in s.ran

\* A run concludes with a report of its own to come, or undecided.
Reported(s) ==
  \/ s.undecided
  \/ /\ s.pc = "post_decide" =>
          s.last # "none" /\ (s.last = "conclude" => s.report # "old")
     /\ s.pc \in {"gateway", "conclude"} /\ s.phase = "conclude" => s.report # "old"

RunInv ==
  status = "running" =>
    /\ starts > 0
    /\ run.iter <= run.max
    /\ Behind(saved, run)
    /\ Placed(run)
    /\ Reported(run)

Types ==
  /\ status \in Statuses
  /\ starts \in Nat
  /\ steps \in Nat
  /\ streamed \in BOOLEAN
  /\ stopped \in BOOLEAN

IInv ==
  /\ Types
  /\ Data(saved)
  /\ Data(run)
  /\ RunInv
  /\ starts > 0 => saved.iter <= saved.max
  /\ ReportIsOwn

-----------------------------------------------------------------------------
(* A superstep on the data *)

LEMMA Lists ==
  ASSUME NEW s \in State
  PROVE  /\ DOMAIN s.hyps = 1 .. Len(s.hyps) /\ Len(s.hyps) \in Nat
         /\ DOMAIN s.exps = 1 .. Len(s.exps) /\ Len(s.exps) \in Nat
         /\ \A h \in DOMAIN s.hyps : s.hyps[h] \in HypothesisStatus
         /\ \A e \in DOMAIN s.exps : s.exps[e] \in Experiment
<1>1. s.hyps \in Seq(HypothesisStatus) /\ s.exps \in Seq(Experiment)
  BY DEF State, Experiment
<1> QED
  BY <1>1, LenProperties, ElementOfSeq

\* What a node may do to the channels from s to t if it returns the ones in
\* returned.
Advances(s, t, returned) ==
  /\ \A e \in DOMAIN s.exps :
       /\ e \in DOMAIN t.exps
       /\ t.exps[e].hyp = s.exps[e].hyp
       /\ t.exps[e].status \in Onwards(s.exps[e].status)
  /\ "hyps" \notin returned => DOMAIN t.hyps = DOMAIN s.hyps
  /\ "exps" \notin returned =>
       /\ DOMAIN t.exps = DOMAIN s.exps
       /\ \A e \in DOMAIN s.exps : Lags(s.exps[e].status, t.exps[e].status)

\* The experiments of the checkpoint go forward in a step.
KeepsExperiments ==
  \A e \in DOMAIN saved.exps :
    /\ e \in DOMAIN saved'.exps
    /\ saved'.exps[e].hyp = saved.exps[e].hyp
    /\ saved'.exps[e].status \in Onwards(saved.exps[e].status)

\* They do so if they stay as they are.
LEMMA UnchangedExperiments ==
  ASSUME Data(saved), saved'.exps = saved.exps
  PROVE  KeepsExperiments
<1>1. \A e \in DOMAIN saved.exps : saved.exps[e].status \in ExperimentStatus
  BY Lists DEF Data, Experiment
<1> QED
  BY <1>1 DEF KeepsExperiments, Onwards

\* A superstep that advances the run's data keeps it and the checkpoint
\* sound, whichever of the two channels the node has returned.
LEMMA MoveKeepsData ==
  ASSUME Data(saved), Data(run), Behind(saved, run), NEW t, NEW returned,
         Data(t), Advances(run, t, returned), Move(t, returned)
  PROVE  Data(saved') /\ Data(run') /\ Behind(saved', run') /\ KeepsExperiments
<1> DEFINE hyps == IF "hyps" \in returned THEN t.hyps ELSE saved.hyps
           exps == IF "exps" \in returned THEN t.exps ELSE saved.exps
<1>1. run' = t
  BY DEF Move
<1>2. saved' = [t EXCEPT !.hyps = hyps, !.exps = exps]
  BY DEF Move
<1>3. /\ saved \in State /\ run \in State /\ t \in State
      /\ Refs(t) /\ Judgements(t) /\ Refs(saved) /\ Judgements(saved)
  BY DEF Data
<1>4. /\ saved' \in State
      /\ saved'.hyps = hyps /\ saved'.exps = exps
      /\ saved'.iter = t.iter /\ saved'.max = t.max
  BY <1>2, <1>3 DEF State
<1> HIDE DEF hyps, exps
<1>5. DOMAIN hyps = DOMAIN t.hyps
  BY DEF hyps, Advances, Behind
<1>6. /\ DOMAIN exps = DOMAIN t.exps
      /\ \A e \in DOMAIN t.exps :
           /\ exps[e].hyp = t.exps[e].hyp
           /\ Lags(exps[e].status, t.exps[e].status)
  <2>1. CASE "exps" \in returned
    BY <2>1 DEF exps, Lags
  <2>2. CASE "exps" \notin returned
    BY <2>2 DEF exps, Advances, Behind, Lags
  <2> QED
    BY <2>1, <2>2
<1>7. Refs(saved')
  BY <1>3, <1>4, <1>5, <1>6 DEF Refs
<1>8. Judgements(saved')
  <2> SUFFICES ASSUME NEW h \in DOMAIN hyps, hyps[h] # "proposed"
               PROVE  \E e \in DOMAIN saved'.exps : Founds(saved', e, h)
    BY <1>4 DEF Judgements
  <2>1. PICK e \in DOMAIN t.exps :
          t.exps[e].hyp = h /\ (hyps[h] \in Verdicts => t.exps[e].status \in Settled)
    <3>1. CASE "hyps" \in returned
      BY <3>1, <1>3, <1>5 DEF hyps, Judgements, Founds
    <3>2. CASE "hyps" \notin returned
      <4>1. PICK e \in DOMAIN saved.exps : Founds(saved, e, h)
        BY <3>2, <1>3 DEF hyps, Judgements
      <4>2. /\ e \in DOMAIN run.exps /\ run.exps[e].hyp = h
            /\ hyps[h] \in Verdicts => run.exps[e].status \in Settled
        BY <3>2, <4>1 DEF hyps, Founds, Behind, Lags, Settled
      <4> QED
        BY <4>2 DEF Advances, Onwards, Settled
    <3> QED
      BY <3>1, <3>2
  <2>2. t.exps[e].status \in Settled => exps[e].status \in Settled
    BY <2>1, <1>6 DEF Lags, Settled
  <2> QED
    BY <2>1, <2>2, <1>4, <1>6 DEF Founds
<1>9. Behind(saved', run')
  BY <1>1, <1>4, <1>5, <1>6 DEF Behind
<1>10. KeepsExperiments
  <2>1. CASE "exps" \notin returned
    BY <2>1, <1>4, UnchangedExperiments DEF exps
  <2>2. CASE "exps" \in returned
    <3> SUFFICES ASSUME NEW e \in DOMAIN saved.exps
                 PROVE  /\ e \in DOMAIN t.exps
                        /\ t.exps[e].hyp = saved.exps[e].hyp
                        /\ t.exps[e].status \in Onwards(saved.exps[e].status)
      BY <2>2, <1>4 DEF exps, KeepsExperiments
    <3>1. /\ e \in DOMAIN run.exps /\ run.exps[e].hyp = saved.exps[e].hyp
          /\ Lags(saved.exps[e].status, run.exps[e].status)
      BY DEF Behind
    <3>2. /\ e \in DOMAIN t.exps /\ t.exps[e].hyp = run.exps[e].hyp
          /\ t.exps[e].status \in Onwards(run.exps[e].status)
      BY <3>1 DEF Advances
    <3>3. t.exps[e].status \in ExperimentStatus
      BY <3>2, <1>3, Lists DEF Experiment
    <3> QED
      BY <3>1, <3>2, <3>3 DEF Lags, Onwards
  <2> QED
    BY <2>1, <2>2
<1> QED
  BY <1>1, <1>3, <1>4, <1>7, <1>8, <1>9, <1>10 DEF Data

\* A node that leaves hypotheses and experiments alone advances trivially.
LEMMA QuietAdvances ==
  ASSUME NEW s, Data(s), NEW t \in State, t.hyps = s.hyps, t.exps = s.exps
  PROVE  Data(t) /\ Advances(s, t, {})
<1>1. \A e \in DOMAIN s.exps : s.exps[e].status \in ExperimentStatus
  BY Lists DEF Data, Experiment
<1>2. Advances(s, t, {})
  BY <1>1 DEF Advances, Onwards, Lags
<1> QED
  BY <1>2 DEF Data, Refs, Judgements, Founds

-----------------------------------------------------------------------------
(* Steps *)

\* A superstep to t preserves the invariant, and the experiments go forward.
LEMMA StepKeeps ==
  ASSUME IInv, status = "running", NEW t, NEW returned, Data(t),
         Advances(run, t, returned), t.iter <= t.max, Placed(t), Reported(t),
         Move(t, returned)
  PROVE  IInv' /\ KeepsExperiments
<1>1. Data(saved) /\ Data(run) /\ Behind(saved, run)
  BY DEF IInv, RunInv
<1>2. Data(saved') /\ Data(run') /\ Behind(saved', run') /\ KeepsExperiments
  BY <1>1, MoveKeepsData
<1>3. run' = t /\ steps' = steps + 1
      /\ UNCHANGED <<status, starts, streamed, stopped>>
  BY DEF Move
<1>4. RunInv'
  BY <1>2, <1>3 DEF IInv, RunInv, Placed, Reported, Behind
<1>5. saved'.iter <= saved'.max
  BY <1>2, <1>3 DEF Behind
<1>6. Types'
  BY <1>3 DEF IInv, Types
<1>7. ReportIsOwn'
  BY <1>3 DEF ReportIsOwn
<1>8. IInv'
  BY <1>2, <1>4, <1>5, <1>6, <1>7 DEF IInv
<1> QED
  BY <1>2, <1>8

\* The same for a node that leaves hypotheses and experiments alone.
LEMMA QuietStepKeeps ==
  ASSUME IInv, status = "running", NEW t \in State,
         t.hyps = run.hyps, t.exps = run.exps, t.iter <= t.max,
         Placed(t), Reported(t), Move(t, {})
  PROVE  IInv' /\ KeepsExperiments
<1>1. Data(t) /\ Advances(run, t, {})
  BY QuietAdvances DEF IInv
<1> QED
  BY <1>1, StepKeeps

\* What the invariant says of a run in progress.
LEMMA Running ==
  ASSUME IInv, status = "running"
  PROVE  /\ run \in State /\ Refs(run) /\ Judgements(run)
         /\ run.iter <= run.max /\ Placed(run) /\ Reported(run)
         /\ run.iter \in Nat /\ run.max \in Nat
BY DEF IInv, RunInv, Data, State

LEMMA GatewayKeeps ==
  ASSUME IInv, Gateway
  PROVE  IInv' /\ KeepsExperiments
<1> DEFINE t == [run EXCEPT !.pc = run.phase]
<1>1. status = "running" /\ run.pc = "gateway"
  BY DEF Gateway, At
<1>2. Move(t, {})
  BY <1>1, Running DEF Gateway
<1>3. /\ t \in State /\ t.hyps = run.hyps /\ t.exps = run.exps
      /\ t.iter <= t.max
  BY <1>1, Running DEF State, Nodes
<1>4. Placed(t) /\ Reported(t)
  BY <1>1, Running DEF State, Placed, Reported, Phases, Stages
<1> HIDE DEF t
<1> QED
  BY <1>1, <1>2, <1>3, <1>4, QuietStepKeeps

\* A stage that is done has done what the transition expects of it.
LEMMA DoneIsPlaced ==
  ASSUME NEW s \in State, NEW stage \in Stages \ {"decide"}, s.pc = stage,
         Placed(s), Reported(s), NEW t \in State,
         t.pc = "phase_transition", t.phase = s.phase,
         t.ran = s.ran \cup {stage}, t.undecided = s.undecided
  PROVE  Placed(t) /\ Reported(t)
BY DEF Placed, Reported, Phases, Stages

\* A stage that changes none of the channels, or is skipped.
LEMMA IdleStageKeeps ==
  ASSUME IInv, NEW stage \in Stages \ {"decide"}, At(stage),
         Move(Done(run, stage, "phase_transition"), {})
  PROVE  IInv' /\ KeepsExperiments
<1> DEFINE t == Done(run, stage, "phase_transition")
<1>1. status = "running" /\ run.pc = stage
  BY DEF At
<1>2. /\ t \in State /\ t.hyps = run.hyps /\ t.exps = run.exps
      /\ t.iter <= t.max /\ t.pc = "phase_transition" /\ t.phase = run.phase
      /\ t.ran = run.ran \cup {stage} /\ t.undecided = run.undecided
  BY <1>1, Running DEF State, Nodes, Done
<1> HIDE DEF t
<1>3. Placed(t) /\ Reported(t)
  BY <1>1, <1>2, Running, DoneIsPlaced
<1> QED
  BY <1>1, <1>2, <1>3, QuietStepKeeps DEF t

LEMMA ScoutKeeps ==
  ASSUME IInv, Scout \/ Survey
  PROVE  IInv' /\ KeepsExperiments
BY IdleStageKeeps DEF Scout, Survey, ScoutOrSurvey, Stages

LEMMA SkippedStageKeeps ==
  ASSUME IInv, SynthesizeSkipped \/ DesignSkipped \/ ExperimentSkipped \/ AnalyzeSkipped
  PROVE  IInv' /\ KeepsExperiments
BY IdleStageKeeps DEF SynthesizeSkipped, DesignSkipped, ExperimentSkipped, AnalyzeSkipped,
   Stages

LEMMA SynthesizeKeeps ==
  ASSUME IInv, Synthesize
  PROVE  IInv' /\ KeepsExperiments
<1>1. status = "running" /\ run.pc = "synthesize"
  BY DEF Synthesize, At
<1>2. PICK k \in 0..Batch :
        Move([Done(run, "synthesize", "phase_transition")
                EXCEPT !.hyps = @ \o [i \in 1..k |-> "proposed"]], {"hyps"})
  BY DEF Synthesize
<1> DEFINE new == [i \in 1..k |-> "proposed"]
           hyps == run.hyps \o new
           t == [Done(run, "synthesize", "phase_transition") EXCEPT !.hyps = hyps]
<1>3. Move(t, {"hyps"})
  BY <1>2 DEF Done
<1>4. k \in Nat
  BY BatchAssumption
<1>5. new \in Seq(HypothesisStatus) /\ Len(new) = k
  BY <1>4 DEF HypothesisStatus
<1>6. run.hyps \in Seq(HypothesisStatus)
  BY <1>1, Running DEF State
<1>7. /\ hyps \in Seq(HypothesisStatus)
      /\ DOMAIN hyps = 1 .. Len(run.hyps) + k
      /\ \A i \in 1 .. Len(run.hyps) + k :
           hyps[i] = IF i <= Len(run.hyps) THEN run.hyps[i] ELSE new[i - Len(run.hyps)]
  BY <1>5, <1>6, ConcatProperties, LenProperties
<1> HIDE DEF hyps
<1>8. /\ t \in State /\ t.hyps = hyps /\ t.exps = run.exps /\ t.iter <= t.max
      /\ t.pc = "phase_transition" /\ t.phase = run.phase
      /\ t.ran = run.ran \cup {"synthesize"} /\ t.undecided = run.undecided
  BY <1>1, <1>7, Running DEF State, Nodes, Done, Stages
<1> HIDE DEF t
<1>9. DOMAIN run.hyps = 1 .. Len(run.hyps) /\ Len(run.hyps) \in Nat
  BY <1>1, Running, Lists
<1>10. Refs(t)
  BY <1>1, <1>4, <1>7, <1>8, <1>9, Running DEF Refs
<1>11. Judgements(t)
  <2> SUFFICES ASSUME NEW h \in DOMAIN hyps, hyps[h] # "proposed"
               PROVE  \E e \in DOMAIN run.exps : Founds(t, e, h)
    BY <1>8 DEF Judgements
  <2>1. h <= Len(run.hyps)
    <3> SUFFICES ASSUME ~ (h <= Len(run.hyps))
                 PROVE  FALSE
      OBVIOUS
    <3>1. h - Len(run.hyps) \in 1..k
      BY <1>4, <1>7, <1>9
    <3>2. hyps[h] = "proposed"
      BY <3>1, <1>7
    <3> QED
      BY <3>2
  <2>2. h \in DOMAIN run.hyps /\ hyps[h] = run.hyps[h]
    BY <2>1, <1>4, <1>7, <1>9
  <2> QED
    BY <2>2, <1>1, <1>8, Running DEF Judgements, Founds
<1>12. Placed(t) /\ Reported(t)
  BY <1>1, <1>8, Running, DoneIsPlaced DEF Stages
<1>13. Data(t) /\ Advances(run, t, {"hyps"})
  <2>1. \A e \in DOMAIN run.exps : run.exps[e].status \in ExperimentStatus
    BY <1>1, Running, Lists DEF Experiment
  <2> QED
    BY <2>1, <1>8, <1>10, <1>11 DEF Data, Advances, Onwards, Lags
<1> QED
  BY <1>1, <1>3, <1>8, <1>12, <1>13, StepKeeps

LEMMA DesignKeeps ==
  ASSUME IInv, Design
  PROVE  IInv' /\ KeepsExperiments
<1>1. status = "running" /\ run.pc = "design"
  BY DEF Design, At
<1>2. PICK n \in First(Testable(run)) :
        Move([Done(run, "design", "phase_transition")
                EXCEPT !.hyps[n] = "testing",
                       !.exps = Append(@, [hyp |-> n, status |-> "designed"])],
             {"hyps", "exps"})
  BY DEF Design
<1> DEFINE new == [hyp |-> n, status |-> "designed"]
           hyps == [run.hyps EXCEPT ![n] = "testing"]
           exps == Append(run.exps, new)
           t == [Done(run, "design", "phase_transition")
                   EXCEPT !.hyps = hyps, !.exps = exps]
<1>3. Move(t, {"hyps", "exps"})
  BY <1>2 DEF Done
<1>4. /\ DOMAIN run.hyps = 1 .. Len(run.hyps) /\ Len(run.hyps) \in Nat
      /\ DOMAIN run.exps = 1 .. Len(run.exps) /\ Len(run.exps) \in Nat
      /\ run.hyps \in Seq(HypothesisStatus) /\ run.exps \in Seq(Experiment)
  BY <1>1, Running, Lists DEF State, Experiment
<1>5. n \in 1 .. Len(run.hyps) /\ n \in Nat
  BY <1>2, <1>4 DEF First, Testable
<1>6. hyps \in Seq(HypothesisStatus) /\ DOMAIN hyps = DOMAIN run.hyps
      /\ \A h \in DOMAIN hyps : hyps[h] = IF h = n THEN "testing" ELSE run.hyps[h]
  <2>1. "testing" \in HypothesisStatus
    BY DEF HypothesisStatus
  <2> QED
    BY <1>4, <1>5, <2>1, ExceptSeq
<1>7. new \in Experiment
  BY <1>5 DEF Experiment, ExperimentStatus
<1>8. /\ exps \in Seq(Experiment) /\ DOMAIN exps = 1 .. Len(run.exps) + 1
      /\ \A e \in 1 .. Len(run.exps) : exps[e] = run.exps[e]
      /\ exps[Len(run.exps) + 1] = new
  <2> HIDE DEF new
  <2>1. /\ exps \in Seq(Experiment) /\ Len(exps) = Len(run.exps) + 1
        /\ \A e \in 1 .. Len(run.exps) : exps[e] = run.exps[e]
        /\ exps[Len(run.exps) + 1] = new
    BY <1>4, <1>7, AppendProperties
  <2> QED
    BY <2>1, LenProperties
<1> HIDE DEF hyps, exps
<1>9. /\ t \in State /\ t.hyps = hyps /\ t.exps = exps /\ t.iter <= t.max
      /\ t.pc = "phase_transition" /\ t.phase = run.phase
      /\ t.ran = run.ran \cup {"design"} /\ t.undecided = run.undecided
  BY <1>1, <1>6, <1>8, Running DEF State, Nodes, Done, Stages, Experiment
<1> HIDE DEF t
<1>10. Refs(t)
  <2> SUFFICES ASSUME NEW e \in DOMAIN exps
               PROVE  exps[e].hyp \in DOMAIN hyps
    BY <1>9 DEF Refs
  <2>1. CASE e = Len(run.exps) + 1
    BY <2>1, <1>4, <1>5, <1>6, <1>8
  <2>2. CASE e # Len(run.exps) + 1
    <3>1. e \in DOMAIN run.exps /\ exps[e] = run.exps[e]
      BY <2>2, <1>4, <1>8
    <3> QED
      BY <3>1, <1>1, <1>6, Running DEF Refs
  <2> QED
    BY <2>1, <2>2
<1>11. Judgements(t)
  <2> SUFFICES ASSUME NEW h \in DOMAIN hyps, hyps[h] # "proposed"
               PROVE  \E e \in DOMAIN exps : Founds(t, e, h)
    BY <1>9 DEF Judgements
  <2>1. CASE h = n
    <3>1. /\ Len(run.exps) + 1 \in DOMAIN exps
          /\ exps[Len(run.exps) + 1].hyp = h /\ hyps[h] = "testing"
      BY <2>1, <1>4, <1>6, <1>8
    <3> QED
      BY <3>1, <1>9 DEF Founds, Verdicts
  <2>2. CASE h # n
    <3>1. PICK e \in DOMAIN run.exps : Founds(run, e, h)
      BY <2>2, <1>1, <1>6, Running DEF Judgements
    <3> QED
      BY <2>2, <3>1, <1>4, <1>6, <1>8, <1>9 DEF Founds
  <2> QED
    BY <2>1, <2>2
<1>12. Placed(t) /\ Reported(t)
  BY <1>1, <1>9, Running, DoneIsPlaced DEF Stages
<1>13. Advances(run, t, {"hyps", "exps"})
  <2>1. \A e \in DOMAIN run.exps : run.exps[e].status \in ExperimentStatus
    BY <1>1, Running, Lists DEF Experiment
  <2> QED
    BY <2>1, <1>4, <1>8, <1>9 DEF Advances, Onwards
<1>14. Data(t)
  BY <1>9, <1>10, <1>11 DEF Data
<1> QED
  BY <1>1, <1>3, <1>9, <1>12, <1>13, <1>14, StepKeeps

LEMMA RunExperimentKeeps ==
  ASSUME IInv, RunExperiment
  PROVE  IInv' /\ KeepsExperiments
<1>1. status = "running" /\ run.pc = "experiment"
  BY DEF RunExperiment, At
<1>2. PICK x \in Runnable(run), outcome \in Settled \cup {"running"} :
        Move([Done(run, "experiment", "phase_transition")
                EXCEPT !.exps[x].status = outcome],
             IF outcome = "running" THEN {} ELSE {"exps"})
  BY DEF RunExperiment
<1> DEFINE new == [run.exps[x] EXCEPT !.status = outcome]
           exps == [run.exps EXCEPT ![x] = new]
           t == [Done(run, "experiment", "phase_transition") EXCEPT !.exps = exps]
           returned == IF outcome = "running" THEN {} ELSE {"exps"}
<1>3. Move(t, returned)
  BY <1>2 DEF Done
<1>4. x \in DOMAIN run.exps /\ run.exps[x].status \notin Settled
  BY <1>2 DEF Runnable, Latest, With, Settled
<1>5. /\ DOMAIN run.exps = 1 .. Len(run.exps)
      /\ run.exps \in Seq(Experiment) /\ run.exps[x] \in Experiment
  BY <1>1, <1>4, Running, Lists DEF State, Experiment
<1>6. new \in Experiment /\ new.hyp = run.exps[x].hyp /\ new.status = outcome
  BY <1>2, <1>5 DEF Experiment, ExperimentStatus, Settled
<1>7. /\ exps \in Seq(Experiment) /\ DOMAIN exps = DOMAIN run.exps
      /\ \A e \in DOMAIN exps : exps[e] = IF e = x THEN new ELSE run.exps[e]
  <2> HIDE DEF new
  <2> QED
    BY <1>4, <1>5, <1>6, ExceptSeq
<1> HIDE DEF new, exps
<1>8. /\ t \in State /\ t.hyps = run.hyps /\ t.exps = exps /\ t.iter <= t.max
      /\ t.pc = "phase_transition" /\ t.phase = run.phase
      /\ t.ran = run.ran \cup {"experiment"} /\ t.undecided = run.undecided
  BY <1>1, <1>7, Running DEF State, Nodes, Done, Stages, Experiment
<1> HIDE DEF t
<1>9. Refs(t)
  BY <1>1, <1>6, <1>7, <1>8, Running DEF Refs
<1>10. Judgements(t)
  <2> SUFFICES ASSUME NEW h \in DOMAIN run.hyps, run.hyps[h] # "proposed"
               PROVE  \E e \in DOMAIN exps : Founds(t, e, h)
    BY <1>8 DEF Judgements
  <2>1. PICK e \in DOMAIN run.exps : Founds(run, e, h)
    BY <1>1, Running DEF Judgements
  <2> QED
    BY <2>1, <1>4, <1>6, <1>7, <1>8 DEF Founds
<1>11. Placed(t) /\ Reported(t)
  BY <1>1, <1>8, Running, DoneIsPlaced DEF Stages
<1>12. Advances(run, t, returned)
  <2>1. \A e \in DOMAIN run.exps : run.exps[e].status \in ExperimentStatus
    BY <1>1, Running, Lists DEF Experiment
  <2>2. outcome \in Onwards(run.exps[x].status)
    BY <2>1, <1>2, <1>4 DEF Onwards, ExperimentStatus, Settled
  <2>3. "exps" \notin returned => Lags(run.exps[x].status, outcome)
    BY <2>1, <1>4 DEF Lags, ExperimentStatus, Settled
  <2> HIDE DEF returned
  <2>4. \A e \in DOMAIN run.exps : t.exps[e].status \in Onwards(run.exps[e].status)
    BY <2>1, <2>2, <1>6, <1>7, <1>8 DEF Onwards
  <2>5. "exps" \notin returned =>
          \A e \in DOMAIN run.exps : Lags(run.exps[e].status, t.exps[e].status)
    BY <2>3, <1>6, <1>7, <1>8 DEF Lags
  <2> QED
    BY <2>4, <2>5, <1>6, <1>7, <1>8 DEF Advances
<1>13. Data(t)
  BY <1>8, <1>9, <1>10 DEF Data
<1> HIDE DEF returned
<1> QED
  BY <1>1, <1>3, <1>8, <1>11, <1>12, <1>13, StepKeeps

LEMMA AnalyzeKeeps ==
  ASSUME IInv, Analyze
  PROVE  IInv' /\ KeepsExperiments
<1>1. status = "running" /\ run.pc = "analyze"
  BY DEF Analyze, At
<1>2. PICK e \in Latest(With(run, Settled)), verdict \in Verdicts,
           returned \in {{"hyps"}, {}} :
        Move([Done(run, "analyze", "phase_transition")
                EXCEPT !.hyps[Judged(run, e)] = verdict], returned)
  BY DEF Analyze
<1> DEFINE n == run.exps[e].hyp
           hyps == [run.hyps EXCEPT ![n] = verdict]
           t == [Done(run, "analyze", "phase_transition") EXCEPT !.hyps = hyps]
<1>3. Move(t, returned)
  BY <1>2 DEF Done, Judged
<1>4. e \in With(run, Settled) /\ e \in DOMAIN run.exps
  BY <1>2 DEF Latest, With
<1>5. n \in DOMAIN run.hyps
  BY <1>1, <1>4, Running DEF Refs
<1>6. /\ DOMAIN run.hyps = 1 .. Len(run.hyps)
      /\ run.hyps \in Seq(HypothesisStatus)
  BY <1>1, Running, Lists DEF State
<1>7. hyps \in Seq(HypothesisStatus) /\ DOMAIN hyps = DOMAIN run.hyps
      /\ \A h \in DOMAIN hyps : hyps[h] = IF h = n THEN verdict ELSE run.hyps[h]
  <2>1. verdict \in HypothesisStatus
    BY <1>2 DEF HypothesisStatus, Verdicts
  <2> QED
    BY <1>5, <1>6, <2>1, ExceptSeq
<1> HIDE DEF hyps
<1>8. /\ t \in State /\ t.hyps = hyps /\ t.exps = run.exps /\ t.iter <= t.max
      /\ t.pc = "phase_transition" /\ t.phase = run.phase
      /\ t.ran = run.ran \cup {"analyze"} /\ t.undecided = run.undecided
  BY <1>1, <1>7, Running DEF State, Nodes, Done, Stages
<1> HIDE DEF t
<1>9. Refs(t)
  BY <1>1, <1>7, <1>8, Running DEF Refs
<1>10. Judgements(t)
  <2> SUFFICES ASSUME NEW h \in DOMAIN hyps, hyps[h] # "proposed"
               PROVE  \E x \in DOMAIN run.exps : Founds(t, x, h)
    BY <1>8 DEF Judgements
  <2>1. CASE h = n
    BY <2>1, <1>4, <1>8 DEF Founds, With
  <2>2. CASE h # n
    BY <2>2, <1>1, <1>7, <1>8, Running DEF Judgements, Founds
  <2> QED
    BY <2>1, <2>2
<1>11. Placed(t) /\ Reported(t)
  BY <1>1, <1>8, Running, DoneIsPlaced DEF Stages
<1>12. Data(t) /\ Advances(run, t, returned)
  <2>1. \A x \in DOMAIN run.exps : run.exps[x].status \in ExperimentStatus
    BY <1>1, Running, Lists DEF Experiment
  <2> QED
    BY <2>1, <1>7, <1>8, <1>9, <1>10 DEF Data, Advances, Onwards, Lags
<1> QED
  BY <1>1, <1>3, <1>8, <1>11, <1>12, StepKeeps

\* A decision, whatever it is, leads to post_decide.
LEMMA DecisionKeeps ==
  ASSUME IInv, At("decide"), NEW t \in State,
         t.hyps = run.hyps, t.exps = run.exps, t.iter <= t.max,
         t.pc = "post_decide", t.phase = run.phase,
         t.ran = run.ran \cup {"decide"},
         t.undecided \/ (t.last # "none" /\ (t.last = "conclude" => t.report # "old")),
         Move(t, {})
  PROVE  IInv' /\ KeepsExperiments
<1>1. status = "running" /\ run.pc = "decide"
  BY DEF At
<1>2. Placed(t) /\ Reported(t)
  BY <1>1, Running DEF Placed, Reported, Phases, Stages
<1> QED
  BY <1>1, <1>2, QuietStepKeeps

LEMMA DecideKeeps ==
  ASSUME IInv, DecideForced \/ DecideConclude \/ DecideContinue \/ DecideFails
  PROVE  IInv' /\ KeepsExperiments
<1>1. At("decide") /\ status = "running"
  BY DEF DecideForced, DecideConclude, DecideContinue, DecideFails, At
<1>2. CASE DecideForced
  <2> DEFINE t == [Deciding EXCEPT !.last = "conclude", !.report = ForcedReport(run)]
  <2>1. Move(t, {})
    BY <1>2 DEF DecideForced
  <2>2. /\ t \in State /\ t.hyps = run.hyps /\ t.exps = run.exps
        /\ t.iter <= t.max /\ t.pc = "post_decide" /\ t.phase = run.phase
        /\ t.ran = run.ran \cup {"decide"}
        /\ t.last = "conclude" /\ t.report = "none"
    BY <1>1, Running DEF State, Nodes, Deciding, Done, Stages, Decisions, ForcedReport
  <2> HIDE DEF t
  <2> QED
    BY <1>1, <2>1, <2>2, DecisionKeeps
<1>3. CASE DecideConclude
  <2>1. PICK report \in {"none", "new"} :
          Move([Deciding EXCEPT !.last = "conclude", !.report = report], {})
    BY <1>3 DEF DecideConclude
  <2> DEFINE t == [Deciding EXCEPT !.last = "conclude", !.report = report]
  <2>2. /\ t \in State /\ t.hyps = run.hyps /\ t.exps = run.exps
        /\ t.iter <= t.max /\ t.pc = "post_decide" /\ t.phase = run.phase
        /\ t.ran = run.ran \cup {"decide"}
        /\ t.last = "conclude" /\ t.report # "old"
    BY <1>1, Running DEF State, Nodes, Deciding, Done, Stages, Decisions
  <2>3. Move(t, {})
    BY <2>1
  <2> HIDE DEF t
  <2> QED
    BY <1>1, <2>2, <2>3, DecisionKeeps
<1>4. CASE DecideContinue
  <2>1. PICK decision \in {"iterate", "pivot"} :
          Move([Deciding EXCEPT !.last = decision, !.iter = @ + 1], {})
    BY <1>4 DEF DecideContinue
  <2> DEFINE t == [Deciding EXCEPT !.last = decision, !.iter = run.iter + 1]
  <2>2. Move(t, {})
    BY <2>1 DEF Deciding, Done
  <2>3. run.iter + 1 <= run.max /\ run.iter + 1 \in Nat
    BY <1>1, <1>4, Running DEF DecideContinue, MustConclude
  <2>4. /\ t \in State /\ t.hyps = run.hyps /\ t.exps = run.exps
        /\ t.iter <= t.max /\ t.pc = "post_decide" /\ t.phase = run.phase
        /\ t.ran = run.ran \cup {"decide"}
        /\ t.last \in {"iterate", "pivot"}
    <3>1. run \in State
      BY <1>1, Running
    <3> QED
      BY <2>1, <2>3, <3>1 DEF State, Nodes, Deciding, Done, Stages, Decisions
  <2> HIDE DEF t
  <2> QED
    BY <1>1, <2>2, <2>4, DecisionKeeps
<1>5. CASE DecideFails
  <2> DEFINE t == [Deciding EXCEPT !.undecided = TRUE]
  <2>1. Move(t, {})
    BY <1>5 DEF DecideFails
  <2>2. /\ t \in State /\ t.hyps = run.hyps /\ t.exps = run.exps
        /\ t.iter <= t.max /\ t.pc = "post_decide" /\ t.phase = run.phase
        /\ t.ran = run.ran \cup {"decide"} /\ t.undecided = TRUE
    BY <1>1, Running DEF State, Nodes, Deciding, Done, Stages
  <2> HIDE DEF t
  <2>3. t.undecided \/ (t.last # "none" /\ (t.last = "conclude" => t.report # "old"))
    BY <2>2, Zenon
  <2> QED
    BY <1>1, <2>1, <2>2, <2>3, DecisionKeeps
<1> QED
  BY <1>2, <1>3, <1>4, <1>5

LEMMA PhaseTransitionKeeps ==
  ASSUME IInv, PhaseTransition
  PROVE  IInv' /\ KeepsExperiments
<1> DEFINE t == [run EXCEPT !.pc = "gateway", !.phase = PhaseSequence(run.phase)]
<1>1. status = "running" /\ run.pc = "phase_transition"
  BY DEF PhaseTransition, At
<1>2. Move(t, {})
  BY DEF PhaseTransition
<1>3. run.phase \in Stages \ {"decide"} /\ Before(run.phase) \cup {run.phase} \subseteq run.ran
  BY <1>1, Running DEF Placed
<1>4. /\ PhaseSequence(run.phase) \in Phases \ {"conclude"}
      /\ Before(PhaseSequence(run.phase)) \subseteq run.ran
  BY <1>3 DEF PhaseSequence, Before, Stages, Phases
<1>5. /\ t \in State /\ t.hyps = run.hyps /\ t.exps = run.exps
      /\ t.iter <= t.max /\ t.pc = "gateway" /\ t.phase = PhaseSequence(run.phase)
      /\ t.ran = run.ran
  BY <1>1, <1>4, Running DEF State, Nodes
<1> HIDE DEF t
<1>6. Placed(t) /\ Reported(t)
  BY <1>4, <1>5 DEF Placed, Reported, Phases, Stages
<1> QED
  BY <1>1, <1>2, <1>5, <1>6, QuietStepKeeps

LEMMA PostDecideKeeps ==
  ASSUME IInv, PostDecide
  PROVE  IInv' /\ KeepsExperiments
<1> DEFINE next == AfterDecision(run.last)
           ran == IF next = "conclude" THEN run.ran ELSE {}
           t == [run EXCEPT !.pc = "gateway", !.phase = next, !.ran = ran]
<1>1. status = "running" /\ run.pc = "post_decide"
  BY DEF PostDecide, At
<1>2. Move(t, {})
  BY DEF PostDecide
<1>3. /\ next \in {"survey", "scout", "conclude"}
      /\ next = "conclude" => run.last \notin {"iterate", "pivot"}
  BY DEF AfterDecision
<1>4. "decide" \in run.ran /\ run.last \in Decisions \cup {"none"}
  BY <1>1, Running DEF Placed, State
<1> HIDE DEF next
<1>5. /\ t \in State /\ t.hyps = run.hyps /\ t.exps = run.exps
      /\ t.iter <= t.max /\ t.pc = "gateway" /\ t.phase = next
      /\ t.ran = ran /\ t.report = run.report /\ t.undecided = run.undecided
  BY <1>1, <1>3, Running DEF State, Nodes, Phases, Stages
<1> HIDE DEF t
<1>6. Placed(t)
  BY <1>3, <1>4, <1>5 DEF Placed, Before, Phases, Stages
<1>7. Reported(t)
  BY <1>1, <1>3, <1>4, <1>5, Running DEF Reported, Decisions
<1> QED
  BY <1>1, <1>2, <1>5, <1>6, <1>7, QuietStepKeeps

\* A session without data is sound.
LEMMA NewSessionIsSound == Data(NewSession)
<1>1. NewSession \in State
  BY DEF NewSession, State, Nodes, Phases, Stages, Decisions
<1>2. NewSession.hyps = <<>> /\ NewSession.exps = <<>>
  BY DEF NewSession
<1>3. NewSession.hyps \in Seq(HypothesisStatus) /\ NewSession.exps \in Seq(Experiment)
  BY <1>1 DEF State, Experiment
<1>4. DOMAIN NewSession.hyps = {} /\ DOMAIN NewSession.exps = {}
  BY <1>2
<1> QED
  BY <1>1, <1>4 DEF Data, Refs, Judgements

LEMMA ConcludeKeeps ==
  ASSUME IInv, Conclude
  PROVE  IInv' /\ KeepsExperiments
<1> DEFINE report == IF run.report = "none" THEN "new" ELSE run.report
<1>1. status = "running" /\ run.pc = "conclude"
  BY DEF Conclude, At
<1>2. saved' = [run EXCEPT !.report = report, !.hyps = saved.hyps, !.exps = saved.exps]
  BY DEF Conclude
<1>3. saved \in State /\ Refs(saved) /\ Judgements(saved) /\ run \in State
  BY DEF IInv, Data
<1>4. /\ saved' \in State /\ saved'.hyps = saved.hyps /\ saved'.exps = saved.exps
      /\ saved'.iter = run.iter /\ saved'.max = run.max
      /\ saved'.undecided = run.undecided /\ saved'.report = report
  BY <1>2, <1>3 DEF State
<1>5. Data(saved')
  BY <1>3, <1>4 DEF Data, Refs, Judgements, Founds
<1>6. Data(run')
  BY NewSessionIsSound DEF Conclude
<1>7. status' \in {"answered", "cutoff"} /\ UNCHANGED <<starts, steps, streamed, stopped>>
  BY DEF Conclude
<1>8. run.phase = "conclude"
  BY <1>1, Running DEF Placed, Phases
<1>9. run.report \in {"none", "old", "new"} /\ (run.undecided \/ run.report # "old")
  BY <1>1, <1>3, <1>8, Running DEF Reported, State
<1>10. ReportIsOwn'
  BY <1>4, <1>9 DEF ReportIsOwn
<1>11. Types' /\ RunInv' /\ saved'.iter <= saved'.max
  BY <1>1, <1>4, <1>7, Running DEF IInv, Types, RunInv, Statuses
<1> QED
  BY <1>4, <1>5, <1>6, <1>10, <1>11, UnchangedExperiments DEF IInv

\* The run is lost, the checkpoint stays.
LEMMA LossKeeps ==
  ASSUME IInv, StreamFails \/ Crash \/ CutOff
  PROVE  IInv' /\ KeepsExperiments
<1>1. /\ run' = NewSession /\ status' \in {"failed", "crashed", "cutoff"}
      /\ UNCHANGED <<saved, starts, steps, streamed, stopped>>
  BY DEF StreamFails, Crash, CutOff
<1>2. Data(saved') /\ Data(run')
  BY <1>1, NewSessionIsSound DEF IInv, Data, Refs, Judgements, Founds
<1>3. Types' /\ RunInv' /\ ReportIsOwn'
  BY <1>1 DEF IInv, Types, RunInv, Statuses, ReportIsOwn
<1> QED
  BY <1>1, <1>2, <1>3, UnchangedExperiments DEF IInv

LEMMA StartKeeps ==
  ASSUME IInv, Start
  PROVE  IInv' /\ KeepsExperiments
<1>1. PICK m \in MaxIterations :
        run' = [saved EXCEPT !.pc = "gateway", !.phase = "scout", !.iter = 1,
                             !.max = m, !.ran = {}, !.undecided = FALSE,
                             !.report = IF saved.report = "none" THEN "none" ELSE "old"]
  BY DEF Start
<1>2. saved \in State /\ Refs(saved) /\ Judgements(saved) /\ starts \in Nat
  BY DEF IInv, Data, Types
<1>3. m \in Nat /\ 1 <= m
  BY ResearchIterationsAssumption
<1>4. /\ run' \in State /\ run'.hyps = saved.hyps /\ run'.exps = saved.exps
      /\ run'.iter = 1 /\ run'.max = m /\ run'.pc = "gateway" /\ run'.phase = "scout"
  BY <1>1, <1>2, <1>3 DEF State, Nodes, Phases, Stages
<1>5. saved' = run' /\ status' = "running" /\ starts' = starts + 1 /\ steps' = 1
      /\ streamed' \in BOOLEAN /\ stopped' = FALSE
  BY DEF Start
<1>6. Data(saved') /\ Data(run')
  BY <1>2, <1>4, <1>5 DEF Data, Refs, Judgements, Founds
<1>7. Behind(saved', run')
  BY <1>5 DEF Behind, Lags
<1>8. Placed(run') /\ Reported(run')
  BY <1>4 DEF Placed, Reported, Before, Phases, Stages
<1>9. Types'
  <2>1. starts' \in Nat /\ steps' \in Nat
    BY <1>2, <1>5
  <2>2. status' \in Statuses /\ streamed' \in BOOLEAN /\ stopped' \in BOOLEAN
    BY <1>5, Zenon DEF Statuses
  <2> QED
    BY <2>1, <2>2 DEF Types
<1>10. Placed(run)' /\ Reported(run)' /\ Behind(saved, run)'
  BY <1>7, <1>8 DEF Placed, Reported, Behind
<1>11. RunInv'
  BY <1>2, <1>3, <1>4, <1>5, <1>10 DEF RunInv
<1>12. ReportIsOwn'
  BY <1>5 DEF ReportIsOwn
<1>13. Data(saved)' /\ Data(run)'
  BY <1>6 DEF Data, Refs, Judgements, Founds
<1>14. KeepsExperiments /\ saved'.iter <= saved'.max
  BY <1>3, <1>4, <1>5, UnchangedExperiments DEF IInv
<1> QED
  BY <1>9, <1>11, <1>12, <1>13, <1>14 DEF IInv

LEMMA StopKeeps ==
  ASSUME IInv, Stop
  PROVE  IInv' /\ KeepsExperiments
<1>1. /\ saved' = [saved EXCEPT !.phase = "conclude"]
      /\ stopped' \in BOOLEAN /\ UNCHANGED <<run, status, starts, steps, streamed>>
  BY DEF Stop
<1>2. saved \in State /\ Refs(saved) /\ Judgements(saved)
  BY DEF IInv, Data
<1>3. /\ saved' \in State /\ saved'.hyps = saved.hyps /\ saved'.exps = saved.exps
      /\ saved'.iter = saved.iter /\ saved'.max = saved.max
      /\ saved'.report = saved.report /\ saved'.undecided = saved.undecided
  BY <1>1, <1>2 DEF State, Phases
<1>4. Data(saved') /\ Data(run')
  BY <1>1, <1>2, <1>3 DEF IInv, Data, Refs, Judgements, Founds
<1>5. RunInv'
  BY <1>1, <1>3 DEF IInv, RunInv, Behind, Placed, Reported
<1>6. Types' /\ ReportIsOwn'
  BY <1>1, <1>3 DEF IInv, Types, ReportIsOwn
<1> QED
  BY <1>1, <1>3, <1>4, <1>5, <1>6, UnchangedExperiments DEF IInv

LEMMA StutterKeeps ==
  ASSUME IInv, UNCHANGED vars
  PROVE  IInv' /\ KeepsExperiments
<1>1. IInv'
  BY DEF vars, IInv, Types, Data, Refs, Judgements, Founds, RunInv, Behind, Placed,
         Reported, ReportIsOwn
<1> QED
  BY <1>1, UnchangedExperiments DEF vars, IInv

LEMMA NextKeeps ==
  ASSUME IInv, [Next]_vars
  PROVE  IInv' /\ KeepsExperiments
<1>1. CASE Start BY <1>1, StartKeeps
<1>2. CASE Stop BY <1>2, StopKeeps
<1>3. CASE Crash \/ CutOff BY <1>3, LossKeeps
<1>4. CASE Superstep
  <2>1. CASE Gateway BY <2>1, GatewayKeeps
  <2>2. CASE StreamFails BY <2>2, LossKeeps
  <2>3. CASE Scout \/ Survey BY <2>3, ScoutKeeps
  <2>4. CASE Synthesize BY <2>4, SynthesizeKeeps
  <2>5. CASE Design BY <2>5, DesignKeeps
  <2>6. CASE RunExperiment BY <2>6, RunExperimentKeeps
  <2>7. CASE Analyze BY <2>7, AnalyzeKeeps
  <2>8. CASE SynthesizeSkipped \/ DesignSkipped \/ ExperimentSkipped \/ AnalyzeSkipped
    BY <2>8, SkippedStageKeeps
  <2>9. CASE DecideForced \/ DecideConclude \/ DecideContinue \/ DecideFails
    BY <2>9, DecideKeeps
  <2>10. CASE PhaseTransition BY <2>10, PhaseTransitionKeeps
  <2>11. CASE PostDecide BY <2>11, PostDecideKeeps
  <2>12. CASE Conclude BY <2>12, ConcludeKeeps
  <2> QED
    BY <1>4, <2>1, <2>2, <2>3, <2>4, <2>5, <2>6, <2>7, <2>8, <2>9, <2>10, <2>11,
       <2>12 DEF Superstep
<1>5. CASE AllServed \/ UNCHANGED vars
  BY <1>5, StutterKeeps DEF AllServed
<1> QED
  BY <1>1, <1>2, <1>3, <1>4, <1>5 DEF Next

-----------------------------------------------------------------------------
(* Theorems *)

\* The inductive invariant holds of every session.
THEOREM Invariance == Spec => []IInv
<1>1. Init => IInv
  <2> SUFFICES ASSUME Init PROVE IInv
    OBVIOUS
  <2>1. Data(saved) /\ Data(run)
    BY NewSessionIsSound DEF Init
  <2>2. Types /\ RunInv /\ ReportIsOwn /\ starts = 0
    BY DEF Init, Types, Statuses, RunInv, ReportIsOwn
  <2> QED
    BY <2>1, <2>2 DEF IInv
<1>2. IInv /\ [Next]_vars => IInv'
  BY NextKeeps
<1> QED
  BY <1>1, <1>2, PTL DEF Spec

\* Every reachable session has its types, and no experiment ever refers to a
\* hypothesis that its state does not list.
THEOREM TypeCorrect == Spec => []TypeOK
<1>1. IInv => TypeOK
  BY DEF IInv, Types, Data, Refs, TypeOK
<1> QED
  BY <1>1, Invariance, PTL

\* max_iterations is never exceeded, whatever the planner decides and
\* however often it fails to.
THEOREM IterationsAreBounded == Spec => []IterationsWithinMax
<1>1. IInv => IterationsWithinMax
  BY DEF IInv, RunInv, IterationsWithinMax
<1> QED
  BY <1>1, Invariance, PTL

\* Every decision follows a full iteration and every conclusion a decision.
THEOREM IterationsAreFull == Spec => []FullIteration
<1>1. IInv => FullIteration
  BY DEF IInv, RunInv, Placed, Before, FullIteration, Phases, Stages
<1> QED
  BY <1>1, Invariance, PTL

\* Every verdict has its own experiment, in memory and in the checkpoint.
THEOREM VerdictsAreFounded == Spec => []JudgedByOwnExperiment
<1>1. IInv => JudgedByOwnExperiment
  BY DEF IInv, Data, Judgements, Founds, JudgedByOwnExperiment
<1> QED
  BY <1>1, Invariance, PTL

\* A decided, answered start delivers its own report.
THEOREM ReportsAreOwn == Spec => []ReportIsOwn
<1>1. IInv => ReportIsOwn
  BY DEF IInv
<1> QED
  BY <1>1, Invariance, PTL

\* No step of any run loses an experiment of a checkpoint, takes it back or
\* changes its outcome.
THEOREM ExperimentsAdvance == Spec => ExperimentsOnlyAdvance
<1>1. IInv /\ [Next]_vars =>
        [\A e \in DOMAIN saved.exps :
           /\ e \in DOMAIN saved'.exps
           /\ saved'.exps[e].hyp = saved.exps[e].hyp
           /\ saved'.exps[e].status \in Onwards(saved.exps[e].status)]_vars
  BY NextKeeps DEF KeepsExperiments
<1> QED
  BY <1>1, Invariance, PTL DEF Spec, ExperimentsOnlyAdvance

-----------------------------------------------------------------------------
(* Research implements ResearchCycle: a superstep is a step of the diagram *)
(* or, if it only moves on to the next node, none.                         *)

StageOf(s) == IF s.pc = "post_decide" THEN "decided" ELSE s.phase

LEMMA InitMaps == Init => C!Init
BY DEF Init, C!Init, Stage, Ended, Live

\* What the diagram sees of a superstep from run to t.
LEMMA MoveMaps ==
  ASSUME status = "running", NEW t, NEW returned, Move(t, returned)
  PROVE  /\ Live /\ Live' /\ run' = t
         /\ Stage = StageOf(run) /\ Stage' = StageOf(t)
BY DEF Move, Live, Stage, StageOf

\* A superstep that the diagram does not show.
LEMMA SameStageMaps ==
  ASSUME status = "running", NEW t, NEW returned, Move(t, returned),
         StageOf(t) = StageOf(run),
         t.iter = run.iter, t.max = run.max, t.last = run.last
  PROVE  UNCHANGED C!vars
BY MoveMaps DEF C!vars

\* A stage is done, whatever it has changed of the data.
LEMMA DoneMaps ==
  ASSUME IInv, status = "running", NEW stage \in Stages \ {"decide"},
         run.pc = stage, NEW t, NEW returned, Move(t, returned),
         t.pc = "phase_transition", t.phase = run.phase,
         t.iter = run.iter, t.max = run.max, t.last = run.last
  PROVE  UNCHANGED C!vars
BY SameStageMaps DEF StageOf, Stages

LEMMA StageMaps ==
  ASSUME IInv, \/ Scout \/ Survey \/ Synthesize \/ SynthesizeSkipped \/ Design
               \/ DesignSkipped
               \/ RunExperiment \/ ExperimentSkipped \/ Analyze \/ AnalyzeSkipped
  PROVE  UNCHANGED C!vars
<1> DEFINE Over(stage) == Done(run, stage, "phase_transition")
           Maps(t) == /\ t.pc = "phase_transition" /\ t.phase = run.phase
                      /\ t.iter = run.iter /\ t.max = run.max /\ t.last = run.last
<1>1. status = "running" /\ run \in State
  BY Running DEF Scout, Survey, ScoutOrSurvey, Synthesize, SynthesizeSkipped, Design, DesignSkipped,
     RunExperiment, ExperimentSkipped, Analyze, AnalyzeSkipped, At
<1>2. CASE \/ Scout \/ Survey \/ SynthesizeSkipped \/ DesignSkipped
           \/ ExperimentSkipped \/ AnalyzeSkipped
  <2>1. PICK stage \in Stages \ {"decide"} : run.pc = stage /\ Move(Over(stage), {})
    BY <1>2 DEF Scout, Survey, ScoutOrSurvey, SynthesizeSkipped, DesignSkipped, ExperimentSkipped,
                AnalyzeSkipped, At, Stages
  <2>2. Maps(Over(stage))
    BY <1>1 DEF Done, State
  <2> HIDE DEF Over
  <2> QED
    BY <1>1, <2>1, <2>2, DoneMaps
<1>3. CASE Synthesize
  <2>1. PICK k \in 0..Batch :
          Move([Over("synthesize") EXCEPT !.hyps = @ \o [i \in 1..k |-> "proposed"]],
               {"hyps"})
    BY <1>3 DEF Synthesize
  <2> DEFINE t == [Over("synthesize") EXCEPT !.hyps = @ \o [i \in 1..k |-> "proposed"]]
  <2>2. Maps(t)
    BY <1>1 DEF Done, State
  <2>3. run.pc = "synthesize" /\ Move(t, {"hyps"})
    BY <1>3, <2>1 DEF Synthesize, At
  <2> HIDE DEF t
  <2> QED
    BY <1>1, <2>2, <2>3, DoneMaps DEF Stages
<1>4. CASE Design
  <2>1. PICK n \in First(Testable(run)) :
          Move([Over("design") EXCEPT !.hyps[n] = "testing",
                  !.exps = Append(@, [hyp |-> n, status |-> "designed"])],
               {"hyps", "exps"})
    BY <1>4 DEF Design
  <2> DEFINE t == [Over("design") EXCEPT !.hyps[n] = "testing",
                     !.exps = Append(@, [hyp |-> n, status |-> "designed"])]
  <2>2. Maps(t)
    BY <1>1 DEF Done, State
  <2>3. run.pc = "design" /\ Move(t, {"hyps", "exps"})
    BY <1>4, <2>1 DEF Design, At
  <2> HIDE DEF t
  <2> QED
    BY <1>1, <2>2, <2>3, DoneMaps DEF Stages
<1>5. CASE RunExperiment
  <2>1. PICK e \in Runnable(run), outcome \in Settled \cup {"running"} :
          Move([Over("experiment") EXCEPT !.exps[e].status = outcome],
               IF outcome = "running" THEN {} ELSE {"exps"})
    BY <1>5 DEF RunExperiment
  <2> DEFINE t == [Over("experiment") EXCEPT !.exps[e].status = outcome]
             returned == IF outcome = "running" THEN {} ELSE {"exps"}
  <2>2. Maps(t)
    BY <1>1 DEF Done, State
  <2>3. run.pc = "experiment" /\ Move(t, returned)
    BY <1>5, <2>1 DEF RunExperiment, At
  <2> HIDE DEF t, returned
  <2> QED
    BY <1>1, <2>2, <2>3, DoneMaps DEF Stages
<1>6. CASE Analyze
  <2>1. PICK e \in Latest(With(run, Settled)), verdict \in Verdicts,
             returned \in {{"hyps"}, {}} :
          Move([Over("analyze") EXCEPT !.hyps[Judged(run, e)] = verdict], returned)
    BY <1>6 DEF Analyze
  <2> DEFINE t == [Over("analyze") EXCEPT !.hyps[Judged(run, e)] = verdict]
  <2>2. Maps(t)
    BY <1>1 DEF Done, State
  <2>3. run.pc = "analyze" /\ Move(t, returned)
    BY <1>6, <2>1 DEF Analyze, At
  <2> HIDE DEF t
  <2> QED
    BY <1>1, <2>2, <2>3, DoneMaps DEF Stages
<1> QED
  BY <1>2, <1>3, <1>4, <1>5, <1>6

\* The gateway never finds the iterations exceeded: it dispatches.
LEMMA GatewayMaps ==
  ASSUME IInv, Gateway
  PROVE  UNCHANGED C!vars
<1> DEFINE t == [run EXCEPT !.pc = run.phase]
<1>1. status = "running" /\ run.pc = "gateway" /\ run \in State
  BY Running DEF Gateway, At
<1>2. Move(t, {})
  BY <1>1, Running DEF Gateway
<1>3. /\ StageOf(t) = run.phase /\ StageOf(run) = run.phase
      /\ t.iter = run.iter /\ t.max = run.max /\ t.last = run.last
  BY <1>1 DEF StageOf, State, Phases, Stages
<1> HIDE DEF t
<1> QED
  BY <1>1, <1>2, <1>3, SameStageMaps

LEMMA TransitionMaps ==
  ASSUME IInv, PhaseTransition
  PROVE  C!Advance
<1> DEFINE t == [run EXCEPT !.pc = "gateway", !.phase = PhaseSequence(run.phase)]
<1>1. status = "running" /\ run.pc = "phase_transition" /\ run \in State
  BY Running DEF PhaseTransition, At
<1>2. Move(t, {})
  BY DEF PhaseTransition
<1>3. run.phase \in Stages \ {"decide"}
  BY <1>1, Running DEF Placed
<1>4. /\ StageOf(run) = run.phase /\ StageOf(t) = PhaseSequence(run.phase)
      /\ t.iter = run.iter /\ t.max = run.max /\ t.last = run.last
  BY <1>1 DEF StageOf, State
<1>5. run.phase \in DOMAIN C!Follows /\ PhaseSequence(run.phase) = C!Follows[run.phase]
  BY <1>3 DEF C!Follows, PhaseSequence, Stages
<1> HIDE DEF t
<1> QED
  BY <1>1, <1>2, <1>4, <1>5, MoveMaps DEF C!Advance

\* A decision, whatever it is, is one the diagram allows.
LEMMA DecisionMaps ==
  ASSUME IInv, At("decide"), NEW t, Move(t, {}),
         t.pc = "post_decide", t.max = run.max,
         \/ t.last = "conclude" /\ t.iter = run.iter
         \/ run.iter < run.max /\ t.last \in {"iterate", "pivot"} /\ t.iter = run.iter + 1
         \/ run.iter < run.max /\ t.last = run.last /\ t.iter = run.iter
  PROVE  C!Decide
<1>1. status = "running" /\ run.pc = "decide"
  BY DEF At
<1>2. StageOf(run) = "decide" /\ StageOf(t) = "decided"
  BY <1>1, Running DEF StageOf, Placed, Phases, Stages
<1> QED
  BY <1>1, <1>2, MoveMaps DEF C!Decide

LEMMA DecideMaps ==
  ASSUME IInv, DecideForced \/ DecideConclude \/ DecideContinue \/ DecideFails
  PROVE  C!Decide
<1>1. /\ At("decide") /\ status = "running" /\ run \in State
      /\ run.iter \in Nat /\ run.max \in Nat
  BY Running DEF DecideForced, DecideConclude, DecideContinue, DecideFails, At
<1>2. CASE DecideForced \/ DecideConclude
  <2>1. PICK report : Move([Deciding EXCEPT !.last = "conclude", !.report = report], {})
    BY <1>2 DEF DecideForced, DecideConclude
  <2> DEFINE t == [Deciding EXCEPT !.last = "conclude", !.report = report]
  <2>2. /\ t.pc = "post_decide" /\ t.max = run.max
        /\ t.last = "conclude" /\ t.iter = run.iter
    BY <1>1 DEF Deciding, Done, State
  <2>3. Move(t, {})
    BY <2>1
  <2> HIDE DEF t
  <2> QED
    BY <1>1, <2>2, <2>3, DecisionMaps
<1>3. CASE DecideContinue
  <2>1. PICK decision \in {"iterate", "pivot"} :
          Move([Deciding EXCEPT !.last = decision, !.iter = @ + 1], {})
    BY <1>3 DEF DecideContinue
  <2> DEFINE t == [Deciding EXCEPT !.last = decision, !.iter = @ + 1]
  <2>2. /\ t.pc = "post_decide" /\ t.max = run.max
        /\ t.last \in {"iterate", "pivot"} /\ t.iter = run.iter + 1
    BY <1>1 DEF Deciding, Done, State
  <2>3. Move(t, {})
    BY <2>1
  <2>4. run.iter < run.max
    BY <1>1, <1>3 DEF DecideContinue, MustConclude
  <2> HIDE DEF t
  <2> QED
    BY <1>1, <2>2, <2>3, <2>4, DecisionMaps
<1>4. CASE DecideFails
  <2> DEFINE t == [Deciding EXCEPT !.undecided = TRUE]
  <2>1. Move(t, {}) /\ run.iter < run.max
    BY <1>1, <1>4 DEF DecideFails, MustConclude
  <2>2. /\ t.pc = "post_decide" /\ t.max = run.max
        /\ t.last = run.last /\ t.iter = run.iter
    BY <1>1 DEF Deciding, Done, State
  <2> HIDE DEF t
  <2> QED
    BY <1>1, <2>1, <2>2, DecisionMaps
<1> QED
  BY <1>2, <1>3, <1>4

LEMMA PostDecideMaps ==
  ASSUME IInv, PostDecide
  PROVE  C!Act
<1> DEFINE next == AfterDecision(run.last)
           t == [run EXCEPT !.pc = "gateway", !.phase = next,
                            !.ran = IF next = "conclude" THEN run.ran ELSE {}]
<1>1. status = "running" /\ run.pc = "post_decide" /\ run \in State
  BY Running DEF PostDecide, At
<1>2. Move(t, {})
  BY DEF PostDecide
<1>3. C!LeadsTo[run.last] = next
  BY <1>1 DEF State, Decisions, AfterDecision, C!LeadsTo
<1> HIDE DEF next
<1>4. /\ StageOf(run) = "decided" /\ StageOf(t) = next
      /\ t.iter = run.iter /\ t.max = run.max /\ t.last = run.last
  BY <1>1 DEF StageOf, State
<1> HIDE DEF t
<1> QED
  BY <1>1, <1>2, <1>3, <1>4, MoveMaps DEF C!Act

\* A run that is over has ended as its status says.
LEMMA EndMaps ==
  ASSUME IInv, Conclude \/ StreamFails \/ Crash \/ CutOff
  PROVE  C!Finish \/ C!Break
<1>1. status = "running" /\ run \in State /\ Placed(run)
  BY Running DEF Conclude, StreamFails, Crash, CutOff, At
<1>2. Stage \in C!Stages
  BY <1>1 DEF Stage, Live, State, Phases, Stages, C!Stages, C!Follows
<1>3. status' \in {"answered", "failed", "crashed", "cutoff"}
  BY DEF Conclude, StreamFails, Crash, CutOff
<1>4. status' = "answered" => Stage = "conclude"
  BY <1>1 DEF Conclude, StreamFails, Crash, CutOff, At, Stage, Live, Placed, Phases
<1>5. /\ ~ Live'
      /\ Stage' = IF status' = "answered" THEN "answered" ELSE "broken"
  BY <1>3 DEF Live, Stage, Ended
<1> QED
  BY <1>2, <1>4, <1>5 DEF C!Finish, C!Break, C!Rest

LEMMA StartMaps ==
  ASSUME IInv, Start
  PROVE  C!Start
<1>1. PICK m \in MaxIterations :
        run' = [saved EXCEPT !.pc = "gateway", !.phase = "scout", !.iter = 1,
                             !.max = m, !.ran = {}, !.undecided = FALSE,
                             !.report = IF saved.report = "none" THEN "none" ELSE "old"]
  BY DEF Start
<1>2. saved \in State /\ status \in Statuses
  BY DEF IInv, Data, Types
<1>3. /\ run'.iter = 1 /\ run'.max = m /\ run'.pc = "gateway" /\ run'.phase = "scout"
      /\ run'.last \in Decisions \cup {"none"}
  BY <1>1, <1>2 DEF State
<1>4. Live' /\ Stage' = "scout"
  BY <1>3 DEF Start, Live, Stage
<1>5. Stage \in C!Resting
  BY <1>2 DEF Start, Statuses, Live, Stage, Ended, C!Resting
<1>6. run'.last \in DOMAIN C!LeadsTo
  BY <1>3 DEF Decisions, C!LeadsTo
<1> QED
  BY <1>3, <1>4, <1>5, <1>6 DEF C!Start

LEMMA NextMaps == IInv /\ [Next]_vars => [C!Next]_(C!vars)
<1> SUFFICES ASSUME IInv, [Next]_vars PROVE [C!Next]_(C!vars)
  OBVIOUS
<1>1. CASE Start
  BY <1>1, StartMaps DEF C!Next
<1>2. CASE Conclude \/ StreamFails \/ Crash \/ CutOff
  BY <1>2, EndMaps DEF C!Next
<1>3. CASE DecideForced \/ DecideConclude \/ DecideContinue \/ DecideFails
  BY <1>3, DecideMaps DEF C!Next
<1>4. CASE PhaseTransition
  BY <1>4, TransitionMaps DEF C!Next
<1>5. CASE PostDecide
  BY <1>5, PostDecideMaps DEF C!Next
<1>6. CASE Gateway
  BY <1>6, GatewayMaps
<1>7. CASE \/ Scout \/ Survey \/ Synthesize \/ SynthesizeSkipped \/ Design
           \/ DesignSkipped
           \/ RunExperiment \/ ExperimentSkipped \/ Analyze \/ AnalyzeSkipped
  BY <1>7, StageMaps
<1>8. CASE Stop \/ AllServed \/ UNCHANGED vars
  <2>1. run' = run /\ status' = status
    BY <1>8 DEF Stop, AllServed, vars
  <2> QED
    BY <2>1 DEF C!vars, Stage, Ended, Live
<1> QED
  BY <1>1, <1>2, <1>3, <1>4, <1>5, <1>6, <1>7, <1>8 DEF Next, Superstep

\* Every run goes through the stages of the documented diagram in its order,
\* takes no decision but those it shows, and counts no more iterations than
\* its start allows.
THEOREM ImplementsCycle == Spec => FollowsCycle
BY InitMaps, NextMaps, Invariance, PTL DEF Spec, FollowsCycle, C!Spec

=============================================================================
