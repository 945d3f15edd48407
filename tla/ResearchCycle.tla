---------------------------- MODULE ResearchCycle ----------------------------
(***************************************************************************)
(* What the research graph promises of a session's runs, as the state      *)
(* diagram at the top of research_gateway.py draws it: the stages follow   *)
(* each other in the order of the diagram, a decision closes every         *)
(* iteration, and it leads back to the survey (iterate) or the scout       *)
(* (pivot), or to the conclusion.  At most bound iterations are counted.   *)
(*                                                                         *)
(* The diagram is silent about three things, which are as free here as    *)
(* the code leaves them: a run may break off anywhere; a decision may      *)
(* fail, and then the one on record is followed once more, without an      *)
(* iteration being counted; and a start finds on record what earlier runs  *)
(* have left.                                                              *)
(***************************************************************************)
EXTENDS Naturals

CONSTANT MaxIterations

VARIABLES
  stage,      \* the stage of the run, or how the latest one has ended
  iteration,  \* the iteration it counts, 0 between runs
  bound,      \* its max_iterations, 0 between runs
  verdict     \* the decision on record, "none" between runs

vars == <<stage, iteration, bound, verdict>>

Follows == [scout      |-> "survey",
            survey     |-> "synthesize",
            synthesize |-> "design",
            design     |-> "experiment",
            experiment |-> "analyze",
            analyze    |-> "decide"]

\* Where a decision leads; without one on record the run concludes.
LeadsTo == [iterate  |-> "survey",
            pivot    |-> "scout",
            conclude |-> "conclude",
            none     |-> "conclude"]

Resting == {"idle", "answered", "broken"}
Stages == DOMAIN Follows \cup {"decide", "decided", "conclude"}

Rest(how) ==
  /\ stage' = how
  /\ iteration' = 0
  /\ bound' = 0
  /\ verdict' = "none"

Init == /\ stage = "idle"
        /\ iteration = 0
        /\ bound = 0
        /\ verdict = "none"

\* [*] --> Scout
Start ==
  /\ stage \in Resting
  /\ stage' = "scout"
  /\ iteration' = 1
  /\ bound' \in MaxIterations
  /\ verdict' \in DOMAIN LeadsTo

\* Scout --> Survey --> ... --> Decide
Advance ==
  /\ stage \in DOMAIN Follows
  /\ stage' = Follows[stage]
  /\ UNCHANGED <<iteration, bound, verdict>>

Decide ==
  /\ stage = "decide"
  /\ stage' = "decided"
  /\ UNCHANGED bound
  /\ \/ /\ verdict' = "conclude"
        /\ UNCHANGED iteration
     \/ /\ iteration < bound
        /\ verdict' \in {"iterate", "pivot"}
        /\ iteration' = iteration + 1
     \/ /\ iteration < bound
        /\ UNCHANGED <<iteration, verdict>>

\* Decide --> Survey, Scout or Conclude
Act ==
  /\ stage = "decided"
  /\ stage' = LeadsTo[verdict]
  /\ UNCHANGED <<iteration, bound, verdict>>

\* Conclude --> END
Finish == stage = "conclude" /\ Rest("answered")

Break == stage \in Stages /\ Rest("broken")

Next == Start \/ Advance \/ Decide \/ Act \/ Finish \/ Break

Spec == Init /\ [][Next]_vars
=============================================================================
