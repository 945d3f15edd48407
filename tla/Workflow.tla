------------------------------ MODULE Workflow ------------------------------
(***************************************************************************)
(* What the orchestration promises of one run, as the state diagram in     *)
(* gateway.py draws it: the phases follow each other in the order of the   *)
(* diagram, a failed validation may lead back to exploring at most         *)
(* MaxRollbacks times, and from every phase the run may give up and        *)
(* deliver what it has.  A run that resumes a checkpoint starts in the     *)
(* phase, and with the rollbacks, that the checkpoint holds.               *)
(***************************************************************************)
EXTENDS Naturals

CONSTANTS Requests, MaxRollbacks

VARIABLES
  stage,    \* stage[r]: the phase request r's run is in
  retries   \* retries[r]: the rollbacks its session has made

vars == <<stage, retries>>

Follows == [explore      |-> {"freeze"},
            freeze       |-> {"plan"},
            plan         |-> {"execute"},
            execute      |-> {"validate"},
            validate     |-> {"done", "human_review", "rollback"},
            rollback     |-> {},
            human_review |-> {"done"},
            done         |-> {}]

Stages == DOMAIN Follows \cup {"idle", "over"}

Init == /\ stage = [r \in Requests |-> "idle"]
        /\ retries = [r \in Requests |-> 0]

\* A run starts; a request served from the checkpoint is over at once.
Start(r) ==
  /\ stage[r] = "idle"
  /\ \E s \in Stages \ {"idle"} : stage' = [stage EXCEPT ![r] = s]
  /\ \E n \in 0..MaxRollbacks : retries' = [retries EXCEPT ![r] = n]

\* The next phase of the diagram.
Advance(r) ==
  /\ stage[r] \in DOMAIN Follows
  /\ \E s \in Follows[stage[r]] : stage' = [stage EXCEPT ![r] = s]
  /\ UNCHANGED retries

\* Rollback --> Explore.
Retry(r) ==
  /\ stage[r] = "rollback"
  /\ retries[r] < MaxRollbacks
  /\ stage' = [stage EXCEPT ![r] = "explore"]
  /\ retries' = [retries EXCEPT ![r] = @ + 1]

\* The iteration or rollback budget is used up: best-effort output.
GiveUp(r) ==
  /\ stage[r] \in DOMAIN Follows
  /\ stage' = [stage EXCEPT ![r] = "done"]
  /\ UNCHANGED retries

\* The run has delivered its output, or has failed.
End(r) ==
  /\ stage[r] \in DOMAIN Follows
  /\ stage' = [stage EXCEPT ![r] = "over"]
  /\ retries' = [retries EXCEPT ![r] = 0]

Next == \E r \in Requests :
          Start(r) \/ Advance(r) \/ Retry(r) \/ GiveUp(r) \/ End(r)

Spec == Init /\ [][Next]_vars
=============================================================================
