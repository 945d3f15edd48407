------------------------- MODULE SandboxProperties -------------------------
(***************************************************************************)
(* What an experiment's status says of its program, which processes a run  *)
(* ends, and that it ends itself whatever the processes do.                *)
(***************************************************************************)
EXTENDS Sandbox

\* The variables have their types, and while a run is under way the experiment
\* is marked as running (experiment_runner.py:41).
TypeOK ==
  /\ deps \in BOOLEAN
  /\ status \in {"designed", "running", "completed", "failed", "timeout"}
  /\ runs \in 0..MaxRuns
  /\ pc \in {"idle", "docker", "enter", "uv", "pip", "installer", "main", "reap"}
  /\ mode \in [Runs -> {"none", "container", "process"}]
  /\ proc \in [Runs -> [Roles -> {"none"} \cup Running \cup Exited]]
  /\ tmp \in [Runs -> BOOLEAN]
  /\ outcome \in [Runs -> {"none", "returned", "raised", "cancelled"}]
  /\ pc # "idle" => runs > 0 /\ status = "running"

\* An experiment is completed only if its program has run to its end without
\* an error in the last run: not an earlier one that was given up, and in a
\* container only after its dependencies were there (experiment_runner.py:53).
CompletedRanItsProgram ==
  status = "completed" =>
    /\ outcome[runs] = "returned" /\ pc = "idle" /\ proc[runs]["main"] = "ok"
    /\ mode[runs] = "container" =>
         proc[runs]["setup"] = "ok" /\ proc[runs]["script"] = "ok"

\* The process that a run waits for, the program of the host or the docker
\* client, does not outlive the wait: when there is a result it has ended and
\* the directory is gone, also when the experiment is run again.  A run whose
\* task is cancelled leaves it running, and so does one whose cancellation is
\* replaced by the failure to remove the directory.  Nothing is said of the
\* installer, nor of what a client has started in a container (sandbox.py:206,
\* :127).
RunEndsItsProcess ==
  \A r \in Runs :
    /\ proc[r]["main"] \in Running =>
         \/ r = runs /\ pc \in {"main", "reap"}
         \/ outcome[r] = "cancelled"
         \/ outcome[r] = "raised" /\ tmp[r]
    /\ outcome[r] = "returned" => ~ tmp[r]

\* Requirement FR-005 of the research agent: "terminated automatically and
\* reported at the timeout".  When a timeout is reported nothing of the program
\* is running, neither its process nor its container (sandbox.py:207).
TimedOutIsTerminated ==
  status = "timeout" =>
    \A p \in {"main", "setup", "script"} : proc[runs][p] \notin Running

\* A run ends whatever hangs: docker, an installer, the program or a container
\* (the limits in sandbox.py:78, :141, :174 and :253).
EveryRunEnds == (pc # "idle") ~> (pc = "idle")

\* The place of each await within a run, and the age of a process.
Place == [docker |-> 0, enter |-> 1, uv |-> 2, pip |-> 3, installer |-> 4,
          main |-> 5, reap |-> 6, idle |-> 7]
Age(r, p) == CASE proc[r][p] = "none"   -> 0
               [] proc[r][p] = "live"   -> 1
               [] proc[r][p] = "dying"  -> 2
               [] OTHER                 -> 3

\* The safety half of it: every step brings the end of the run nearer.  The
\* coroutine goes on to a later await, or a process ages; none comes back to
\* life, neither in this run nor, left behind by an earlier one, in that.
EveryStepIsProgress ==
  [][\/ runs' = runs + 1 /\ runs' <= MaxRuns /\ UNCHANGED proc
     \/ /\ runs' = runs
        /\ \A r \in Runs, p \in Roles : Age(r, p)' >= Age(r, p)
        /\ \/ Place[pc'] > Place[pc]
           \/ pc' = pc /\ \E r \in Runs, p \in Roles : Age(r, p)' > Age(r, p)]_vars
=============================================================================
