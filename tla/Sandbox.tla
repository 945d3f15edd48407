------------------------------ MODULE Sandbox ------------------------------
(***************************************************************************)
(* One experiment of a research session: ExperimentRunner.run and the      *)
(* sandbox engine, as one coroutine among the processes it starts.  A run  *)
(* asks whether docker answers; then it runs the program in a container,   *)
(* or installs the dependencies and runs it as a process of the host.      *)
(*                                                                         *)
(* Processes run, end and fail on their own.  The coroutine waits for each *)
(* with a limit; when the limit passes, or its task is cancelled, it does  *)
(* not kill what it waited for, except the program's own process at the    *)
(* limit of the run: in a container that is only the docker client, and    *)
(* the container goes on.  What was left behind by one run is still there  *)
(* when the experiment is run again.                                       *)
(*                                                                         *)
(* Between two awaits a step of the coroutine is atomic.  Of what processes *)
(* print nothing is modelled; exit codes are 0, 124 and the others.        *)
(***************************************************************************)
EXTENDS Naturals

CONSTANT MaxRuns  \* bound: how often the experiment is run

ASSUME MaxRunsAssumption == MaxRuns \in Nat \ {0}

Runs == 1..MaxRuns

\* The installer, the process that the coroutine runs the program with (itself,
\* or the docker client), and the two commands of the container.  Of the short
\* probes of docker and the installers only the answer is modelled.
Roles == {"installer", "main", "setup", "script"}

VARIABLES
  deps,     \* whether the experiment has dependencies
  status,   \* Experiment.status, as the next run reads it
  runs,     \* how often it has been run
  pc,       \* what the coroutine starts or waits for
  mode,     \* mode[r]: how run r runs the program
  proc,     \* proc[r][p]: the state of process p of run r
  tmp,      \* tmp[r]: whether the temporary directory of run r exists
  outcome   \* outcome[r]: how run r ended

vars == <<deps, status, runs, pc, mode, proc, tmp, outcome>>

Exited == {"ok", "limit", "bad", "killed"}   \* exit code 0, 124, any other
Running == {"live", "dying"}

State(p)  == proc[runs][p]
Fresh(p)  == State(p) = "none"
Becomes(r, p, s) == proc' = [proc EXCEPT ![r][p] = s]

-----------------------------------------------------------------------------
(* The coroutine. *)

\* As ExperimentDesigner builds it: there is always some code.
Init ==
  /\ deps \in BOOLEAN
  /\ status = "designed" /\ runs = 0 /\ pc = "idle"
  /\ mode = [r \in Runs |-> "none"]
  /\ proc = [r \in Runs |-> [p \in Roles |-> "none"]]
  /\ tmp = [r \in Runs |-> FALSE]
  /\ outcome = [r \in Runs |-> "none"]

\* A plausible bug: the status is only set when there is a result.
StartUnmarked ==
  /\ pc = "idle" /\ runs < MaxRuns
  /\ status \in {"designed", "running"}
  /\ runs' = runs + 1
  /\ pc' = "docker"
  /\ UNCHANGED <<deps, status, mode, proc, tmp, outcome>>

\* run_experiment takes an experiment that is designed or, as a run that
\* raised leaves it, running.
Start ==
  /\ pc = "idle" /\ runs < MaxRuns
  /\ status \in {"designed", "running"}
  /\ runs' = runs + 1
  /\ status' = "running"
  /\ pc' = "docker"
  /\ UNCHANGED <<deps, mode, proc, tmp, outcome>>

Removed == tmp' = [tmp EXCEPT ![runs] = FALSE]

Ends(how) == pc' = "idle" /\ outcome' = [outcome EXCEPT ![runs] = how]

\* The exception leaves the run, and the directory is removed.
Raise ==
  /\ Ends("raised") /\ Removed
  /\ UNCHANGED status

\* The directory cannot be removed (OSError): the container has written into it
\* as root, or what the program has started still does.
NotRemoved == ~ Fresh("main") /\ Ends("raised") /\ UNCHANGED <<status, tmp>>

\* The result decides the status.
Return(code) ==
  \/ /\ status' = CASE code = "ok"    -> "completed"
                    [] code = "limit" -> "timeout"
                    [] OTHER          -> "failed"
     /\ Ends("returned") /\ Removed
  \/ NotRemoved

\* create_subprocess_exec starts a process.
Launch(p) ==
  /\ pc = p /\ Fresh(p)
  /\ Becomes(runs, p, "live")
  /\ UNCHANGED <<deps, status, runs, pc, mode, tmp, outcome>>

\* Or it finds no such command (FileNotFoundError).
NotFound(p) ==
  /\ pc = p /\ Fresh(p)
  /\ IF p = "main" THEN Return("bad")
     ELSE pc' = "main" /\ UNCHANGED <<status, tmp, outcome>>
  /\ UNCHANGED <<deps, runs, mode, proc>>

\* Or the system refuses (another OSError), which only _check_docker and
\* _run_process expect.
Refused(p) ==
  /\ pc = p /\ Fresh(p)
  /\ IF p = "main" THEN Return("bad") ELSE Raise
  /\ UNCHANGED <<deps, runs, mode, proc>>

\* _check_docker has an answer: yes if docker info exits with 0, no if it
\* exits with another code, cannot be started or takes too long.
DockerChecked ==
  /\ pc = "docker"
  /\ \E m \in {"container", "process"} : mode' = [mode EXCEPT ![runs] = m]
  /\ pc' = "enter"
  /\ UNCHANGED <<deps, status, runs, proc, tmp, outcome>>

\* The directory and the files in it, if they can be written.
Enter ==
  /\ pc = "enter"
  /\ \/ /\ tmp' = [tmp EXCEPT ![runs] = TRUE]
        /\ pc' = IF mode[runs] = "process" /\ deps THEN "uv" ELSE "main"
        /\ UNCHANGED <<status, outcome>>
     \/ Raise
  /\ UNCHANGED <<deps, runs, mode, proc>>

\* The installer that answers is used; the next one is tried if it is not there,
\* fails or takes too long.  One that the system refuses to start ends the run.
Probed ==
  /\ pc \in {"uv", "pip"}
  /\ \/ /\ pc' \in {"installer", IF pc = "uv" THEN "pip" ELSE "main"}
        /\ UNCHANGED <<status, tmp, outcome>>
     \/ Raise
  /\ UNCHANGED <<deps, runs, mode, proc>>

\* Installed, not installed or still at it when the limit passes: the program
\* is run.
Installed ==
  /\ pc = "installer" /\ ~ Fresh("installer")
  /\ pc' = "main"
  /\ UNCHANGED <<deps, status, runs, mode, proc, tmp, outcome>>

\* communicate returns.
Finish ==
  /\ pc = "main" /\ State("main") \in Exited
  /\ Return(State("main"))
  /\ UNCHANGED <<deps, runs, mode, proc>>

\* A plausible bug: the wait for the program has no limit of its own.
TimeOutNever ==
  /\ pc = "main" /\ State("main") \in Exited
  /\ pc' = "reap"
  /\ UNCHANGED <<deps, status, runs, mode, proc, tmp, outcome>>

\* A plausible bug: at the limit the process is left running.
TimeOutWithoutKill ==
  /\ pc = "main" /\ ~ Fresh("main")
  /\ Return("limit")
  /\ UNCHANGED <<deps, runs, mode, proc>>

\* The limit passes, maybe after the process has ended; then there is nothing
\* to kill, and the result is a timeout all the same.
TimeOut ==
  /\ pc = "main" /\ ~ Fresh("main")
  /\ pc' = "reap"
  /\ IF State("main") = "live" THEN Becomes(runs, "main", "dying") ELSE UNCHANGED proc
  /\ UNCHANGED <<deps, status, runs, mode, tmp, outcome>>

Reap ==
  /\ pc = "reap" /\ State("main") \in Exited
  /\ Return("limit")
  /\ UNCHANGED <<deps, runs, mode, proc>>

\* The task of the request is cancelled at an await.  The next request reads
\* the experiment from the checkpoint, where it is still designed.  If the
\* directory cannot be removed, the OSError takes the place of the
\* cancellation, and run_experiment goes on as after any error.
Cancel ==
  /\ pc \notin {"idle", "enter"}
  /\ \/ Ends("cancelled") /\ status' = "designed" /\ Removed
     \/ NotRemoved
  /\ UNCHANGED <<deps, runs, mode, proc>>

Step ==
  \/ DockerChecked \/ Enter \/ Probed
  \/ \E p \in {"installer", "main"} : Launch(p) \/ NotFound(p) \/ Refused(p)
  \/ Installed \/ Finish \/ TimeOut \/ Reap

-----------------------------------------------------------------------------
(* The processes. *)

\* The installer, or a program of the host, ends.
EndInstaller(r) ==
  /\ proc[r]["installer"] = "live"
  /\ \E s \in {"ok", "bad"} : Becomes(r, "installer", s)
  /\ UNCHANGED <<deps, status, runs, pc, mode, tmp, outcome>>

EndProgram(r) ==
  /\ mode[r] = "process" /\ proc[r]["main"] = "live"
  /\ \E s \in {"ok", "limit", "bad"} : Becomes(r, "main", s)
  /\ UNCHANGED <<deps, status, runs, pc, mode, tmp, outcome>>

\* The docker client has the daemon start a container, where setup.sh runs.
StartContainer(r) ==
  /\ mode[r] = "container" /\ proc[r]["main"] = "live" /\ proc[r]["setup"] = "none"
  /\ Becomes(r, "setup", "live")
  /\ UNCHANGED <<deps, status, runs, pc, mode, tmp, outcome>>

\* A plausible bug: "setup.sh ; experiment.py".
EndSetupAnyway(r) ==
  /\ proc[r]["setup"] = "live"
  /\ \E s \in {"ok", "bad"} :
       proc' = [proc EXCEPT ![r]["setup"] = s, ![r]["script"] = "live"]
  /\ UNCHANGED <<deps, status, runs, pc, mode, tmp, outcome>>

\* setup.sh && experiment.py.  Without a network pip can install nothing that
\* is not in the image; without dependencies nothing can go wrong.
EndSetup(r) ==
  /\ proc[r]["setup"] = "live"
  /\ \/ proc' = [proc EXCEPT ![r]["setup"] = "ok", ![r]["script"] = "live"]
     \/ deps /\ Becomes(r, "setup", "bad")
  /\ UNCHANGED <<deps, status, runs, pc, mode, tmp, outcome>>

EndScript(r) ==
  /\ proc[r]["script"] = "live"
  /\ \E s \in {"ok", "limit", "bad"} : Becomes(r, "script", s)
  /\ UNCHANGED <<deps, status, runs, pc, mode, tmp, outcome>>

\* The client ends with the exit code of the container's command, or fails.
EndClient(r) ==
  /\ mode[r] = "container" /\ proc[r]["main"] = "live"
  /\ \/ proc[r]["setup"] = "bad" /\ Becomes(r, "main", "bad")
     \/ proc[r]["script"] \in Exited /\ Becomes(r, "main", proc[r]["script"])
     \/ Becomes(r, "main", "bad")
  /\ UNCHANGED <<deps, status, runs, pc, mode, tmp, outcome>>

\* The system carries out the kill.
Die(r) ==
  /\ proc[r]["main"] = "dying"
  /\ Becomes(r, "main", "killed")
  /\ UNCHANGED <<deps, status, runs, pc, mode, tmp, outcome>>

Environment ==
  \E r \in Runs :
    \/ EndInstaller(r) \/ EndProgram(r)
    \/ StartContainer(r) \/ EndSetup(r) \/ EndScript(r) \/ EndClient(r) \/ Die(r)

Next == Start \/ Step \/ Cancel \/ Environment

\* The event loop runs what is ready and its timers go off; the system carries
\* out a kill.  No process has to end on its own.
Spec == Init /\ [][Next]_vars /\ WF_vars(Step) /\ \A r \in Runs : WF_vars(Die(r))
=============================================================================
