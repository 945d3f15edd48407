--------------------------- MODULE SandboxProofs ---------------------------
(***************************************************************************)
(* Proofs about Sandbox, for any number of runs.  The invariant says of    *)
(* each run how its container and its client hang together, and of the     *)
(* current run what the coroutine has started by the point it is at.       *)
(***************************************************************************)
EXTENDS SandboxProperties, TLAPS

Finished == {"completed", "failed", "timeout"}

\* The processes of a run: a container needs a client, its program needs the
\* setup to succeed, and a client that ends with 0 or 124 has this from it.
ContainerInv(r) ==
  /\ mode[r] # "container" => proc[r]["setup"] = "none" /\ proc[r]["script"] = "none"
  /\ proc[r]["setup"] # "none" => proc[r]["main"] # "none"
  /\ proc[r]["script"] # "none" => proc[r]["setup"] = "ok"
  /\ mode[r] = "container" /\ proc[r]["main"] \in {"ok", "limit"} =>
       proc[r]["script"] = proc[r]["main"]

\* A run that has not begun; and one with a result, which is the last.
LifeInv(r) ==
  /\ r > runs => proc[r]["main"] = "none" /\ outcome[r] = "none"
  /\ outcome[r] = "returned" => r = runs /\ pc = "idle" /\ status \in Finished

\* The current run.
CurrentInv ==
  /\ pc # "idle" => outcome[runs] = "none"
  /\ pc \in {"docker", "enter", "uv", "pip", "installer"} => proc[runs]["main"] = "none"
  /\ pc \in {"uv", "pip", "installer", "main", "reap"} => tmp[runs]
  /\ status = "completed" => runs \in Runs

IInv == /\ TypeOK
        /\ \A r \in Runs : ContainerInv(r)
        /\ \A r \in Runs : LifeInv(r)
        /\ CurrentInv
        /\ CompletedRanItsProgram
        /\ RunEndsItsProcess

-----------------------------------------------------------------------------
(* The end of a run *)

\* A run that is over is a run, and has not ended before.
LEMMA Underway ==
  ASSUME IInv, pc # "idle"
  PROVE  /\ runs \in Runs /\ status = "running" /\ outcome[runs] = "none"
         /\ \A r \in Runs : outcome[r] # "returned"
BY MaxRunsAssumption DEF IInv, TypeOK, Runs, CurrentInv, LifeInv, Finished

\* A run that raises.
LEMMA RaiseKeepsInv ==
  ASSUME IInv, pc # "idle", proc[runs]["main"] = "none", Raise,
         UNCHANGED <<deps, runs, mode, proc>>
  PROVE  IInv'
<1>1. /\ runs \in Runs /\ status' = "running" /\ pc' = "idle"
      /\ \A r \in Runs : outcome[r] # "returned"
      /\ \A r \in Runs : outcome'[r] = IF r = runs THEN "raised" ELSE outcome[r]
      /\ \A r \in Runs : tmp'[r] = IF r = runs THEN FALSE ELSE tmp[r]
  BY Underway DEF Raise, Ends, Removed, IInv, TypeOK
<1>2. TypeOK'
  BY Underway DEF Raise, Ends, Removed, IInv, TypeOK
<1>3. \A r \in Runs : ContainerInv(r)'
  BY DEF IInv, ContainerInv
<1>4. \A r \in Runs : LifeInv(r)'
  BY <1>1 DEF IInv, LifeInv, TypeOK, Runs
<1>5. CurrentInv' /\ CompletedRanItsProgram'
  BY <1>1 DEF CurrentInv, CompletedRanItsProgram
<1>6. RunEndsItsProcess'
  BY <1>1 DEF IInv, RunEndsItsProcess, Running
<1> QED
  BY <1>2, <1>3, <1>4, <1>5, <1>6 DEF IInv

\* One whose directory cannot be removed: it is still there.
LEMMA NotRemovedKeepsInv ==
  ASSUME IInv, pc # "idle", NotRemoved, UNCHANGED <<deps, runs, mode, proc>>
  PROVE  IInv'
<1>1. /\ runs \in Runs /\ status' = "running" /\ pc' = "idle" /\ tmp' = tmp
      /\ \A r \in Runs : outcome[r] # "returned"
      /\ \A r \in Runs : outcome'[r] = IF r = runs THEN "raised" ELSE outcome[r]
  BY Underway DEF NotRemoved, Ends, IInv, TypeOK
<1>2. TypeOK'
  BY Underway DEF NotRemoved, Ends, IInv, TypeOK
<1>3. tmp[runs]
  BY DEF NotRemoved, Fresh, State, IInv, TypeOK, CurrentInv
<1>4. \A r \in Runs : ContainerInv(r)'
  BY DEF IInv, ContainerInv
<1>5. \A r \in Runs : LifeInv(r)'
  BY <1>1 DEF IInv, LifeInv, TypeOK, Runs
<1>6. CurrentInv' /\ CompletedRanItsProgram'
  BY <1>1 DEF CurrentInv, CompletedRanItsProgram
<1>7. RunEndsItsProcess'
  BY <1>1, <1>3 DEF IInv, RunEndsItsProcess
<1> QED
  BY <1>2, <1>4, <1>5, <1>6, <1>7 DEF IInv

\* One with a result: its process is not running, and has ended as the result
\* says.
LEMMA ReturnKeepsInv ==
  ASSUME IInv, pc # "idle", UNCHANGED <<deps, runs, mode, proc>>,
         NEW code \in {"ok", "limit", "bad", "killed"}, Return(code),
         proc[runs]["main"] \notin Running,
         code = "ok" => proc[runs]["main"] = "ok"
  PROVE  IInv'
<1>1. CASE NotRemoved
  BY <1>1, NotRemovedKeepsInv
<1>2. CASE ~ NotRemoved
  <2>1. /\ runs \in Runs /\ pc' = "idle"
        /\ status' = CASE code = "ok" -> "completed" [] code = "limit" -> "timeout"
                       [] OTHER -> "failed"
        /\ \A r \in Runs : outcome[r] # "returned"
        /\ \A r \in Runs : outcome'[r] = IF r = runs THEN "returned" ELSE outcome[r]
        /\ \A r \in Runs : tmp'[r] = IF r = runs THEN FALSE ELSE tmp[r]
    BY <1>2, Underway DEF Return, Ends, Removed, IInv, TypeOK
  <2>2. /\ status' \in Finished
        /\ status' = "completed" <=> code = "ok"
    BY <2>1 DEF Finished
  <2>3. TypeOK'
    <3>1. outcome' \in [Runs -> {"none", "returned", "raised", "cancelled"}]
      BY <1>2, Underway DEF Return, Ends, IInv, TypeOK
    <3>2. tmp' \in [Runs -> BOOLEAN]
      BY <1>2, Underway DEF Return, Removed, IInv, TypeOK
    <3> QED
      BY <2>1, <2>2, <3>1, <3>2 DEF IInv, TypeOK, Finished
  <2>4. \A r \in Runs : ContainerInv(r)'
    BY DEF IInv, ContainerInv
  <2>5. \A r \in Runs : LifeInv(r)'
    BY <2>1, <2>2 DEF IInv, LifeInv, TypeOK, Runs
  <2>6. CurrentInv'
    BY <2>1 DEF CurrentInv
  <2>7. ContainerInv(runs) /\ mode[runs] \in {"none", "container", "process"}
    BY <2>1 DEF IInv, TypeOK
  <2>8. CompletedRanItsProgram'
    BY <2>1, <2>2, <2>7 DEF CompletedRanItsProgram, ContainerInv
  <2>9. RunEndsItsProcess'
    BY <2>1 DEF IInv, RunEndsItsProcess
  <2> QED
    BY <2>3, <2>4, <2>5, <2>6, <2>8, <2>9 DEF IInv
<1> QED
  BY <1>1, <1>2
-----------------------------------------------------------------------------
(* The steps of the coroutine *)

\* Nothing has run.
LEMMA InitInv == Init => IInv
<1> SUFFICES ASSUME Init PROVE IInv
  OBVIOUS
<1>1. TypeOK
  BY MaxRunsAssumption DEF Init, TypeOK
<1>2. /\ runs = 0 /\ pc = "idle" /\ status = "designed"
      /\ \A r \in Runs : /\ mode[r] = "none" /\ outcome[r] = "none"
                         /\ \A p \in Roles : proc[r][p] = "none"
  BY DEF Init
<1>3. \A r \in Runs : ContainerInv(r) /\ LifeInv(r)
  BY <1>2 DEF ContainerInv, LifeInv, Roles
<1>4. CurrentInv /\ CompletedRanItsProgram
  BY <1>2 DEF CurrentInv, CompletedRanItsProgram
<1>5. RunEndsItsProcess
  BY <1>2 DEF RunEndsItsProcess, Running, Roles
<1> QED
  BY <1>1, <1>3, <1>4, <1>5 DEF IInv

\* The next run has not begun, and no earlier one has a result.
LEMMA StartKeepsInv == ASSUME IInv, Start PROVE IInv'
<1>1. /\ pc = "idle" /\ runs' = runs + 1 /\ runs' \in Runs /\ pc' = "docker"
      /\ status' = "running" /\ runs \in Nat
      /\ mode' = mode /\ proc' = proc /\ tmp' = tmp /\ outcome' = outcome
  BY MaxRunsAssumption DEF Start, IInv, TypeOK, Runs
<1>2. TypeOK'
  BY <1>1, MaxRunsAssumption DEF Start, IInv, TypeOK, Runs
<1>3. /\ proc[runs']["main"] = "none" /\ outcome[runs'] = "none"
      /\ \A r \in Runs : outcome[r] # "returned"
  BY <1>1 DEF Start, IInv, LifeInv, Runs, Finished
<1>4. \A r \in Runs : ContainerInv(r)'
  BY <1>1 DEF IInv, ContainerInv
<1>5. \A r \in Runs : LifeInv(r)'
  BY <1>1, <1>3 DEF IInv, LifeInv, Runs
<1>6. CurrentInv' /\ CompletedRanItsProgram'
  BY <1>1, <1>3 DEF CurrentInv, CompletedRanItsProgram
<1>7. RunEndsItsProcess'
  BY <1>1, <1>3 DEF IInv, RunEndsItsProcess
<1> QED
  BY <1>2, <1>4, <1>5, <1>6, <1>7 DEF IInv

\* The coroutine goes on to its next point: nothing of the earlier runs changes.
LEMMA AdvanceKeepsInv ==
  ASSUME IInv, pc \notin {"idle", "reap"},
         pc' \in {"enter", "uv", "pip", "installer", "main"},
         UNCHANGED <<deps, status, runs, proc, outcome>>,
         proc[runs]["main"] = "none",
         \A r \in Runs : r # runs => mode'[r] = mode[r] /\ tmp'[r] = tmp[r],
         mode' \in [Runs -> {"none", "container", "process"}],
         tmp' \in [Runs -> BOOLEAN],
         pc' # "enter" => tmp'[runs]
  PROVE  IInv'
<1>1. /\ runs \in Runs /\ status = "running" /\ outcome[runs] = "none"
      /\ \A r \in Runs : outcome[r] # "returned"
  BY Underway
<1>2. TypeOK'
  BY <1>1 DEF IInv, TypeOK
<1>3. \A r \in Runs : ContainerInv(r)'
  BY <1>1 DEF IInv, ContainerInv
<1>4. \A r \in Runs : LifeInv(r)'
  BY <1>1 DEF IInv, LifeInv
<1>5. CurrentInv' /\ CompletedRanItsProgram'
  BY <1>1 DEF CurrentInv, CompletedRanItsProgram
<1>6. RunEndsItsProcess'
  BY <1>1 DEF IInv, RunEndsItsProcess, Running
<1> QED
  BY <1>2, <1>3, <1>4, <1>5, <1>6 DEF IInv

\* Docker has answered, the directory is there, an installer is chosen or done.
LEMMA PrepareKeepsInv ==
  ASSUME IInv, DockerChecked \/ Enter \/ Probed \/ Installed
  PROVE  IInv'
<1>1. CASE DockerChecked
  <2>1. /\ pc = "docker" /\ pc' = "enter" /\ proc[runs]["main"] = "none"
        /\ tmp' = tmp
        /\ \A r \in Runs : r # runs => mode'[r] = mode[r]
        /\ mode' \in [Runs -> {"none", "container", "process"}]
    BY <1>1, Underway DEF DockerChecked, IInv, CurrentInv, TypeOK
  <2>2. tmp' \in [Runs -> BOOLEAN]
    BY <2>1 DEF IInv, TypeOK
  <2> QED
    BY <1>1, <2>1, <2>2, AdvanceKeepsInv DEF DockerChecked
<1>2. CASE Enter
  <2>1. pc = "enter" /\ proc[runs]["main"] = "none"
    BY <1>2 DEF Enter, IInv, CurrentInv
  <2>2. CASE Raise
    BY <1>2, <2>1, <2>2, RaiseKeepsInv DEF Enter
  <2>3. CASE ~ Raise
    <3>1. /\ pc' \in {"uv", "main"} /\ mode' = mode
          /\ UNCHANGED <<deps, status, runs, proc, outcome>>
          /\ tmp' = [tmp EXCEPT ![runs] = TRUE]
      BY <1>2, <2>3 DEF Enter
    <3>2. /\ tmp'[runs] /\ tmp' \in [Runs -> BOOLEAN]
          /\ \A r \in Runs : r # runs => tmp'[r] = tmp[r]
      BY <3>1, <2>1, Underway DEF IInv, TypeOK
    <3>3. mode' \in [Runs -> {"none", "container", "process"}]
      BY <3>1 DEF IInv, TypeOK
    <3> QED
      BY <2>1, <3>1, <3>2, <3>3, AdvanceKeepsInv
  <2> QED
    BY <2>2, <2>3
<1>3. CASE Probed \/ Installed
  <2>1. /\ pc \in {"uv", "pip", "installer"} /\ proc[runs]["main"] = "none"
        /\ tmp[runs] /\ mode' = mode /\ UNCHANGED <<deps, runs, proc>>
    BY <1>3 DEF Probed, Installed, IInv, CurrentInv
  <2>2. CASE Raise
    BY <2>1, <2>2, RaiseKeepsInv
  <2>3. CASE ~ Raise
    <3>1. /\ pc' \in {"installer", "pip", "main"}
          /\ UNCHANGED <<status, tmp, outcome>>
      BY <1>3, <2>3 DEF Probed, Installed
    <3>2. /\ tmp' \in [Runs -> BOOLEAN]
          /\ mode' \in [Runs -> {"none", "container", "process"}]
      BY <2>1, <3>1 DEF IInv, TypeOK
    <3> QED
      BY <2>1, <3>1, <3>2, AdvanceKeepsInv
  <2> QED
    BY <2>2, <2>3
<1> QED
  BY <1>1, <1>2, <1>3
\* What was to be started is not there, or the system refuses.
LEMMA NotLaunchedKeepsInv ==
  ASSUME IInv, NEW p \in {"installer", "main"}, NotFound(p) \/ Refused(p)
  PROVE  IInv'
<1>1. pc = p /\ State(p) = "none" /\ UNCHANGED <<deps, runs, mode, proc>>
  BY DEF NotFound, Refused, Fresh
<1>2. CASE p = "main"
  <2>1. Return("bad") /\ proc[runs]["main"] = "none"
    BY <1>1, <1>2 DEF NotFound, Refused, State
  <2> QED
    BY <1>1, <1>2, <2>1, ReturnKeepsInv DEF Running
<1>3. CASE p = "installer"
  <2>1. proc[runs]["main"] = "none" /\ tmp[runs]
    BY <1>1, <1>3 DEF IInv, CurrentInv
  <2>2. CASE Raise
    BY <1>1, <1>3, <2>1, <2>2, RaiseKeepsInv
  <2>3. CASE ~ Raise
    <3>1. pc' = "main" /\ UNCHANGED <<status, tmp, outcome>>
      BY <1>3, <2>3 DEF NotFound, Refused
    <3>2. /\ tmp' \in [Runs -> BOOLEAN]
          /\ mode' \in [Runs -> {"none", "container", "process"}]
      BY <1>1, <3>1 DEF IInv, TypeOK
    <3> QED
      BY <1>1, <1>3, <2>1, <3>1, <3>2, AdvanceKeepsInv
  <2> QED
    BY <2>2, <2>3
<1> QED
  BY <1>2, <1>3

\* A process starts, ends or is killed.
LEMMA BecomesAt ==
  ASSUME IInv, NEW r \in Runs, NEW p \in Roles, NEW s, Becomes(r, p, s)
  PROVE  /\ \A q \in Runs, x \in Roles :
              proc'[q][x] = IF q = r /\ x = p THEN s ELSE proc[q][x]
         /\ s \in {"none"} \cup Running \cup Exited =>
              proc' \in [Runs -> [Roles -> {"none"} \cup Running \cup Exited]]
BY DEF Becomes, IInv, TypeOK

\* The coroutine starts the installer or the program.
LEMMA LaunchKeepsInv ==
  ASSUME IInv, NEW p \in {"installer", "main"}, Launch(p)
  PROVE  IInv'
<1>1. /\ pc = p /\ State(p) = "none" /\ Becomes(runs, p, "live") /\ p \in Roles
      /\ UNCHANGED <<deps, status, runs, pc, mode, tmp, outcome>>
  BY DEF Launch, Fresh, Roles
<1>2. /\ runs \in Runs /\ status = "running" /\ outcome[runs] = "none"
      /\ \A r \in Runs : outcome[r] # "returned"
  BY <1>1, Underway
<1>3. /\ \A q \in Runs, x \in Roles :
           proc'[q][x] = IF q = runs /\ x = p THEN "live" ELSE proc[q][x]
      /\ proc' \in [Runs -> [Roles -> {"none"} \cup Running \cup Exited]]
  BY <1>1, <1>2, BecomesAt DEF Running
<1>4. TypeOK'
  BY <1>1, <1>3 DEF IInv, TypeOK
<1>5. ASSUME NEW r \in Runs PROVE ContainerInv(r)' /\ LifeInv(r)'
  <2>1. /\ ContainerInv(r) /\ LifeInv(r) /\ runs \in Nat /\ r \in Nat
        /\ {"main", "setup", "script"} \subseteq Roles
    BY DEF IInv, TypeOK, Runs, Roles
  <2> QED
    BY <1>1, <1>2, <1>3, <2>1 DEF ContainerInv, LifeInv, State
<1>6. CurrentInv'
  BY <1>1, <1>2, <1>3 DEF IInv, CurrentInv, Roles
<1>7. CompletedRanItsProgram'
  BY <1>1, <1>2 DEF CompletedRanItsProgram
<1>8. RunEndsItsProcess'
  BY <1>1, <1>2, <1>3 DEF IInv, RunEndsItsProcess, Roles, Running
<1> QED
  BY <1>4, <1>5, <1>6, <1>7, <1>8 DEF IInv

\* The coroutine has waited for the program.
LEMMA WaitKeepsInv ==
  ASSUME IInv, Finish \/ TimeOut \/ Reap
  PROVE  IInv'
<1>1. CASE Finish
  <2>1. /\ pc = "main" /\ proc[runs]["main"] \in Exited /\ Return(proc[runs]["main"])
        /\ UNCHANGED <<deps, runs, mode, proc>>
    BY <1>1 DEF Finish, State
  <2> QED
    BY <2>1, ReturnKeepsInv DEF Exited, Running
<1>2. CASE Reap
  <2>1. /\ pc = "reap" /\ proc[runs]["main"] \in Exited /\ Return("limit")
        /\ UNCHANGED <<deps, runs, mode, proc>>
    BY <1>2 DEF Reap, State
  <2> QED
    BY <2>1, ReturnKeepsInv DEF Exited, Running
<1>3. CASE TimeOut
  <2>1. /\ pc = "main" /\ proc[runs]["main"] # "none" /\ pc' = "reap"
        /\ UNCHANGED <<deps, status, runs, mode, tmp, outcome>>
    BY <1>3 DEF TimeOut, Fresh, State
  <2>2. /\ runs \in Runs /\ status = "running" /\ outcome[runs] = "none"
        /\ \A r \in Runs : outcome[r] # "returned"
    BY <2>1, Underway
  <2>3. /\ proc' \in [Runs -> [Roles -> {"none"} \cup Running \cup Exited]]
        /\ \A q \in Runs, x \in Roles : 
             \/ proc'[q][x] = proc[q][x]
             \/ /\ q = runs /\ x = "main"
                /\ proc[q][x] = "live" /\ proc'[q][x] = "dying"
    <3>1. CASE proc[runs]["main"] = "live"
      <4>1. Becomes(runs, "main", "dying")
        BY <1>3, <3>1 DEF TimeOut, State
      <4> QED
        BY <2>2, <3>1, <4>1, BecomesAt DEF Running, Roles
    <3>2. CASE proc[runs]["main"] # "live"
      <4>1. proc' = proc
        BY <1>3, <3>2 DEF TimeOut, State
      <4> QED
        BY <4>1 DEF IInv, TypeOK
    <3> QED
      BY <3>1, <3>2
  <2>4. TypeOK'
    BY <2>1, <2>2, <2>3 DEF IInv, TypeOK
  <2>5. ASSUME NEW r \in Runs PROVE ContainerInv(r)' /\ LifeInv(r)'
    <3>1. /\ ContainerInv(r) /\ LifeInv(r) /\ runs \in Nat /\ r \in Nat
          /\ {"main", "setup", "script"} \subseteq Roles
      BY DEF IInv, TypeOK, Runs, Roles
    <3> QED
      BY <2>1, <2>2, <2>3, <3>1 DEF ContainerInv, LifeInv
  <2>6. CurrentInv' /\ CompletedRanItsProgram'
    BY <2>1, <2>2 DEF IInv, CurrentInv, CompletedRanItsProgram
  <2>7. RunEndsItsProcess'
    BY <2>1, <2>2, <2>3 DEF IInv, RunEndsItsProcess, Running, Roles
  <2> QED
    BY <2>4, <2>5, <2>6, <2>7 DEF IInv
<1> QED
  BY <1>1, <1>2, <1>3

\* A cancelled run leaves its processes, but never a status that says more.
LEMMA CancelKeepsInv == ASSUME IInv, Cancel PROVE IInv'
<1>1. pc # "idle" /\ UNCHANGED <<deps, runs, mode, proc>>
  BY DEF Cancel
<1>2. CASE NotRemoved
  BY <1>1, <1>2, NotRemovedKeepsInv
<1>3. CASE ~ NotRemoved
  <2>1. /\ runs \in Runs /\ status' = "designed" /\ pc' = "idle"
        /\ \A r \in Runs : outcome[r] # "returned"
        /\ \A r \in Runs : outcome'[r] = IF r = runs THEN "cancelled" ELSE outcome[r]
        /\ \A r \in Runs : tmp'[r] = IF r = runs THEN FALSE ELSE tmp[r]
    BY <1>1, <1>3, Underway DEF Cancel, Ends, Removed, IInv, TypeOK
  <2>2. TypeOK'
    BY <1>1, <1>3, Underway DEF Cancel, Ends, Removed, IInv, TypeOK
  <2>3. \A r \in Runs : ContainerInv(r)'
    BY <1>1 DEF IInv, ContainerInv
  <2>4. \A r \in Runs : LifeInv(r)'
    BY <1>1, <2>1 DEF IInv, LifeInv, TypeOK, Runs
  <2>5. CurrentInv' /\ CompletedRanItsProgram'
    BY <2>1 DEF CurrentInv, CompletedRanItsProgram
  <2>6. RunEndsItsProcess'
    BY <1>1, <2>1 DEF IInv, RunEndsItsProcess
  <2> QED
    BY <2>2, <2>3, <2>4, <2>5, <2>6 DEF IInv
<1> QED
  BY <1>2, <1>3
-----------------------------------------------------------------------------
(* The steps of the processes *)

\* What a process does to a run: its client or its host process ends, or its
\* container begins or goes on.
LEMMA ProcessKeepsInv ==
  ASSUME IInv, NEW r \in Runs,
         UNCHANGED <<deps, status, runs, pc, mode, tmp, outcome>>,
         proc' \in [Runs -> [Roles -> {"none"} \cup Running \cup Exited]],
         \A q \in Runs, p \in Roles : q # r => proc'[q][p] = proc[q][p],
         ContainerInv(r)',
         \/ proc'[r]["main"] = proc[r]["main"]
         \/ proc[r]["main"] \in Running /\ proc'[r]["main"] \in Exited,
         proc[r]["setup"] = "ok" => proc'[r]["setup"] = "ok",
         proc[r]["script"] = "ok" => proc'[r]["script"] = "ok"
  PROVE  IInv'
<1>1. {"main", "setup", "script"} \subseteq Roles
  BY DEF Roles
<1>2. \A q \in Runs : q # r => ContainerInv(q)'
  BY <1>1 DEF IInv, ContainerInv
<1>3. \A q \in Runs : LifeInv(q)'
  BY <1>1 DEF IInv, LifeInv, Running
<1>4. pc # "idle" => runs \in Runs
  BY Underway
<1>5. CurrentInv'
  BY <1>1, <1>4 DEF IInv, CurrentInv, Running
<1>6. CompletedRanItsProgram'
  <2>1. status = "completed" => runs \in Runs
    BY DEF IInv, CurrentInv
  <2> QED
    BY <1>1, <2>1 DEF IInv, CompletedRanItsProgram, Running
<1>7. RunEndsItsProcess'
  <2>1. proc'[r]["main"] \in Running => proc[r]["main"] \in Running
    BY DEF Running, Exited
  <2> QED
    BY <1>1, <2>1 DEF IInv, RunEndsItsProcess
<1> QED
  BY <1>2, <1>3, <1>5, <1>6, <1>7 DEF IInv, TypeOK

\* The host's processes, and a client that is killed.
LEMMA HostKeepsInv ==
  ASSUME IInv, NEW r \in Runs, EndInstaller(r) \/ EndProgram(r) \/ Die(r)
  PROVE  IInv'
<1>1. PICK p \in {"installer", "main"}, s \in Exited :
        /\ Becomes(r, p, s) /\ proc[r][p] \in Running
        /\ mode[r] = "container" => p = "installer" \/ s = "killed"
  BY DEF EndInstaller, EndProgram, Die, Running, Exited
<1>2. UNCHANGED <<deps, status, runs, pc, mode, tmp, outcome>>
  BY DEF EndInstaller, EndProgram, Die
<1>3. {"installer", "main", "setup", "script"} = Roles
  BY DEF Roles
<1>4. /\ \A q \in Runs, x \in Roles :
           proc'[q][x] = IF q = r /\ x = p THEN s ELSE proc[q][x]
      /\ proc' \in [Runs -> [Roles -> {"none"} \cup Running \cup Exited]]
  BY <1>1, <1>3, BecomesAt
<1>5. ContainerInv(r)'
  BY <1>1, <1>2, <1>3, <1>4 DEF IInv, ContainerInv, Exited
<1> QED
  BY <1>1, <1>2, <1>3, <1>4, <1>5, ProcessKeepsInv

\* The container: its setup, its script and its client.
LEMMA ContainerKeepsInv ==
  ASSUME IInv, NEW r \in Runs,
         StartContainer(r) \/ EndSetup(r) \/ EndScript(r) \/ EndClient(r)
  PROVE  IInv'
<1>1. {"installer", "main", "setup", "script"} = Roles /\ ContainerInv(r)
  BY DEF Roles, IInv
<1>2. UNCHANGED <<deps, status, runs, pc, mode, tmp, outcome>>
  BY DEF StartContainer, EndSetup, EndScript, EndClient
<1>3. CASE StartContainer(r)
  <2>1. /\ \A q \in Runs, x \in Roles :
             proc'[q][x] = IF q = r /\ x = "setup" THEN "live" ELSE proc[q][x]
        /\ proc' \in [Runs -> [Roles -> {"none"} \cup Running \cup Exited]]
    BY <1>1, <1>3, BecomesAt DEF StartContainer, Running
  <2>2. ContainerInv(r)'
    BY <1>1, <1>2, <1>3, <2>1 DEF StartContainer, ContainerInv
  <2> QED
    BY <1>1, <1>2, <1>3, <2>1, <2>2, ProcessKeepsInv DEF StartContainer
<1>4. CASE EndSetup(r)
  <2>1. proc[r]["setup"] = "live"
    BY <1>4 DEF EndSetup
  <2>2. /\ \A q \in Runs, x \in Roles : q # r => proc'[q][x] = proc[q][x]
        /\ proc'[r]["main"] = proc[r]["main"]
        /\ \/ proc'[r]["setup"] = "ok" /\ proc'[r]["script"] = "live"
           \/ proc'[r]["setup"] = "bad" /\ proc'[r]["script"] = proc[r]["script"]
        /\ proc' \in [Runs -> [Roles -> {"none"} \cup Running \cup Exited]]
    <3>1. CASE proc' = [proc EXCEPT ![r]["setup"] = "ok", ![r]["script"] = "live"]
      BY <1>1, <3>1 DEF IInv, TypeOK, Running, Exited
    <3>2. CASE Becomes(r, "setup", "bad")
      BY <1>1, <3>2, BecomesAt DEF Exited
    <3> QED
      BY <1>4, <3>1, <3>2 DEF EndSetup
  <2>3. ContainerInv(r)'
    BY <1>1, <1>2, <2>1, <2>2 DEF ContainerInv
  <2> QED
    BY <1>1, <1>2, <2>1, <2>2, <2>3, ProcessKeepsInv DEF ContainerInv
<1>5. CASE EndScript(r)
  <2>1. PICK s \in {"ok", "limit", "bad"} : Becomes(r, "script", s)
    BY <1>5 DEF EndScript
  <2>2. /\ \A q \in Runs, x \in Roles :
             proc'[q][x] = IF q = r /\ x = "script" THEN s ELSE proc[q][x]
        /\ proc' \in [Runs -> [Roles -> {"none"} \cup Running \cup Exited]]
    BY <1>1, <2>1, BecomesAt DEF Exited
  <2>3. ContainerInv(r)'
    BY <1>1, <1>2, <1>5, <2>2 DEF EndScript, ContainerInv
  <2> QED
    BY <1>1, <1>2, <1>5, <2>2, <2>3, ProcessKeepsInv DEF EndScript
<1>6. CASE EndClient(r)
  <2>1. /\ mode[r] = "container" /\ proc[r]["main"] = "live"
        /\ \E s \in Exited : /\ Becomes(r, "main", s)
                             /\ s \in {"ok", "limit"} => s = proc[r]["script"]
    BY <1>6 DEF EndClient, Exited
  <2>2. PICK s \in Exited : /\ Becomes(r, "main", s)
                            /\ s \in {"ok", "limit"} => s = proc[r]["script"]
    BY <2>1
  <2>3. /\ \A q \in Runs, x \in Roles :
             proc'[q][x] = IF q = r /\ x = "main" THEN s ELSE proc[q][x]
        /\ proc' \in [Runs -> [Roles -> {"none"} \cup Running \cup Exited]]
    BY <1>1, <2>2, BecomesAt
  <2>4. ContainerInv(r)'
    BY <1>1, <1>2, <2>1, <2>2, <2>3 DEF ContainerInv, Exited
  <2> QED
    BY <1>1, <1>2, <2>1, <2>3, <2>4, ProcessKeepsInv DEF Running
<1> QED
  BY <1>3, <1>4, <1>5, <1>6

-----------------------------------------------------------------------------
(* The theorems *)

\* Every step keeps the invariant.
LEMMA NextKeepsInv == IInv /\ [Next]_vars => IInv'
<1> SUFFICES ASSUME IInv, [Next]_vars PROVE IInv'
  OBVIOUS
<1>1. CASE Start
  BY <1>1, StartKeepsInv
<1>2. CASE Step
  <2>1. CASE DockerChecked \/ Enter \/ Probed \/ Installed
    BY <2>1, PrepareKeepsInv
  <2>2. CASE Finish \/ TimeOut \/ Reap
    BY <2>2, WaitKeepsInv
  <2>3. CASE \E p \in {"installer", "main"} : Launch(p) \/ NotFound(p) \/ Refused(p)
    BY <2>3, LaunchKeepsInv, NotLaunchedKeepsInv
  <2> QED
    BY <1>2, <2>1, <2>2, <2>3 DEF Step
<1>3. CASE Cancel
  BY <1>3, CancelKeepsInv
<1>4. CASE Environment
  BY <1>4, HostKeepsInv, ContainerKeepsInv DEF Environment
<1>5. CASE UNCHANGED vars
  BY <1>5 DEF vars, IInv, TypeOK, ContainerInv, LifeInv, CurrentInv,
              CompletedRanItsProgram, RunEndsItsProcess
<1> QED
  BY <1>1, <1>2, <1>3, <1>4, <1>5 DEF Next

\* The invariant holds however often the experiment is run.
THEOREM Invariance == Spec => []IInv
BY InitInv, NextKeepsInv, PTL DEF Spec

\* An experiment that is being run is running (experiment_runner.py:42), and
\* every process is in one of its states.
THEOREM TypesHold == Spec => []TypeOK
BY Invariance, PTL DEF IInv

\* A completed experiment has run its program to the end without an error, in
\* its last run (experiment_runner.py:53).
THEOREM CompletionIsEarned == Spec => []CompletedRanItsProgram
BY Invariance, PTL DEF IInv

\* The process that a run waits for does not outlive it, unless the run is
\* cancelled: with a result it has ended and the directory is gone.  Installers
\* and containers may go on (sandbox.py:127, :206).
THEOREM RunsEndTheirProcess == Spec => []RunEndsItsProcess
BY Invariance, PTL DEF IInv

-----------------------------------------------------------------------------
(* Every step brings the end of the run nearer *)

Progress ==
  \/ runs' = runs + 1 /\ runs' <= MaxRuns /\ UNCHANGED proc
  \/ /\ runs' = runs
     /\ \A r \in Runs, p \in Roles : Age(r, p)' >= Age(r, p)
     /\ \/ Place[pc'] > Place[pc]
        \/ pc' = pc /\ \E r \in Runs, p \in Roles : Age(r, p)' > Age(r, p)

\* The coroutine goes on while the processes stay as they are.
LEMMA CoroutineProgress ==
  ASSUME runs' = runs, proc' = proc, Place[pc'] > Place[pc]
  PROVE  Progress
<1>1. \A r \in Runs, p \in Roles : Age(r, p)' = Age(r, p) /\ Age(r, p) \in 0..3
  BY DEF Age
<1> QED
  BY <1>1 DEF Progress

\* A process that enters a later state ages, and no other is touched.
LEMMA ProcessAges ==
  ASSUME TypeOK, NEW r \in Runs, NEW p \in Roles, NEW s,
         Becomes(r, p, s),
         \/ proc[r][p] = "none" /\ s = "live"
         \/ proc[r][p] = "live" /\ s \in Exited \cup {"dying"}
         \/ proc[r][p] = "dying" /\ s \in Exited
  PROVE  /\ Age(r, p)' > Age(r, p)
         /\ \A t \in Runs, q \in Roles : Age(t, q)' >= Age(t, q)
<1>1. /\ proc'[r][p] = s
      /\ \A t \in Runs, q \in Roles : t # r \/ q # p => proc'[t][q] = proc[t][q]
  BY DEF TypeOK, Becomes
<1>2. Age(r, p)' > Age(r, p)
  BY <1>1 DEF Age, Exited
<1>3. \A t \in Runs, q \in Roles : Age(t, q) \in 0..3 /\ Age(t, q)' \in 0..3
  BY DEF Age
<1>4. \A t \in Runs, q \in Roles : t # r \/ q # p => Age(t, q)' = Age(t, q)
  BY <1>1 DEF Age
<1> QED
  BY <1>2, <1>3, <1>4

\* The end of the setup is the beginning of the program.
LEMMA SetupAges ==
  ASSUME TypeOK, NEW r \in Runs, proc[r]["setup"] = "live", proc[r]["script"] = "none",
         proc' = [proc EXCEPT ![r]["setup"] = "ok", ![r]["script"] = "live"]
  PROVE  /\ Age(r, "setup")' > Age(r, "setup")
         /\ \A t \in Runs, q \in Roles : Age(t, q)' >= Age(t, q)
<1>1. /\ proc'[r]["setup"] = "ok" /\ proc'[r]["script"] = "live"
      /\ \A q \in Roles \ {"setup", "script"} : proc'[r][q] = proc[r][q]
      /\ \A t \in Runs \ {r} : proc'[t] = proc[t]
  BY DEF TypeOK, Roles
<1>2. Age(r, "setup")' > Age(r, "setup") /\ Age(r, "script")' >= Age(r, "script")
  BY <1>1 DEF Age
<1>3. \A t \in Runs, q \in Roles : Age(t, q) \in 0..3 /\ Age(t, q)' \in 0..3
  BY DEF Age
<1>4. \A t \in Runs, q \in Roles : t # r \/ q \notin {"setup", "script"} =>
        Age(t, q)' = Age(t, q)
  BY <1>1 DEF Age
<1> QED
  BY <1>2, <1>3, <1>4

LEMMA StepsProgress == IInv /\ [Next]_vars => [Progress]_vars
<1> SUFFICES ASSUME IInv, Next PROVE Progress
  OBVIOUS
<1>1. TypeOK /\ (pc # "idle" => runs \in Runs)
  BY Underway DEF IInv
<1>2. CASE Start
  BY <1>2, <1>1, MaxRunsAssumption DEF Start, Progress, TypeOK
<1>3. CASE DockerChecked \/ Enter \/ Probed \/ Installed
  BY <1>3, CoroutineProgress DEF DockerChecked, Enter, Probed, Installed, Raise, Ends,
     Place
<1>4. CASE Finish \/ Reap \/ Cancel
  <2>1. /\ pc \in DOMAIN Place \ {"idle"} /\ pc' = "idle" /\ UNCHANGED <<runs, proc>>
    BY <1>1, <1>4 DEF Finish, Reap, Cancel, Return, NotRemoved, Ends, TypeOK, Place
  <2> QED
    BY <2>1, CoroutineProgress DEF Place
<1>5. CASE TimeOut
  <2>1. runs \in Runs /\ runs' = runs /\ pc = "main" /\ pc' = "reap"
    BY <1>1, <1>5 DEF TimeOut
  <2>2. CASE State("main") = "live"
    <3>1. Becomes(runs, "main", "dying") /\ proc[runs]["main"] = "live"
      BY <1>5, <2>2 DEF TimeOut, State
    <3>2. \A t \in Runs, q \in Roles : Age(t, q)' >= Age(t, q)
      BY <1>1, <2>1, <3>1, ProcessAges DEF Roles
    <3> QED
      BY <2>1, <3>2 DEF Progress, Place
  <2>3. CASE State("main") # "live"
    BY <1>5, <2>1, <2>3, CoroutineProgress DEF TimeOut, Place
  <2> QED
    BY <2>2, <2>3
<1>6. ASSUME NEW p \in {"installer", "main"}, Launch(p)
      PROVE  Progress
  <2>1. /\ runs \in Runs /\ UNCHANGED <<runs, pc>> /\ p \in Roles
        /\ Becomes(runs, p, "live") /\ proc[runs][p] = "none"
    BY <1>1, <1>6 DEF Launch, Fresh, State, Roles
  <2> QED
    BY <1>1, <2>1, ProcessAges DEF Progress
<1>7. ASSUME NEW p \in {"installer", "main"}, NotFound(p) \/ Refused(p)
      PROVE  Progress
  <2>1. /\ pc = p /\ UNCHANGED <<runs, proc>>
        /\ pc' = "idle" \/ (pc = "installer" /\ pc' = "main")
    BY <1>7 DEF NotFound, Refused, Return, NotRemoved, Raise, Ends
  <2> QED
    BY <1>7, <2>1, CoroutineProgress DEF Place
<1>8. ASSUME NEW r \in Runs,
             \/ EndInstaller(r) \/ EndProgram(r) \/ StartContainer(r) \/ EndScript(r)
             \/ EndClient(r) \/ Die(r)
      PROVE  Progress
  <2>1. UNCHANGED <<runs, pc>>
    BY <1>8 DEF EndInstaller, EndProgram, StartContainer, EndScript, EndClient, Die
  <2>2. \E p \in Roles, s \in Exited \cup {"live"} :
          /\ Becomes(r, p, s)
          /\ \/ proc[r][p] = "none" /\ s = "live"
             \/ proc[r][p] \in {"live", "dying"} /\ s \in Exited
    BY <1>8 DEF EndInstaller, EndProgram, StartContainer, EndScript, EndClient, Die,
       Roles, Exited
  <2> QED
    BY <1>1, <2>1, <2>2, ProcessAges DEF Progress
<1>9. ASSUME NEW r \in Runs, EndSetup(r)
      PROVE  Progress
  <2>1. UNCHANGED <<runs, pc>> /\ proc[r]["setup"] = "live" /\ proc[r]["script"] = "none"
    BY <1>1, <1>9 DEF EndSetup, IInv, ContainerInv, TypeOK
  <2>2. CASE Becomes(r, "setup", "bad")
    BY <1>1, <2>1, <2>2, ProcessAges DEF Progress, Roles, Exited
  <2>3. CASE proc' = [proc EXCEPT ![r]["setup"] = "ok", ![r]["script"] = "live"]
    BY <1>1, <2>1, <2>3, SetupAges DEF Progress, Roles
  <2> QED
    BY <1>9, <2>2, <2>3 DEF EndSetup
<1> QED
  BY <1>2, <1>3, <1>4, <1>5, <1>6, <1>7, <1>8, <1>9 DEF Next, Step, Environment

\* No run goes on for ever, and no process comes back: each step is progress
\* towards the end of the run (sandbox.py:78, :141, :174, :253).
THEOREM RunsProgress == Spec => EveryStepIsProgress
BY Invariance, StepsProgress, PTL DEF Spec, EveryStepIsProgress, Progress
=============================================================================
