---------------------------- MODULE SharedDriver ----------------------------
(***************************************************************************)
(* The Neo4j client as its users share it.  Its docstrings have a driver   *)
(* initialised (connect), closed and reset safely (_reset_driver) and      *)
(* closed (close); what that comes to when calls overlap is read off the   *)
(* guards and the order of the code: there is one driver or none, a new    *)
(* one is made only when there is none and no cooldown lasts, and one that *)
(* is retired is out of everybody's hands until it has been closed, which  *)
(* happens to it once.  A cooldown starts only together with, or after,    *)
(* the retirement of the driver there was.                                 *)
(***************************************************************************)
CONSTANTS
  Drivers,  \* the drivers that can be made
  None      \* no driver

VARIABLES
  current,  \* the driver that calls are given
  closing,  \* the drivers that are retired and not closed yet
  cooling   \* whether a cooldown lasts

vars == <<current, closing, cooling>>

Init == /\ current = None
        /\ closing = {}
        /\ cooling = FALSE

Connect(d) ==
  /\ current = None
  /\ ~ cooling
  /\ d \notin closing
  /\ current' = d
  /\ UNCHANGED <<closing, cooling>>

\* An error, or the shutdown, takes the driver away; a failed connect starts
\* the cooldown in the same step.
Retire ==
  /\ current # None
  /\ current' = None
  /\ closing' = closing \cup {current}
  /\ cooling' \in {cooling, TRUE}

\* A connect has failed whose driver somebody else has retired.
CoolDown ==
  /\ current = None
  /\ cooling' = TRUE
  /\ UNCHANGED <<current, closing>>

\* The cooldown has run out, or a connect that began before it has succeeded.
Recover ==
  /\ cooling' = FALSE
  /\ UNCHANGED <<current, closing>>

Close(d) ==
  /\ d \in closing
  /\ closing' = closing \ {d}
  /\ UNCHANGED <<current, cooling>>

Next == \/ \E d \in Drivers : Connect(d) \/ Close(d)
        \/ Retire
        \/ CoolDown
        \/ Recover

Spec == Init /\ [][Next]_vars
=============================================================================
