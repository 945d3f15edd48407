--------------------------- MODULE TreeExploration ---------------------------
(***************************************************************************)
(* What the tree explorer promises of the steps of a plan (the docstrings  *)
(* of tree_explorer.py): they are explored wave by wave, those of a wave   *)
(* at the same time, each of them once; a step tries the primary strategy, *)
(* and goes back at most once, to the fallback; and what comes out are the *)
(* results of the steps that have returned.                                *)
(*                                                                         *)
(* Which steps make a wave, which retrievers they ask and how their        *)
(* results are rated is left open here.                                    *)
(***************************************************************************)
EXTENDS Naturals

CONSTANT Lengths  \* the numbers of steps a plan may have

VARIABLES
  phase,   \* planning, exploring, explored or failed
  life,    \* life[p]: how far step p of the plan is
  wave,    \* the steps that are explored now
  results  \* the steps whose results have been taken over

vars == <<phase, life, wave, results>>

Steps   == DOMAIN life
Waiting == {p \in Steps : life[p] = "waiting"}
Trying  == {"primary", "fallback"}
Over    == {"returned", "raised"}

Init ==
  /\ phase = "planning"
  /\ life = [p \in {} |-> "waiting"]
  /\ wave = {}
  /\ results = {}

Plan ==
  /\ phase = "planning"
  /\ phase' = "exploring"
  /\ \E n \in Lengths : life' = [p \in 1..n |-> "waiting"]
  /\ UNCHANGED <<wave, results>>

Launch ==
  /\ phase = "exploring"
  /\ wave = {}
  /\ wave' \in (SUBSET Waiting) \ {{}}
  /\ life' = [p \in Steps |-> IF p \in wave' THEN "primary" ELSE life[p]]
  /\ UNCHANGED <<phase, results>>

Retry(p) ==
  /\ phase = "exploring"
  /\ life[p] = "primary"
  /\ life' = [life EXCEPT ![p] = "fallback"]
  /\ UNCHANGED <<phase, wave, results>>

Return(p) ==
  /\ phase = "exploring"
  /\ life[p] \in Trying
  /\ life' = [life EXCEPT ![p] = "returned"]
  /\ UNCHANGED <<phase, wave, results>>

\* The failure of a step that is explored alone is that of the exploration.
Raise(p) ==
  /\ phase = "exploring"
  /\ life[p] \in Trying
  /\ life' = [life EXCEPT ![p] = "raised"]
  /\ phase' = IF wave = {p} THEN "failed" ELSE phase
  /\ UNCHANGED <<wave, results>>

\* All the steps of the wave have come to an end.
Collect ==
  /\ phase = "exploring"
  /\ wave # {}
  /\ \A p \in wave : life[p] \in Over
  /\ results' = results \cup {p \in wave : life[p] = "returned"}
  /\ wave' = {}
  /\ UNCHANGED <<phase, life>>

Finish ==
  /\ phase = "exploring"
  /\ wave = {} /\ Waiting = {}
  /\ phase' = "explored"
  /\ UNCHANGED <<life, wave, results>>

\* What comes before or after the exploration fails.
Fail ==
  /\ phase \in {"planning", "explored"}
  /\ phase' = "failed"
  /\ UNCHANGED <<life, wave, results>>

Next ==
  \/ Plan \/ Launch \/ Collect \/ Finish \/ Fail
  \/ \E p \in wave : Retry(p) \/ Return(p) \/ Raise(p)

Spec == Init /\ [][Next]_vars
=============================================================================
