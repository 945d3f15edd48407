------------------------ MODULE RetrievalProperties ------------------------
(***************************************************************************)
(* What a run of the retrieval agent has to keep true, whatever plan the   *)
(* language model proposes and however the answers of a wave interleave.   *)
(***************************************************************************)
EXTENDS Retrieval

\* The variables of the agent have their types; no more than MaxRounds
\* rounds of fusion are made (CascadeFuser.fuse).
TypeOK ==
  /\ stage \in {"classify", "decompose", "explore", "fuse", "over"}
  /\ types \in [Branches -> Strategies]
  /\ plan \in Seq(Step)
  /\ rest \subseteq Positions /\ wave \subseteq Positions
  /\ forced \subseteq Positions /\ collected \subseteq Positions
  /\ resolved \subseteq Nat
  /\ at \in [Positions -> {"waiting"} \cup Sources \cup Ended]
  /\ branch \in [Positions -> Branches]
  /\ found \in [Positions -> [Branches -> SUBSET (1..TopQuality)]]
  /\ rated \in [Positions -> [Branches -> 0..TopQuality]]
  /\ kept \in [Positions -> SUBSET Branches]
  /\ rounds \in 0..MaxRounds
  /\ confident \in BOOLEAN
  /\ status \in {"none", "success", "partial", "needs_more_info", "error"}

\* A step runs after the steps it depends on have ended: a wave holds only
\* steps whose dependencies are in earlier waves, and explore awaits a whole
\* wave before the next.  Only the steps of a plan that cannot be ordered are
\* excepted (_build_execution_waves).
DependenciesFirst ==
  \A p \in Positions :
    at[p] # "waiting" /\ p \notin forced =>
      \A d \in plan[p].deps :
        \E q \in Positions : plan[q].idx = d /\ at[q] \in Ended

\* Steps are run out of order only when they have to be: each of them waits
\* for a label that no step outside of the forced wave carries, because its
\* dependencies are circular or the plan has been cut.
ForcedOnlyIfStuck ==
  \A p \in forced :
    \E d \in plan[p].deps : \A q \in Positions \ forced : plan[q].idx # d

\* The agent answers with the results of all the steps that succeeded and of
\* no other: a failure in a parallel wave costs neither its siblings nor the
\* later waves (the loop over gather's results in explore).
EveryStepCounts ==
  stage = "fuse" \/ (stage = "over" /\ status # "error") =>
    /\ \A p \in Positions : at[p] \in Ended
    /\ collected = {p \in Positions : at[p] = "done"}

\* Results of the primary branch are given up only for better rated ones of
\* the fallback, and no step that was given evidence returns without any.
BacktrackingNeverWorsens ==
  \A p \in Positions :
    at[p] = "done" =>
      /\ "primary" \notin kept[p] =>
           "fallback" \in kept[p] /\ rated[p]["fallback"] > rated[p]["primary"]
      /\ Evidence(p) = {} => \A b \in Branches : found[p][b] = {}

\* A step is content with poor results only after it has tried the fallback
\* as well, unless both strategies are the same.
PoorResultsAreRetried ==
  \A p \in Positions :
    at[p] = "done" /\ rated[p]["primary"] < Threshold =>
      \/ branch[p] = "fallback"
      \/ Resolve(p, "primary") = Resolve(p, "fallback")

\* The verdict is founded on evidence: the pipeline is told to go on only if
\* a step has found something and to look for more only if no step that
\* succeeded has.
VerdictIsFounded ==
  stage = "over" =>
    /\ status \in {"success", "partial"} =>
         \E p \in Positions : at[p] = "done" /\ Evidence(p) # {}
    /\ status = "needs_more_info" =>
         \A p \in Positions : at[p] = "done" =>
           rounds = 0 /\ \A b \in Branches : found[p][b] = {}

----------------------------------------------------------------------------
(* Refinement: how far a step is, whichever retriever it waits for. *)

Phase ==
  CASE stage \in {"classify", "decompose"}    -> "planning"
    [] stage = "explore"                      -> "exploring"
    [] stage = "over" /\ status = "error"     -> "failed"
    [] OTHER                                  -> "explored"

Life(p) ==
  CASE at[p] = "waiting" -> "waiting"
    [] at[p] = "done"    -> "returned"
    [] at[p] = "failed"  -> "raised"
    [] OTHER             -> branch[p]

T == INSTANCE TreeExploration WITH
       Lengths <- {Len(steps) : steps \in Plans \cup {SingleStep}},
       phase   <- Phase,
       life    <- [p \in Positions |-> Life(p)],
       wave    <- wave,
       results <- collected

\* However the answers of a wave interleave and whichever of its steps fail,
\* every step is explored once and in one wave, goes back at most once, and
\* no wave begins before all steps of the last have ended and their results
\* have been taken over.
ExploresTheTree == T!Spec

----------------------------------------------------------------------------
(* Liveness *)

\* Whatever the plan, the agent comes to an answer: circular and unknown
\* dependencies do not make it wait for ever.
EveryRunAnswers == <>(stage = "over")

\* The place of each stage within a run, and of each retriever within a branch.
Place == [classify |-> 0, decompose |-> 1, explore |-> 2, fuse |-> 3, over |-> 4]
Turn  == [vector |-> 0, web |-> 1, kg |-> 2, kgweb |-> 3]

\* How far step p is on its way from the first retriever of the primary
\* branch to its end.
Rung(p) == IF at[p] \in Ended THEN 8
           ELSE Turn[at[p]] + (IF branch[p] = "fallback" THEN 4 ELSE 0)

\* The safety half of it: every step of the agent brings its answer nearer.
\* It enters a later stage, takes steps off those that wait, closes a wave,
\* takes one step of a wave further, or makes one of MaxRounds rounds.
EveryStepIsProgress ==
  [][\/ Place[stage'] > Place[stage]
     \/ stage' = stage /\ rest' \subseteq rest /\ rest' # rest
     \/ /\ UNCHANGED <<stage, rest>>
        /\ \/ wave # {} /\ wave' = {}
           \/ /\ UNCHANGED <<wave, rounds>>
              /\ \E p \in wave : /\ Rung(p)' > Rung(p)
                               /\ \A q \in wave \ {p} : Rung(q)' = Rung(q)
           \/ wave' = wave /\ rounds' = rounds + 1 /\ rounds' <= MaxRounds]_vars
=============================================================================
