----------------------------- MODULE Retrieval -----------------------------
(***************************************************************************)
(* One run of the retrieval agent (agents/retrieval): the query is         *)
(* classified, decomposed into steps that depend on each other, the steps  *)
(* are explored wave by wave, and what they found is fused in rounds.      *)
(*                                                                         *)
(* The steps of a wave are coroutines under asyncio.gather: each asks one  *)
(* retriever after another, and their answers interleave.  A step whose    *)
(* results are poor is explored again with the fallback strategy.          *)
(*                                                                         *)
(* The language model and the retrievers' stores are external.  A plan is  *)
(* whatever the model proposes: labels may repeat, be missing, or be cut   *)
(* off by the limit on steps, and dependencies may be circular.  The       *)
(* evidence a retriever returns is the set of its qualities: 1 up to       *)
(* TopQuality; a branch is rated with their mean, and 0 if it is empty.    *)
(***************************************************************************)
EXTENDS Naturals, Sequences

CONSTANTS
  Plans,       \* the decompositions the language model may propose
  TopQuality,  \* the best rating of a branch
  Threshold,   \* settings.RETRIEVAL_BACKTRACK_THRESHOLD, as a rating
  MaxRounds    \* settings.RETRIEVAL_CASCADE_ROUNDS

Strategies == {"rag", "kg", "both"}

\* A step: its label, the labels it depends on, the strategy it asks for, and
\* whether its question and its operator are texts.
Step == [idx : Nat, deps : SUBSET Nat, own : Strategies, text : BOOLEAN]

ASSUME PlansAssumption == Plans \subseteq Seq(Step)

ASSUME RatingAssumption ==
  TopQuality \in Nat /\ Threshold \in 1..TopQuality

ASSUME RoundsAssumption == MaxRounds \in Nat \ {0}

VARIABLES
  stage,      \* how far the agent is
  types,      \* the primary and the fallback strategy of the query's type
  plan,       \* the steps of the decomposition
  rest,       \* the positions in plan of the steps in no wave yet
  resolved,   \* the labels of the steps in a wave
  forced,     \* the steps put in the last wave although they are not ready
  wave,       \* the steps that run now
  at,         \* at[p]: the retriever step p waits for, or how it ended
  branch,     \* branch[p]: the strategy of step p that is tried
  found,      \* found[p][b]: the qualities of what branch b of p returned
  rated,      \* rated[p][b]: the rating of branch b
  kept,       \* kept[p]: the branches whose results are the step's results
  collected,  \* the steps whose results explore returns
  rounds,     \* the fused nodes made
  confident,  \* the last of them has a confidence of at least 0.5
  status      \* the AgentStatus of the run, once it is over

progress == <<at, branch, found, rated, kept>>
schedule == <<rest, resolved, forced, wave>>
fusion   == <<rounds, confident>>
vars     == <<stage, types, plan, schedule, progress, collected, fusion, status>>

Branches  == {"primary", "fallback"}
Sources   == {"vector", "web", "kg", "kgweb"}
Ended     == {"done", "failed"}
Positions == DOMAIN plan

----------------------------------------------------------------------------
(* Strategies and ratings. *)

\* StrategyConfig.for_type, over the query types.
TypeStrategies ==
  {[primary |-> "rag",  fallback |-> "kg"],
   [primary |-> "kg",   fallback |-> "rag"],
   [primary |-> "both", fallback |-> "both"]}

\* A step that names a retriever is given it on both branches.
Resolve(p, b) ==
  IF plan[p].own \in {"rag", "kg"} THEN plan[p].own ELSE types[b]

FirstSource(strategy) == IF strategy = "kg" THEN "kg" ELSE "vector"

\* The retriever a branch asks after source answered with the qualities got.
NextSource(strategy, source, got) ==
  CASE source = "vector"                                -> "web"
    [] source = "web" /\ strategy = "both"              -> "kg"
    [] source = "kg" /\ strategy = "kg" /\ got = {}     -> "kgweb"
    [] OTHER                                            -> "none"

\* The mean of a branch is known up to the range of its qualities.
Ratings(got) ==
  IF got = {} THEN {0}
  ELSE {r \in 1..TopQuality : \E lo, hi \in got : lo <= r /\ r <= hi}

\* A plausible bug the runs must tell from the code: only an empty branch is
\* tried again.
BacktracksIfEmpty(p, rating) ==
  /\ branch[p] = "primary"
  /\ rating = 0
  /\ Resolve(p, "fallback") # Resolve(p, "primary")

\* A poor branch is tried again, once, if the fallback is another strategy.
Backtracks(p, rating) ==
  /\ branch[p] = "primary"
  /\ rating < Threshold
  /\ Resolve(p, "fallback") # Resolve(p, "primary")

\* A plausible bug: the fallback always replaces the primary branch.
KeepLatest(p, rating) == {branch[p]}

\* The branches whose results a step keeps, given the ratings of both.
Keep(p, rating) ==
  IF branch[p] = "primary" THEN {"primary"}
  ELSE IF rating > rated[p]["primary"] THEN {"fallback"}
  ELSE Branches

\* The qualities of all that the step returns.
Evidence(p) == UNION {found[p][b] : b \in kept[p]}

\* The collected steps that returned more than their own node.
Founded == {p \in collected : Evidence(p) # {}}

----------------------------------------------------------------------------
(* From the query to the plan. *)

Init ==
  /\ stage = "classify"
  /\ types = [primary |-> "rag", fallback |-> "kg"]
  /\ plan = <<>>
  /\ rest = {} /\ resolved = {} /\ forced = {} /\ wave = {}
  /\ at = [p \in Positions |-> "waiting"]
  /\ branch = [p \in Positions |-> "primary"]
  /\ found = [p \in Positions |-> [b \in Branches |-> {}]]
  /\ rated = [p \in Positions |-> [b \in Branches |-> 0]]
  /\ kept = [p \in Positions |-> {}]
  /\ collected = {}
  /\ rounds = 0 /\ confident = FALSE
  /\ status = "none"

\* A failed or unknown classification gives one of the types as well.
Classify ==
  /\ stage = "classify"
  /\ stage' = "decompose"
  /\ types' \in TypeStrategies
  /\ UNCHANGED <<plan, schedule, progress, collected, fusion, status>>

Explore(steps) ==
  /\ stage' = "explore"
  /\ plan' = steps
  /\ rest' = DOMAIN steps
  /\ at' = [p \in DOMAIN steps |-> "waiting"]
  /\ branch' = [p \in DOMAIN steps |-> "primary"]
  /\ found' = [p \in DOMAIN steps |-> [b \in Branches |-> {}]]
  /\ rated' = [p \in DOMAIN steps |-> [b \in Branches |-> 0]]
  /\ kept' = [p \in DOMAIN steps |-> {}]
  /\ UNCHANGED <<types, resolved, forced, wave, collected, fusion, status>>

SingleStep == <<[idx |-> 1, deps |-> {}, own |-> "both", text |-> TRUE]>>

\* A simple query is a plan of one step of type QSelect, the initial types.
RouteSimple == stage = "classify" /\ Explore(SingleStep)

\* A decomposition that fails is the query itself as the only step.
Decompose ==
  /\ stage = "decompose"
  /\ \E steps \in Plans \cup {SingleStep} : Explore(steps)

\* _execute raises, and BaseAgent.run reports the error.
Raise ==
  /\ stage' = "over"
  /\ status' = "error"

\* A step that is no object, a label that is no number, no list of labels:
\* the conversion to TreeStep is outside the try.
BadPlan ==
  /\ stage = "decompose"
  /\ Raise
  /\ UNCHANGED <<types, plan, schedule, progress, collected, fusion>>

----------------------------------------------------------------------------
(* Tree exploration. *)

\* Plausible bugs: one dependency is enough, or none that is resolved counts.
ReadyIfAny == {p \in rest : plan[p].deps = {} \/ plan[p].deps \cap resolved # {}}

ReadyAtFirst == {p \in rest : plan[p].deps = {}}

Ready == {p \in rest : plan[p].deps \subseteq resolved}

Launch(steps) ==
  /\ wave' = steps
  /\ rest' = rest \ steps
  /\ at' = [p \in Positions |->
             IF p \in steps THEN FirstSource(Resolve(p, "primary")) ELSE at[p]]
  /\ UNCHANGED <<stage, types, plan, branch, found, rated, kept, collected,
                 fusion, status>>

\* A plausible bug: nothing is run when nothing is ready.
NextReadyWave ==
  /\ stage = "explore" /\ wave = {} /\ Ready # {}
  /\ Launch(Ready)
  /\ resolved' = resolved \cup {plan[p].idx : p \in Ready}
  /\ UNCHANGED forced

\* The steps whose dependencies are all in earlier waves, or, when there is
\* none, all that are left.
NextWave ==
  /\ stage = "explore" /\ wave = {} /\ rest # {}
  /\ \/ /\ Ready # {}
        /\ Launch(Ready)
        /\ resolved' = resolved \cup {plan[p].idx : p \in Ready}
        /\ UNCHANGED forced
     \/ /\ Ready = {}
        /\ Launch(rest)
        /\ forced' = rest
        /\ UNCHANGED resolved

\* What a retriever may find.  The vector and the graph retriever swallow
\* their errors; a web search that is not configured finds nothing.
Answers == SUBSET (1..TopQuality)

\* A retriever answers step p, which asks the next one, or rates the branch
\* and goes back to the fallback or is done.
Answer(p) ==
  \E got \in Answers :
    LET b    == branch[p]
        all  == found[p][b] \cup got
        next == NextSource(Resolve(p, b), at[p], got)
    IN
    /\ at[p] \in Sources /\ plan[p].text
    /\ found' = [found EXCEPT ![p][b] = all]
    /\ \/ /\ next # "none"
          /\ at' = [at EXCEPT ![p] = next]
          /\ UNCHANGED <<branch, rated, kept>>
       \/ /\ next = "none"
          /\ \E rating \in Ratings(all) :
               /\ rated' = [rated EXCEPT ![p][b] = rating]
               /\ \/ /\ Backtracks(p, rating)
                     /\ branch' = [branch EXCEPT ![p] = "fallback"]
                     /\ at' = [at EXCEPT ![p] =
                                 FirstSource(Resolve(p, "fallback"))]
                     /\ UNCHANGED kept
                  \/ /\ ~ Backtracks(p, rating)
                     /\ at' = [at EXCEPT ![p] = "done"]
                     /\ kept' = [kept EXCEPT ![p] = Keep(p, rating)]
                     /\ UNCHANGED branch
    /\ UNCHANGED <<stage, types, plan, schedule, collected, fusion, status>>

\* A step fails when its own node cannot be made, as its question is no text,
\* or when the web retriever raises.
MayFail(p) == at[p] \in IF plan[p].text THEN {"web", "kgweb"} ELSE Sources

\* gather returns the exception and the step is given up; a step alone in its
\* wave is awaited directly, and the exception ends the agent.
StepFails(p) ==
  /\ MayFail(p)
  /\ at' = [at EXCEPT ![p] = "failed"]
  /\ \/ wave = {p} /\ Raise
     \/ wave # {p} /\ UNCHANGED <<stage, status>>
  /\ UNCHANGED <<types, plan, schedule, branch, found, rated, kept, collected,
                 fusion>>

\* A plausible bug: the results after a failed step are not taken over.
EndWaveAtFailure ==
  /\ stage = "explore" /\ wave # {}
  /\ \A p \in wave : at[p] \in Ended
  /\ collected' = collected \cup {p \in wave :
                    \A q \in wave : q <= p => at[q] = "done"}
  /\ wave' = {}
  /\ UNCHANGED <<stage, types, plan, rest, resolved, forced, progress, fusion,
                 status>>

\* A plausible bug: the wave is over once one of its steps has ended.
EndWaveAtFirst ==
  /\ stage = "explore" /\ wave # {}
  /\ \E p \in wave : at[p] \in Ended
  /\ collected' = collected \cup {p \in wave : at[p] = "done"}
  /\ wave' = {}
  /\ UNCHANGED <<stage, types, plan, rest, resolved, forced, progress, fusion,
                 status>>

\* All coroutines of the wave have ended: the results of those that returned
\* are taken over.
EndWave ==
  /\ stage = "explore" /\ wave # {}
  /\ \A p \in wave : at[p] \in Ended
  /\ collected' = collected \cup {p \in wave : at[p] = "done"}
  /\ wave' = {}
  /\ UNCHANGED <<stage, types, plan, rest, resolved, forced, progress, fusion,
                 status>>

EndExplore ==
  /\ stage = "explore" /\ wave = {} /\ rest = {}
  /\ stage' = "fuse"
  /\ UNCHANGED <<types, plan, schedule, progress, collected, fusion, status>>

----------------------------------------------------------------------------
(* Cascade fusion and the agent's verdict. *)

\* A plausible bug: the steps' own nodes count as results.
VerdictOnNodes(made, sure) ==
  CASE made > 0                   -> IF sure THEN "success" ELSE "partial"
    [] made = 0 /\ collected # {} -> "partial"
    [] OTHER                      -> "needs_more_info"

Verdict(made, sure) ==
  CASE made > 0                   -> IF sure THEN "success" ELSE "partial"
    [] made = 0 /\ Founded # {}   -> "partial"
    [] OTHER                      -> "needs_more_info"

Conclude ==
  /\ stage' = "over"
  /\ status' = Verdict(rounds', confident')

\* Nothing was found, or nothing with a text.
NothingToFuse ==
  /\ stage = "fuse" /\ rounds = 0
  /\ UNCHANGED fusion
  /\ Conclude
  /\ UNCHANGED <<types, plan, schedule, progress, collected>>

\* A plausible bug: one round too many.
FuseRoundUncounted ==
  /\ stage = "fuse" /\ Founded # {}
  /\ rounds' = rounds + 1
  /\ confident' \in BOOLEAN
  /\ \/ Conclude
     \/ rounds' <= MaxRounds /\ UNCHANGED <<stage, status>>
  /\ UNCHANGED <<types, plan, schedule, progress, collected>>

\* A round, and the end after a complete one or the last.
FuseRound ==
  /\ stage = "fuse" /\ Founded # {}
  /\ rounds' = rounds + 1
  /\ confident' \in BOOLEAN
  /\ \/ Conclude
     \/ rounds' < MaxRounds /\ UNCHANGED <<stage, status>>
  /\ UNCHANGED <<types, plan, schedule, progress, collected>>

\* The language model fails; the rounds made so far count.
FuseFails ==
  /\ stage = "fuse" /\ Founded # {}
  /\ UNCHANGED fusion
  /\ Conclude
  /\ UNCHANGED <<types, plan, schedule, progress, collected>>

\* JSON that is no object, or a score that is no number in [0, 1]: the
\* fused node is built outside the try.
BadFusion ==
  /\ stage = "fuse" /\ Founded # {}
  /\ Raise
  /\ UNCHANGED <<types, plan, schedule, progress, collected, fusion>>

----------------------------------------------------------------------------

Next ==
  \/ Classify \/ RouteSimple \/ Decompose \/ BadPlan
  \/ NextWave \/ EndWave \/ EndExplore
  \/ \E p \in wave : Answer(p) \/ StepFails(p)
  \/ NothingToFuse \/ FuseRound \/ FuseFails \/ BadFusion

\* Every awaited call returns or raises.
Spec == Init /\ [][Next]_vars /\ WF_vars(Next)
=============================================================================
