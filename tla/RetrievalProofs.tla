-------------------------- MODULE RetrievalProofs --------------------------
(***************************************************************************)
(* Proofs of the safety properties of the retrieval agent, for every set   *)
(* of plans, scale of ratings, threshold and number of rounds.             *)
(*                                                                         *)
(* The schedule is proved first: where a step is says whether it has run,  *)
(* and the resolved labels are those of the steps already in a wave.  The  *)
(* order of the steps follows from it.  What a single step keeps is an     *)
(* invariant of that step alone, and the verdict rests on both.            *)
(***************************************************************************)
EXTENDS RetrievalProperties, TLAPS

\* A step waits exactly as long as it is in no wave, and has ended when its
\* wave is over; the results of the waves that are over have been collected.
Scheduled ==
  /\ wave \cap rest = {}
  /\ forced # {} => rest = {}
  /\ forced = {} => resolved = {plan[q].idx : q \in Positions \ rest}
  /\ \A p \in Positions : p \in rest <=> at[p] = "waiting"
  /\ \A p \in Positions \ wave : at[p] \in {"waiting"} \cup Ended
  /\ collected = {p \in Positions \ wave : at[p] = "done"}

\* What each stage has left behind.
Staged ==
  /\ stage \in {"classify", "decompose"} => plan = <<>>
  /\ stage \in {"classify", "decompose", "explore"} => rounds = 0
  /\ stage = "fuse" \/ (stage = "over" /\ status # "error") =>
       rest = {} /\ wave = {}
  /\ stage = "fuse" => rounds < MaxRounds
  /\ rounds > 0 => Founded # {} /\ wave = {}

\* A branch that has been rated is rated 0 just when it is empty; a step that
\* is done has kept what Keep says of the ratings of its branches.
StepInv(p) ==
  /\ at[p] = "waiting" => branch[p] = "primary"
  /\ branch[p] = "primary" => found[p]["fallback"] = {}
  /\ branch[p] = "fallback" \/ at[p] = "done" =>
       (rated[p]["primary"] = 0 <=> found[p]["primary"] = {})
  /\ branch[p] = "fallback" /\ at[p] = "done" =>
       (rated[p]["fallback"] = 0 <=> found[p]["fallback"] = {})
  /\ at[p] = "done" => kept[p] = Keep(p, rated[p]["fallback"])
  /\ at[p] = "done" /\ branch[p] = "primary" =>
       ~ Backtracks(p, rated[p]["primary"])

Stepwise == \A p \in Positions : StepInv(p)

Inv ==
  /\ TypeOK
  /\ Scheduled
  /\ Staged
  /\ Stepwise
  /\ DependenciesFirst
  /\ ForcedOnlyIfStuck
  /\ VerdictIsFounded

----------------------------------------------------------------------------
(* Facts about states. *)

\* The plans of the model and the plan of a simple query are well formed.
LEMMA StepsAreTyped ==
  ASSUME NEW steps \in Plans \cup {SingleStep}
  PROVE  steps \in Seq(Step)
<1>1. CASE steps \in Plans
  BY <1>1, PlansAssumption
<1>2. CASE steps = SingleStep
  <2>1. [idx |-> 1, deps |-> {}, own |-> "both", text |-> TRUE] \in Step
    BY DEF Step, Strategies
  <2>2. QED
    BY <1>2, <2>1 DEF SingleStep
<1>3. QED
  BY <1>1, <1>2

\* The positions of a plan hold steps.
LEMMA PlanIsTyped ==
  ASSUME TypeOK
  PROVE  \A p \in Positions : plan[p] \in Step
<1>1. plan \in Seq(Step) /\ Positions = 1..Len(plan)
  BY DEF TypeOK, Positions
<1>2. QED
  BY <1>1

\* A step resolves to one of the strategies on either branch.
LEMMA ResolveIsTyped ==
  ASSUME TypeOK, NEW p \in Positions, NEW b \in Branches
  PROVE  Resolve(p, b) \in Strategies
BY DEF TypeOK, Resolve, Positions, Step, Strategies, Branches

\* A branch that is not empty is rated above 0.
LEMMA RatingsAreTyped ==
  ASSUME NEW got \in SUBSET (1..TopQuality), NEW rating \in Ratings(got)
  PROVE  /\ rating \in 0..TopQuality
         /\ rating = 0 <=> got = {}
<1>1. TopQuality \in Nat
  BY RatingAssumption
<1>2. CASE got = {}
  BY <1>1, <1>2 DEF Ratings
<1>3. CASE got # {}
  BY <1>1, <1>3 DEF Ratings
<1>4. QED
  BY <1>2, <1>3

\* A finished step returns something if one of its branches did.
LEMMA NothingIsLost ==
  ASSUME TypeOK, NEW p \in Positions, StepInv(p), at[p] = "done"
  PROVE  /\ "primary" \notin kept[p] =>
              "fallback" \in kept[p] /\ rated[p]["fallback"] > rated[p]["primary"]
         /\ Evidence(p) = {} => \A b \in Branches : found[p][b] = {}
<1>1. /\ branch[p] \in Branches
      /\ rated[p]["primary"] \in Nat /\ rated[p]["fallback"] \in Nat
  BY RatingAssumption DEF TypeOK, Branches
<1>2. CASE branch[p] = "primary"
  <2>1. kept[p] = {"primary"} /\ found[p]["fallback"] = {}
    BY <1>2 DEF StepInv, Keep
  <2>2. Evidence(p) = found[p]["primary"]
    BY <2>1 DEF Evidence
  <2>3. QED
    BY <2>1, <2>2 DEF Branches
<1>3. CASE branch[p] = "fallback" /\ rated[p]["fallback"] > rated[p]["primary"]
  <2>1. kept[p] = {"fallback"}
    BY <1>3 DEF StepInv, Keep
  <2>2. found[p]["fallback"] # {}
    BY <1>1, <1>3 DEF StepInv
  <2>3. Evidence(p) = found[p]["fallback"]
    BY <2>1 DEF Evidence
  <2>4. QED
    BY <1>3, <2>1, <2>2, <2>3
<1>4. CASE branch[p] = "fallback" /\ ~ (rated[p]["fallback"] > rated[p]["primary"])
  <2>1. kept[p] = Branches
    BY <1>4 DEF StepInv, Keep, Branches
  <2>2. \A b \in Branches : found[p][b] \subseteq Evidence(p)
    BY <2>1 DEF Evidence
  <2>3. QED
    BY <2>1, <2>2 DEF Branches
<1>5. QED
  BY <1>1, <1>2, <1>3, <1>4 DEF Branches

\* What a step writes for one of its branches.
LEMMA BranchUpdated ==
  ASSUME NEW P, NEW S, NEW f \in [P -> [Branches -> S]],
         NEW p \in P, NEW b \in Branches, NEW v \in S,
         NEW g, g = [f EXCEPT ![p][b] = v]
  PROVE  /\ g \in [P -> [Branches -> S]]
         /\ g[p][b] = v
         /\ \A c \in Branches \ {b} : g[p][c] = f[p][c]
         /\ \A q \in P \ {p} : g[q] = f[q]
<1> DEFINE row == [f[p] EXCEPT ![b] = v]
<1>1. f[p] \in [Branches -> S]
  OBVIOUS
<1>2. /\ row \in [Branches -> S] /\ row[b] = v
      /\ \A c \in Branches \ {b} : row[c] = f[p][c]
  BY <1>1
<1>3. g = [f EXCEPT ![p] = row]
  OBVIOUS
<1> HIDE DEF row
<1>4. g[p] = row /\ g \in [P -> [Branches -> S]]
  BY <1>2, <1>3
<1>5. \A q \in P \ {p} : g[q] = f[q]
  BY <1>3
<1>6. QED
  BY <1>2, <1>4, <1>5

\* Steps that are left as they were keep their invariants.
LEMMA StepsKept ==
  ASSUME Stepwise, UNCHANGED <<types, plan, progress>>
  PROVE  Stepwise'
BY DEF Stepwise, StepInv, progress, Positions, Keep, Backtracks, Resolve

\* The order of the steps is not disturbed while no step changes its place.
LEMMA OrderKept ==
  ASSUME DependenciesFirst, ForcedOnlyIfStuck, UNCHANGED <<plan, forced, at>>
  PROVE  DependenciesFirst' /\ ForcedOnlyIfStuck'
BY DEF DependenciesFirst, ForcedOnlyIfStuck, Positions

\* Nor while a step that has been started moves on.
LEMMA OrderKeptByStep ==
  ASSUME TypeOK, DependenciesFirst, ForcedOnlyIfStuck, UNCHANGED <<plan, forced>>,
         NEW p \in Positions, at[p] \notin {"waiting"} \cup Ended,
         NEW w, at' = [at EXCEPT ![p] = w]
  PROVE  DependenciesFirst' /\ ForcedOnlyIfStuck'
<1>1. \A q \in Positions \ {p} : at'[q] = at[q]
  BY DEF TypeOK
<1>2. \A q \in Positions : at[q] \in Ended => at'[q] = at[q]
  BY <1>1
<1>3. \A q \in Positions : at'[q] # "waiting" => at[q] # "waiting"
  BY <1>1
<1>4. DependenciesFirst'
  BY <1>2, <1>3 DEF DependenciesFirst, Positions
<1>5. ForcedOnlyIfStuck'
  BY DEF ForcedOnlyIfStuck, Positions
<1>6. QED
  BY <1>4, <1>5

----------------------------------------------------------------------------
(* The invariant is inductive. *)

LEMMA Initially == Init => Inv
<1> SUFFICES ASSUME Init PROVE Inv
  OBVIOUS
<1>1. Positions = {}
  BY DEF Init, Positions
<1>2. TypeOK
  <2>1. plan \in Seq(Step)
    BY DEF Init
  <2>2. types \in [Branches -> Strategies]
    BY DEF Init, Branches, Strategies
  <2>3. /\ at \in [Positions -> {"waiting"} \cup Sources \cup Ended]
        /\ branch \in [Positions -> Branches]
        /\ found \in [Positions -> [Branches -> SUBSET (1..TopQuality)]]
        /\ rated \in [Positions -> [Branches -> 0..TopQuality]]
        /\ kept \in [Positions -> SUBSET Branches]
    BY <1>1 DEF Init
  <2>4. rounds \in 0..MaxRounds
    BY RoundsAssumption DEF Init
  <2>5. QED
    BY <2>1, <2>2, <2>3, <2>4 DEF Init, TypeOK
<1>3. Scheduled /\ Stepwise /\ DependenciesFirst /\ ForcedOnlyIfStuck
  BY <1>1 DEF Init, Scheduled, Stepwise, DependenciesFirst, ForcedOnlyIfStuck
<1>4. Staged /\ VerdictIsFounded
  BY RoundsAssumption DEF Init, Staged, VerdictIsFounded
<1>5. QED
  BY <1>2, <1>3, <1>4 DEF Inv

LEMMA PlanIsTaken ==
  ASSUME Inv, stage \in {"classify", "decompose"},
         NEW steps \in Plans \cup {SingleStep}, Explore(steps)
  PROVE  Inv'
<1>1. /\ Positions = {} /\ wave = {} /\ forced = {}
      /\ collected = {} /\ resolved = {}
  BY DEF Inv, TypeOK, Staged, Scheduled, Positions
<1>2. plan' = steps /\ Positions' = DOMAIN steps
  BY DEF Explore, Positions
<1>3. steps \in Seq(Step)
  BY StepsAreTyped
<1>4. TypeOK'
  BY <1>1, <1>2, <1>3, RatingAssumption
  DEF Inv, TypeOK, Explore, Branches, fusion
<1>5. Scheduled'
  BY <1>1, <1>2 DEF Scheduled, Explore, Ended
<1>6. Staged'
  <2>1. rounds = 0 /\ rounds' = 0
    BY DEF Inv, Staged, Explore, fusion
  <2>2. QED
    BY <2>1 DEF Staged, Explore
<1>7. Stepwise'
  <2> SUFFICES ASSUME NEW p \in DOMAIN steps PROVE StepInv(p)'
    BY <1>2 DEF Stepwise
  <2>1. at'[p] = "waiting" /\ branch'[p] = "primary"
    BY DEF Explore
  <2>2. found'[p]["fallback"] = {}
    BY DEF Explore, Branches
  <2>3. QED
    BY <2>1, <2>2 DEF StepInv
<1>8. DependenciesFirst' /\ ForcedOnlyIfStuck'
  BY <1>1, <1>2 DEF DependenciesFirst, ForcedOnlyIfStuck, Explore
<1>9. VerdictIsFounded'
  BY DEF VerdictIsFounded, Explore
<1>10. QED
  BY <1>4, <1>5, <1>6, <1>7, <1>8, <1>9 DEF Inv

\* The steps of the next wave leave the rest, and so stop waiting.
LEMMA WaveStarts ==
  ASSUME Inv, NextWave
  PROVE  Inv'
<1> DEFINE steps == wave'
<1>1. /\ steps \subseteq rest /\ wave = {} /\ rest \subseteq Positions
      /\ stage = "explore" /\ stage' = stage
      /\ Launch(steps)
  BY DEF NextWave, Launch, Ready, Inv, TypeOK
<1>2. /\ plan' = plan /\ Positions' = Positions /\ types' = types
      /\ UNCHANGED <<branch, found, rated, kept, collected, rounds, confident,
                     status>>
  BY <1>1 DEF Launch, Positions, fusion
<1>3. /\ rest' = rest \ steps
      /\ \A p \in Positions : at'[p] = IF p \in steps
                                      THEN FirstSource(Resolve(p, "primary"))
                                      ELSE at[p]
  BY <1>1 DEF Launch
<1>4. \A p \in steps : at[p] = "waiting" /\ at'[p] \in {"vector", "kg"}
  BY <1>1, <1>3 DEF Inv, Scheduled, FirstSource
<1>5. \A p \in Positions : at[p] \in Ended \/ at'[p] \in Ended => at'[p] = at[p]
  BY <1>3, <1>4 DEF Ended
<1>6. \/ /\ steps = Ready /\ forced' = forced
         /\ resolved' = resolved \cup {plan[p].idx : p \in Ready}
      \/ steps = rest /\ Ready = {} /\ forced' = rest /\ resolved' = resolved
  BY DEF NextWave, Launch
<1>7. forced = {} /\ resolved = {plan[q].idx : q \in Positions \ rest}
  BY DEF Inv, Scheduled, NextWave
<1>8. \A q \in Positions \ rest : at[q] \in Ended
  BY <1>1 DEF Inv, Scheduled
<1>9. TypeOK'
  <2>1. \A p \in Positions : plan[p].idx \in Nat
    BY PlanIsTyped DEF Inv, Step
  <2>2. at' \in [Positions -> {"waiting"} \cup Sources \cup Ended]
    BY <1>1 DEF Launch, Inv, TypeOK, FirstSource, Sources
  <2>3. resolved' \subseteq Nat /\ forced' \subseteq Positions
    BY <1>1, <1>6, <2>1 DEF Inv, TypeOK
  <2>4. rest' \subseteq Positions /\ wave' \subseteq Positions
    BY <1>1, <1>3
  <2>5. QED
    BY <1>1, <1>2, <2>2, <2>3, <2>4 DEF Inv, TypeOK
<1>10. Scheduled'
  <2>1. wave' \cap rest' = {} /\ (forced' # {} => rest' = {})
    BY <1>3, <1>6, <1>7
  <2>2. forced' = {} =>
          resolved' = {plan'[q].idx : q \in Positions' \ rest'}
    BY <1>1, <1>2, <1>3, <1>6, <1>7 DEF NextWave
  <2>3. \A p \in Positions' : p \in rest' <=> at'[p] = "waiting"
    BY <1>1, <1>2, <1>3, <1>4 DEF Inv, Scheduled
  <2>4. \A p \in Positions' \ wave' : at'[p] \in {"waiting"} \cup Ended
    BY <1>1, <1>2, <1>3 DEF Inv, Scheduled
  <2>5. collected' = {p \in Positions' \ wave' : at'[p] = "done"}
    BY <1>1, <1>2, <1>3, <1>4 DEF Inv, Scheduled
  <2>6. QED
    BY <2>1, <2>2, <2>3, <2>4, <2>5 DEF Scheduled
<1>11. Staged'
  BY <1>1, <1>2 DEF Inv, Staged
<1>12. Stepwise'
  <2> SUFFICES ASSUME NEW p \in Positions PROVE StepInv(p)'
    BY <1>2 DEF Stepwise
  <2>1. \/ at'[p] = at[p]
        \/ at[p] = "waiting" /\ at'[p] \in {"vector", "kg"}
    BY <1>3, <1>4
  <2>2. StepInv(p)
    BY DEF Inv, Stepwise
  <2>3. QED
    BY <1>2, <2>1, <2>2 DEF StepInv, Keep, Backtracks, Resolve
<1>13. DependenciesFirst'
  <2> SUFFICES ASSUME NEW p \in Positions, at'[p] # "waiting", p \notin forced',
                      NEW d \in plan[p].deps
               PROVE  \E q \in Positions : plan[q].idx = d /\ at'[q] \in Ended
    BY <1>2 DEF DependenciesFirst
  <2>1. CASE p \in steps
    <3>1. d \in resolved
      BY <1>6, <2>1 DEF Ready
    <3>2. PICK q \in Positions \ rest : plan[q].idx = d
      BY <1>7, <3>1
    <3>3. QED
      BY <1>5, <1>8, <3>2
  <2>2. CASE p \notin steps
    <3>1. at[p] # "waiting"
      BY <1>3, <2>2
    <3>2. PICK q \in Positions : plan[q].idx = d /\ at[q] \in Ended
      BY <1>7, <3>1 DEF Inv, DependenciesFirst
    <3>3. QED
      BY <1>5, <3>2
  <2>3. QED
    BY <2>1, <2>2
<1>14. ForcedOnlyIfStuck'
  <2> SUFFICES ASSUME NEW p \in forced'
               PROVE  \E d \in plan[p].deps :
                        \A q \in Positions \ forced' : plan[q].idx # d
    BY <1>2 DEF ForcedOnlyIfStuck
  <2>1. Ready = {} /\ forced' = rest
    BY <1>6, <1>7
  <2>2. PICK d \in plan[p].deps : d \notin resolved
    BY <2>1 DEF Ready
  <2>3. QED
    BY <1>7, <2>1, <2>2
<1>15. VerdictIsFounded'
  BY <1>1 DEF VerdictIsFounded
<1>16. QED
  BY <1>9, <1>10, <1>11, <1>12, <1>13, <1>14, <1>15 DEF Inv

\* A step that is running, and so moves within its wave.
LEMMA StepMoves ==
  ASSUME Inv, NEW p \in wave, at[p] \in Sources,
         NEW w \in Sources \cup Ended, at' = [at EXCEPT ![p] = w],
         UNCHANGED <<types, plan, schedule, collected>>
  PROVE  /\ stage # "fuse" /\ (stage = "over" => status = "error")
         /\ Scheduled' /\ DependenciesFirst' /\ ForcedOnlyIfStuck'
<1>1. p \in Positions /\ at[p] \notin {"waiting"} \cup Ended /\ w # "waiting"
  BY DEF Inv, TypeOK, Sources, Ended
<1>2. /\ at'[p] = w
      /\ \A q \in Positions \ {p} : at'[q] = at[q]
  BY <1>1 DEF Inv, TypeOK
<1>3. stage # "fuse" /\ (stage = "over" => status = "error")
  BY DEF Inv, Staged
<1>4. Scheduled'
  BY <1>1, <1>2 DEF Inv, Scheduled, schedule, Positions
<1>5. DependenciesFirst' /\ ForcedOnlyIfStuck'
  BY <1>1, OrderKeptByStep DEF Inv, schedule
<1>6. QED
  BY <1>3, <1>4, <1>5

LEMMA StepAnswers ==
  ASSUME Inv, NEW p \in wave, Answer(p)
  PROVE  Inv'
<1> DEFINE b == branch[p]
<1>1. PICK got \in SUBSET (1..TopQuality) :
        /\ at[p] \in Sources
        /\ found' = [found EXCEPT ![p][b] = found[p][b] \cup got]
        /\ \/ /\ at' = [at EXCEPT ![p] =
                          NextSource(Resolve(p, b), at[p], got)]
              /\ NextSource(Resolve(p, b), at[p], got) # "none"
              /\ UNCHANGED <<branch, rated, kept>>
           \/ \E rating \in Ratings(found[p][b] \cup got) :
                /\ rated' = [rated EXCEPT ![p][b] = rating]
                /\ \/ /\ Backtracks(p, rating)
                      /\ branch' = [branch EXCEPT ![p] = "fallback"]
                      /\ at' = [at EXCEPT ![p] =
                                  FirstSource(Resolve(p, "fallback"))]
                      /\ UNCHANGED kept
                   \/ /\ ~ Backtracks(p, rating)
                      /\ at' = [at EXCEPT ![p] = "done"]
                      /\ kept' = [kept EXCEPT ![p] = Keep(p, rating)]
                      /\ UNCHANGED branch
        /\ UNCHANGED <<stage, types, plan, schedule, collected, fusion, status>>
  BY DEF Answer, Answers
<1>2. p \in Positions /\ b \in Branches
  BY DEF Inv, TypeOK
<1> DEFINE all == found[p][b] \cup got
<1>3. /\ found' \in [Positions -> [Branches -> SUBSET (1..TopQuality)]]
      /\ all \in SUBSET (1..TopQuality)
      /\ found'[p][b] = all
      /\ \A c \in Branches \ {b} : found'[p][c] = found[p][c]
      /\ \A q \in Positions \ {p} : found'[q] = found[q]
  <2>1. /\ found \in [Positions -> [Branches -> SUBSET (1..TopQuality)]]
        /\ all \in SUBSET (1..TopQuality)
    BY <1>2 DEF Inv, TypeOK
  <2>2. QED
    BY <1>1, <1>2, <2>1, BranchUpdated
<1>4. StepInv(p)
  BY <1>2 DEF Inv, Stepwise
<1>5. PICK w \in Sources \cup Ended : at' = [at EXCEPT ![p] = w]
  BY <1>1 DEF NextSource, FirstSource, Sources, Ended
<1>6. /\ stage # "fuse" /\ (stage = "over" => status = "error")
      /\ Scheduled' /\ DependenciesFirst' /\ ForcedOnlyIfStuck'
  BY <1>1, <1>5, StepMoves
<1>7. /\ at' \in [Positions -> {"waiting"} \cup Sources \cup Ended]
      /\ at'[p] = w
      /\ \A q \in Positions \ {p} : at'[q] = at[q]
  BY <1>2, <1>5 DEF Inv, TypeOK
<1>8. Positions' = Positions /\ \A c : Resolve(p, c)' = Resolve(p, c)
  BY <1>1 DEF Positions, Resolve
<1> DEFINE Moved ==
      /\ branch' \in [Positions -> Branches]
      /\ rated' \in [Positions -> [Branches -> 0..TopQuality]]
      /\ kept' \in [Positions -> SUBSET Branches]
      /\ StepInv(p)'
      /\ \A q \in Positions \ {p} :
           /\ branch'[q] = branch[q]
           /\ rated'[q] = rated[q]
           /\ kept'[q] = kept[q]
<1>9. ASSUME at' = [at EXCEPT ![p] = NextSource(Resolve(p, b), at[p], got)],
             NextSource(Resolve(p, b), at[p], got) # "none",
             UNCHANGED <<branch, rated, kept>>
      PROVE  Moved
  <2>1. at'[p] \in Sources
    BY <1>2, <1>9 DEF NextSource, Sources, Inv, TypeOK
  <2>2. StepInv(p)'
    BY <1>2, <1>3, <1>4, <1>9, <2>1 DEF StepInv, Sources, Branches
  <2>3. Moved
    BY <1>9, <2>2 DEF Inv, TypeOK
  <2>4. QED
    BY <2>3
<1>10. ASSUME NEW rating \in Ratings(all),
              rated' = [rated EXCEPT ![p][b] = rating]
       PROVE  /\ rating \in 0..TopQuality
              /\ rating = 0 <=> all = {}
              /\ rated' \in [Positions -> [Branches -> 0..TopQuality]]
              /\ rated'[p][b] = rating
              /\ \A c \in Branches \ {b} : rated'[p][c] = rated[p][c]
              /\ \A q \in Positions \ {p} : rated'[q] = rated[q]
  <2>1. rating \in 0..TopQuality /\ (rating = 0 <=> all = {})
    BY <1>3, RatingsAreTyped
  <2>2. rated \in [Positions -> [Branches -> 0..TopQuality]]
    BY DEF Inv, TypeOK
  <2>3. QED
    BY <1>2, <1>10, <2>1, <2>2, BranchUpdated
<1>11. ASSUME NEW rating \in Ratings(all),
              rated' = [rated EXCEPT ![p][b] = rating],
              Backtracks(p, rating),
              branch' = [branch EXCEPT ![p] = "fallback"],
              at' = [at EXCEPT ![p] = FirstSource(Resolve(p, "fallback"))],
              kept' = kept
       PROVE  Moved
  <2>1. /\ b = "primary" /\ branch'[p] = "fallback"
        /\ branch' \in [Positions -> Branches]
        /\ \A q \in Positions \ {p} : branch'[q] = branch[q]
    BY <1>2, <1>11 DEF Backtracks, Inv, TypeOK, Branches
  <2>2. at'[p] \in {"vector", "kg"}
    BY <1>2, <1>11 DEF FirstSource, Inv, TypeOK
  <2>3. rated'[p]["primary"] = 0 <=> found'[p]["primary"] = {}
    BY <1>3, <1>10, <1>11, <2>1
  <2>4. StepInv(p)'
    BY <2>1, <2>2, <2>3 DEF StepInv
  <2>5. QED
    BY <1>10, <1>11, <2>1, <2>4 DEF Inv, TypeOK
<1>12. ASSUME NEW rating \in Ratings(all),
              rated' = [rated EXCEPT ![p][b] = rating],
              ~ Backtracks(p, rating),
              at' = [at EXCEPT ![p] = "done"],
              kept' = [kept EXCEPT ![p] = Keep(p, rating)],
              branch' = branch
       PROVE  Moved
  <2>1. /\ at'[p] = "done" /\ branch'[p] = b
        /\ kept'[p] = Keep(p, rating)
        /\ \A q \in Positions \ {p} : kept'[q] = kept[q]
        /\ kept' \in [Positions -> SUBSET Branches]
    BY <1>2, <1>12 DEF Inv, TypeOK, Keep, Branches
  <2>2. StepInv(p)'
    <3>1. CASE b = "primary"
      <4>1. /\ found'[p]["fallback"] = {}
            /\ rated'[p]["primary"] = rating
            /\ rated'[p]["primary"] = 0 <=> found'[p]["primary"] = {}
        BY <1>3, <1>4, <1>10, <1>12, <3>1 DEF StepInv, Branches
      <4>2. kept'[p] = Keep(p, rated[p]["fallback"])'
        BY <2>1, <3>1 DEF Keep
      <4>3. ~ Backtracks(p, rated[p]["primary"])'
        BY <1>8, <1>12, <4>1 DEF Backtracks
      <4>4. QED
        BY <2>1, <3>1, <4>1, <4>2, <4>3 DEF StepInv
    <3>2. CASE b = "fallback"
      <4>1. /\ rated'[p]["primary"] = rated[p]["primary"]
            /\ found'[p]["primary"] = found[p]["primary"]
            /\ rated'[p]["fallback"] = rating
            /\ rated'[p]["fallback"] = 0 <=> found'[p]["fallback"] = {}
        BY <1>3, <1>10, <1>12, <3>2 DEF Branches
      <4>2. kept'[p] = Keep(p, rated[p]["fallback"])'
        BY <2>1, <3>2, <4>1 DEF Keep
      <4>3. QED
        BY <1>4, <2>1, <3>2, <4>1, <4>2 DEF StepInv
    <3>3. QED
      BY <1>2, <3>1, <3>2 DEF Branches
  <2>3. QED
    BY <1>10, <1>12, <2>1, <2>2 DEF Inv, TypeOK
<1>13. Moved
  <2> HIDE DEF Moved
  <2>1. CASE /\ at' = [at EXCEPT ![p] = NextSource(Resolve(p, b), at[p], got)]
             /\ NextSource(Resolve(p, b), at[p], got) # "none"
             /\ UNCHANGED <<branch, rated, kept>>
    BY <1>9, <2>1
  <2>2. ASSUME NEW rating \in Ratings(all),
               rated' = [rated EXCEPT ![p][b] = rating],
               \/ /\ Backtracks(p, rating)
                  /\ branch' = [branch EXCEPT ![p] = "fallback"]
                  /\ at' = [at EXCEPT ![p] =
                              FirstSource(Resolve(p, "fallback"))]
                  /\ UNCHANGED kept
               \/ /\ ~ Backtracks(p, rating)
                  /\ at' = [at EXCEPT ![p] = "done"]
                  /\ kept' = [kept EXCEPT ![p] = Keep(p, rating)]
                  /\ UNCHANGED branch
        PROVE  Moved
    BY <1>11, <1>12, <2>2
  <2>3. QED
    BY <1>1, <2>1, <2>2
<1>14. TypeOK'
  BY <1>1, <1>3, <1>7, <1>8, <1>13 DEF Inv, TypeOK, schedule, fusion
<1>15. Stepwise'
  <2> SUFFICES ASSUME NEW q \in Positions, q # p PROVE StepInv(q)'
    BY <1>8, <1>13 DEF Stepwise
  <2>1. StepInv(q)
    BY DEF Inv, Stepwise
  <2>2. /\ at'[q] = at[q] /\ found'[q] = found[q] /\ branch'[q] = branch[q]
        /\ rated'[q] = rated[q] /\ kept'[q] = kept[q]
        /\ plan' = plan /\ types' = types
    BY <1>1, <1>3, <1>7, <1>13
  <2>3. QED
    BY <2>1, <2>2 DEF StepInv, Keep, Backtracks, Resolve
<1>16. Staged'
  <2>1. rounds = 0 /\ rounds' = 0
    BY <1>1 DEF Inv, TypeOK, Staged, fusion
  <2>2. QED
    BY <1>1, <1>6, <2>1 DEF Inv, Staged, schedule
<1>17. VerdictIsFounded'
  BY <1>1, <1>6 DEF VerdictIsFounded
<1>18. QED
  BY <1>6, <1>14, <1>15, <1>16, <1>17 DEF Inv

LEMMA StepGivesUp ==
  ASSUME Inv, NEW p \in wave, StepFails(p)
  PROVE  Inv'
<1>1. /\ at[p] \in Sources
      /\ at' = [at EXCEPT ![p] = "failed"]
      /\ UNCHANGED <<types, plan, schedule, collected>>
      /\ UNCHANGED <<branch, found, rated, kept, fusion>>
      /\ \/ stage' = "over" /\ status' = "error"
         \/ UNCHANGED <<stage, status>>
  BY DEF StepFails, MayFail, Raise, Sources
<1>2. p \in Positions /\ Positions' = Positions
  BY <1>1 DEF Inv, TypeOK, Positions
<1>3. /\ stage # "fuse" /\ (stage = "over" => status = "error")
      /\ Scheduled' /\ DependenciesFirst' /\ ForcedOnlyIfStuck'
  BY <1>1, StepMoves DEF Ended
<1>4. TypeOK'
  BY <1>1, <1>2 DEF Inv, TypeOK, schedule, fusion, Ended
<1>5. Stepwise'
  <2> SUFFICES ASSUME NEW q \in Positions PROVE StepInv(q)'
    BY <1>2 DEF Stepwise
  <2>1. StepInv(q)
    BY DEF Inv, Stepwise
  <2>2. at'[q] = at[q] \/ at'[q] = "failed"
    BY <1>1 DEF Inv, TypeOK
  <2>3. QED
    BY <1>1, <2>1, <2>2 DEF StepInv, Keep, Backtracks, Resolve
<1>6. Staged'
  <2>1. rounds = 0 /\ rounds' = 0
    BY <1>1 DEF Inv, TypeOK, Staged, fusion
  <2>2. QED
    BY <1>1, <1>3, <2>1 DEF Inv, Staged, schedule
<1>7. VerdictIsFounded'
  BY <1>1, <1>3 DEF VerdictIsFounded
<1>8. QED
  BY <1>3, <1>4, <1>5, <1>6, <1>7 DEF Inv

\* The results of the wave that is over join those of the earlier ones.
LEMMA WaveEnds ==
  ASSUME Inv, EndWave
  PROVE  Inv'
<1>1. /\ stage = "explore" /\ stage' = stage /\ status' = status
      /\ wave' = {} /\ \A p \in wave : at[p] \in Ended
      /\ collected' = collected \cup {p \in wave : at[p] = "done"}
      /\ UNCHANGED <<rest, resolved, forced, plan, types, rounds, confident>>
      /\ UNCHANGED <<at, branch, found, rated, kept>>
  BY DEF EndWave, progress, fusion
<1>2. Positions' = Positions /\ wave \subseteq Positions
  BY <1>1 DEF Inv, TypeOK, Positions
<1>3. TypeOK'
  BY <1>1, <1>2 DEF Inv, TypeOK
<1>4. Scheduled'
  BY <1>1, <1>2 DEF Inv, Scheduled
<1>5. Staged'
  BY <1>1 DEF Inv, Staged
<1>6. Stepwise'
  BY <1>1, StepsKept DEF Inv, progress
<1>7. DependenciesFirst' /\ ForcedOnlyIfStuck'
  BY <1>1, OrderKept DEF Inv
<1>8. VerdictIsFounded'
  BY <1>1 DEF VerdictIsFounded
<1>9. QED
  BY <1>3, <1>4, <1>5, <1>6, <1>7, <1>8 DEF Inv

\* Steps that move no step nor the schedule disturb the stage at most.
LEMMA ExplorationKept ==
  ASSUME Inv, UNCHANGED <<plan, schedule, progress, collected>>,
         types' = types \/ plan = <<>>
  PROVE  /\ Scheduled' /\ Stepwise' /\ DependenciesFirst' /\ ForcedOnlyIfStuck'
         /\ Positions' = Positions /\ Founded' = Founded
<1>1. Positions' = Positions /\ (plan = <<>> => Positions = {})
  BY DEF Positions
<1>2. Scheduled'
  BY <1>1 DEF Inv, Scheduled, schedule, progress
<1>3. Stepwise'
  <2>1. CASE types' = types
    BY <2>1, StepsKept DEF Inv
  <2>2. CASE plan = <<>>
    BY <1>1, <2>2 DEF Stepwise
  <2>3. QED
    BY <2>1, <2>2
<1>4. DependenciesFirst' /\ ForcedOnlyIfStuck'
  BY OrderKept DEF Inv, schedule, progress
<1>5. Founded' = Founded
  BY DEF Founded, Evidence, progress
<1>6. QED
  BY <1>1, <1>2, <1>3, <1>4, <1>5

\* The verdict on what the steps that are done have found.
LEMMA Concludes ==
  ASSUME Inv, stage = "fuse", Conclude, rounds' \in 0..MaxRounds,
         confident' \in BOOLEAN, rounds' > 0 => Founded # {},
         UNCHANGED <<types, plan, schedule, progress, collected>>
  PROVE  Inv'
<1>1. /\ Scheduled' /\ Stepwise' /\ DependenciesFirst' /\ ForcedOnlyIfStuck'
      /\ Positions' = Positions /\ Founded' = Founded
  BY ExplorationKept
<1>2. rest = {} /\ wave = {} /\ collected = {p \in Positions : at[p] = "done"}
  BY DEF Inv, Staged, Scheduled
<1>3. /\ stage' = "over"
      /\ status' \in {"success", "partial", "needs_more_info"}
      /\ status' \in {"success", "partial"} => Founded # {}
      /\ status' = "needs_more_info" => Founded = {} /\ rounds' = 0
  <2>1. rounds' \in Nat
    BY RoundsAssumption
  <2>2. QED
    BY <2>1 DEF Conclude, Verdict
<1>4. TypeOK'
  BY <1>1, <1>3 DEF Inv, TypeOK, schedule, progress
<1>5. Staged'
  BY <1>1, <1>2, <1>3 DEF Staged, schedule
<1>6. VerdictIsFounded'
  <2>1. ASSUME status' \in {"success", "partial"}
        PROVE  \E p \in Positions : at[p] = "done" /\ Evidence(p) # {}
    BY <1>2, <1>3, <2>1 DEF Founded
  <2>2. ASSUME status' = "needs_more_info", NEW p \in Positions, at[p] = "done"
        PROVE  rounds' = 0 /\ \A b \in Branches : found[p][b] = {}
    <3>1. Evidence(p) = {}
      BY <1>2, <1>3, <2>2 DEF Founded
    <3>2. QED
      BY <1>3, <2>2, <3>1, NothingIsLost DEF Inv, Stepwise
  <2>3. QED
    BY <1>1, <2>1, <2>2 DEF VerdictIsFounded, Evidence, progress
<1>7. QED
  BY <1>1, <1>4, <1>5, <1>6 DEF Inv

\* A step that only changes the stage, or fails the agent.
LEMMA StageChanges ==
  ASSUME Inv, UNCHANGED <<plan, schedule, progress, collected, fusion>>,
         types' = types \/ plan = <<>>,
         types' \in [Branches -> Strategies],
         \/ stage = "classify" /\ stage' = "decompose" /\ status' = status
         \/ /\ stage = "explore" /\ stage' = "fuse" /\ status' = status
            /\ wave = {} /\ rest = {}
         \/ stage' = "over" /\ status' = "error"
  PROVE  Inv'
<1>1. /\ Scheduled' /\ Stepwise' /\ DependenciesFirst' /\ ForcedOnlyIfStuck'
      /\ Positions' = Positions /\ Founded' = Founded
  BY ExplorationKept
<1>2. TypeOK'
  BY <1>1 DEF Inv, TypeOK, schedule, progress, fusion
<1>3. Staged'
  BY <1>1, RoundsAssumption DEF Inv, Staged, schedule, fusion
<1>4. VerdictIsFounded'
  BY DEF VerdictIsFounded
<1>5. QED
  BY <1>1, <1>2, <1>3, <1>4 DEF Inv

LEMMA Fuses ==
  ASSUME Inv, NothingToFuse \/ FuseRound \/ FuseFails \/ BadFusion
  PROVE  Inv'
<1>1. rounds \in 0..MaxRounds /\ confident \in BOOLEAN
  BY DEF Inv, TypeOK
<1>2. CASE NothingToFuse
  BY <1>1, <1>2, Concludes DEF NothingToFuse, fusion
<1>3. CASE FuseRound
  <2>1. /\ stage = "fuse" /\ Founded # {} /\ rounds' = rounds + 1
        /\ rounds' \in 0..MaxRounds /\ confident' \in BOOLEAN
        /\ UNCHANGED <<types, plan, schedule, progress, collected>>
    BY <1>1, <1>3, RoundsAssumption DEF FuseRound, Inv, Staged
  <2>2. CASE Conclude
    BY <2>1, <2>2, Concludes
  <2>3. CASE rounds' < MaxRounds /\ UNCHANGED <<stage, status>>
    <3>1. /\ Scheduled' /\ Stepwise' /\ DependenciesFirst'
          /\ ForcedOnlyIfStuck' /\ Positions' = Positions /\ Founded' = Founded
      BY <2>1, ExplorationKept
    <3>2. TypeOK'
      BY <2>1, <2>3, <3>1 DEF Inv, TypeOK, schedule, progress
    <3>3. Staged'
      BY <2>1, <2>3, <3>1 DEF Inv, Staged, schedule
    <3>4. VerdictIsFounded'
      BY <2>1, <2>3 DEF VerdictIsFounded
    <3>5. QED
      BY <3>1, <3>2, <3>3, <3>4 DEF Inv
  <2>4. QED
    BY <1>3, <2>2, <2>3 DEF FuseRound
<1>4. CASE FuseFails
  BY <1>1, <1>4, Concludes DEF FuseFails, fusion
<1>5. CASE BadFusion
  BY <1>5, StageChanges DEF BadFusion, Raise, Inv, TypeOK
<1>6. QED
  BY <1>2, <1>3, <1>4, <1>5

\* The schedule, the steps and the verdict stay sound, whatever plan is
\* proposed and however the answers of the retrievers interleave.
THEOREM Invariance == Spec => []Inv
<1>1. Init => Inv
  BY Initially
<1>2. Inv /\ [Next]_vars => Inv'
  <2> SUFFICES ASSUME Inv, [Next]_vars PROVE Inv'
    OBVIOUS
  <2>1. CASE Classify
    <3>1. plan = <<>>
      BY <2>1 DEF Classify, Inv, Staged
    <3>2. types' \in [Branches -> Strategies]
      BY <2>1 DEF Classify, TypeStrategies, Branches, Strategies
    <3>3. QED
      BY <2>1, <3>1, <3>2, StageChanges DEF Classify
  <2>2. CASE RouteSimple
    BY <2>2, PlanIsTaken DEF RouteSimple
  <2>3. CASE Decompose
    BY <2>3, PlanIsTaken DEF Decompose
  <2>4. CASE BadPlan
    BY <2>4, StageChanges DEF BadPlan, Raise, Inv, TypeOK
  <2>5. CASE NextWave
    BY <2>5, WaveStarts
  <2>6. CASE EndWave
    BY <2>6, WaveEnds
  <2>7. CASE EndExplore
    BY <2>7, StageChanges DEF EndExplore, Inv, TypeOK
  <2>8. CASE \E p \in wave : Answer(p) \/ StepFails(p)
    BY <2>8, StepAnswers, StepGivesUp
  <2>9. CASE NothingToFuse \/ FuseRound \/ FuseFails \/ BadFusion
    BY <2>9, Fuses
  <2>10. CASE UNCHANGED vars
    <3>1. /\ Scheduled' /\ Stepwise' /\ DependenciesFirst'
          /\ ForcedOnlyIfStuck' /\ Positions' = Positions /\ Founded' = Founded
      BY <2>10, ExplorationKept DEF vars
    <3>2. TypeOK' /\ Staged' /\ VerdictIsFounded'
      BY <2>10, <3>1 DEF vars, schedule, progress, fusion, Inv, TypeOK, Staged,
         VerdictIsFounded, Evidence
    <3>3. QED
      BY <3>1, <3>2 DEF Inv
  <2>11. QED
    BY <2>1, <2>2, <2>3, <2>4, <2>5, <2>6, <2>7, <2>8, <2>9, <2>10 DEF Next
<1>3. QED
  BY <1>1, <1>2, PTL DEF Spec

\* The agent's state is well typed; fusion makes no more than MaxRounds rounds.
THEOREM TypeCorrect == Spec => []TypeOK
BY Invariance, PTL DEF Inv

\* A step runs after the steps it depends on, unless the plan cannot be
\* ordered.
THEOREM StepsAreOrdered == Spec => []DependenciesFirst
BY Invariance, PTL DEF Inv

\* Steps are put into the last wave together only if none of them was ready.
THEOREM OrderIsKeptIfThereIsOne == Spec => []ForcedOnlyIfStuck
BY Invariance, PTL DEF Inv

\* Every step of the plan has ended when the agent fuses and answers, and
\* the results of just those that succeeded have been collected.
THEOREM EveryStepIsTakenUp == Spec => []EveryStepCounts
<1>1. Inv => EveryStepCounts
  BY DEF Inv, TypeOK, Staged, Scheduled, EveryStepCounts, Ended
<1>2. QED
  BY <1>1, Invariance, PTL

\* Going back to the fallback strategy never costs a step its evidence.
THEOREM BacktrackingIsSafe == Spec => []BacktrackingNeverWorsens
<1>1. Inv => BacktrackingNeverWorsens
  BY NothingIsLost DEF Inv, Stepwise, BacktrackingNeverWorsens
<1>2. QED
  BY <1>1, Invariance, PTL

\* A step with poor results has tried all that it was given to try.
THEOREM PoorStepsBacktrack == Spec => []PoorResultsAreRetried
<1>1. Inv => PoorResultsAreRetried
  BY DEF Inv, TypeOK, Stepwise, StepInv, Backtracks, PoorResultsAreRetried, Branches
<1>2. QED
  BY <1>1, Invariance, PTL

\* Success and partial success rest on evidence; more information is asked
\* for only when no step has found any.
THEOREM VerdictsAreFounded == Spec => []VerdictIsFounded
BY Invariance, PTL DEF Inv

----------------------------------------------------------------------------
(* Retrieval implements TreeExploration. *)

LifeMap == [p \in Positions |-> Life(p)]

\* Where a step is, as the tree explorer's promise sees it.
LEMMA LifeOf ==
  ASSUME TypeOK, NEW p \in Positions
  PROVE  /\ Life(p) \in {"waiting", "returned", "raised"} \cup Branches
         /\ Life(p) = "waiting" <=> at[p] = "waiting"
         /\ Life(p) = "returned" <=> at[p] = "done"
         /\ Life(p) = "raised" <=> at[p] = "failed"
         /\ at[p] \in Sources => Life(p) = branch[p]
  BY DEF TypeOK, Life, Sources, Ended, Branches

\* The initial states map to initial states of TreeExploration.
LEMMA InitMaps == Init => T!Init
<1> SUFFICES ASSUME Init PROVE T!Init
  OBVIOUS
<1>1. Positions = {}
  BY DEF Init, Positions
<1> QED
  BY <1>1 DEF Init, T!Init, Phase

\* What is mapped stays if the steps and their schedule do.
LEMMA LifeUnmoved ==
  ASSUME UNCHANGED <<plan, progress, wave, collected>>
  PROVE  LifeMap' = LifeMap
  BY DEF LifeMap, Life, progress, Positions

\* One step moves on, and the others are left alone.
LEMMA LifeMoves ==
  ASSUME TypeOK, plan' = plan, NEW p \in Positions,
         \A q \in Positions \ {p} : at'[q] = at[q] /\ branch'[q] = branch[q]
  PROVE  LifeMap' = [LifeMap EXCEPT ![p] = Life(p)']
<1>1. Positions' = Positions
  BY DEF Positions
<1>2. \A q \in Positions \ {p} : Life(q)' = Life(q)
  BY DEF Life
<1> QED
  BY <1>1, <1>2 DEF LifeMap

\* Steps are explored only while the agent explores: a step whose failure ends
\* the agent leaves no sibling behind.
AtRest == stage # "explore" => \A p \in Positions : at[p] \notin Sources

LEMMA RestKept ==
  ASSUME Inv, AtRest, [Next]_vars
  PROVE  AtRest'
<1>1. \A p \in Positions \ wave : at[p] \notin Sources
  BY DEF Inv, Scheduled, Sources, Ended
<1>2. wave \subseteq Positions /\ at \in [Positions -> {"waiting"} \cup Sources \cup Ended]
  BY DEF Inv, TypeOK
<1>3. CASE stage' = "explore"
  BY <1>3 DEF AtRest
<1>4. CASE /\ plan' = plan /\ at' = at
           /\ stage = "explore" => stage' = "explore" \/ wave = {}
  BY <1>1, <1>4 DEF AtRest, Positions
<1>5. ASSUME NEW p \in wave, StepFails(p)
      PROVE  AtRest'
  <2>1. /\ at[p] \in Sources /\ plan' = plan /\ at' = [at EXCEPT ![p] = "failed"]
        /\ wave = {p} \/ stage' = stage
    BY <1>5 DEF StepFails, MayFail, Sources
  <2>2. CASE wave = {p}
    BY <1>1, <1>2, <2>1, <2>2 DEF AtRest, Positions, Sources
  <2>3. CASE stage' = stage
    BY <1>2, <1>3, <2>1, <2>3 DEF AtRest
  <2> QED
    BY <2>1, <2>2, <2>3
<1>6. ASSUME NEW p \in wave, Answer(p)
      PROVE  AtRest'
  BY <1>2, <1>3, <1>6 DEF Answer, AtRest
<1>7. CASE Classify \/ BadPlan \/ EndWave \/ EndExplore \/ NothingToFuse \/ FuseRound
           \/ FuseFails \/ BadFusion \/ UNCHANGED vars
  BY <1>4, <1>7 DEF Classify, BadPlan, EndWave, EndExplore, NothingToFuse, FuseRound,
     FuseFails, BadFusion, Raise, vars, progress
<1>8. CASE RouteSimple \/ Decompose \/ NextWave
  BY <1>3, <1>8 DEF RouteSimple, Decompose, Explore, NextWave, Launch
<1> QED
  BY <1>5, <1>6, <1>7, <1>8 DEF Next

LEMMA RunningExplores == Spec => []AtRest
<1>1. Init => AtRest
  BY DEF Init, AtRest, Positions
<1>2. Inv /\ AtRest /\ [Next]_vars => AtRest'
  BY RestKept
<1> QED
  BY <1>1, <1>2, Invariance, PTL DEF Spec

\* A wave starts with the primary strategy of each of its steps.
LEMMA LaunchMaps ==
  ASSUME Inv, NextWave
  PROVE  T!Launch
<1>1. /\ stage = "explore" /\ stage' = stage /\ wave = {} /\ rest # {}
      /\ wave' \subseteq rest /\ wave' # {} /\ Launch(wave')
  BY DEF NextWave, Launch, Ready
<1>2. /\ plan' = plan /\ branch' = branch /\ collected' = collected
      /\ status' = status /\ Positions' = Positions
  BY <1>1 DEF Launch, Positions
<1>3. \A p \in rest : p \in Positions /\ at[p] = "waiting" /\ branch[p] = "primary"
  BY DEF Inv, TypeOK, Scheduled, Stepwise, StepInv
<1>4. \A p \in Positions : at'[p] = IF p \in wave'
                                    THEN FirstSource(Resolve(p, "primary"))
                                    ELSE at[p]
  BY <1>1 DEF Launch
<1>5. \A p \in Positions : Life(p)' = IF p \in wave' THEN "primary" ELSE Life(p)
  BY <1>1, <1>2, <1>3, <1>4 DEF Life, FirstSource
<1>6. wave' \in (SUBSET {p \in Positions : Life(p) = "waiting"}) \ {{}}
  BY <1>1, <1>3 DEF Life
<1>7. Phase = "exploring" /\ Phase' = Phase
  BY <1>1, <1>2 DEF Phase
<1>8. DOMAIN LifeMap = Positions /\ \A p \in Positions : LifeMap[p] = Life(p)
  BY DEF LifeMap
<1>9. LifeMap' = [p \in Positions |-> IF p \in wave' THEN "primary" ELSE LifeMap[p]]
  BY <1>2, <1>5, <1>8 DEF LifeMap
<1>10. wave' \in (SUBSET {p \in DOMAIN LifeMap : LifeMap[p] = "waiting"}) \ {{}}
  BY <1>6, <1>8
<1> QED
  BY <1>1, <1>2, <1>7, <1>8, <1>9, <1>10
  DEF T!Launch, T!Waiting, T!Steps, LifeMap

\* A retriever's answer leaves a step where it is, sends it back to the
\* fallback, or ends it.
LEMMA AnswerMaps ==
  ASSUME Inv, AtRest, NEW p \in wave, Answer(p)
  PROVE  UNCHANGED T!vars \/ T!Retry(p) \/ T!Return(p)
<1>1. /\ p \in Positions /\ TypeOK /\ at[p] \in Sources /\ plan' = plan
      /\ UNCHANGED <<stage, status, wave, collected>>
  BY DEF Answer, schedule, Inv, TypeOK
<1>2. \/ \E w \in Sources : at' = [at EXCEPT ![p] = w] /\ branch' = branch
      \/ /\ branch[p] = "primary" /\ branch' = [branch EXCEPT ![p] = "fallback"]
         /\ \E w \in Sources : at' = [at EXCEPT ![p] = w]
      \/ at' = [at EXCEPT ![p] = "done"] /\ branch' = branch
  BY DEF Answer, NextSource, FirstSource, Sources, Backtracks
<1>3. /\ at \in [Positions -> {"waiting"} \cup Sources \cup Ended]
      /\ branch \in [Positions -> Branches]
  BY <1>1 DEF TypeOK
<1>4. \A q \in Positions \ {p} : at'[q] = at[q] /\ branch'[q] = branch[q]
  BY <1>2, <1>3
<1>5. LifeMap' = [LifeMap EXCEPT ![p] = Life(p)']
  BY <1>1, <1>4, LifeMoves
<1>6. Life(p) = branch[p] /\ Life(p) \in Branches
  BY <1>1, <1>3, LifeOf
<1>7. \/ Life(p)' = Life(p)
      \/ Life(p) = "primary" /\ Life(p)' = "fallback"
      \/ Life(p)' = "returned"
  <2>1. CASE \E w \in Sources : at' = [at EXCEPT ![p] = w] /\ branch' = branch
    BY <2>1, <1>1, <1>3, <1>6 DEF Life, Sources
  <2>2. CASE /\ branch[p] = "primary" /\ branch' = [branch EXCEPT ![p] = "fallback"]
             /\ \E w \in Sources : at' = [at EXCEPT ![p] = w]
    BY <2>2, <1>1, <1>3, <1>6 DEF Life, Sources
  <2>3. CASE at' = [at EXCEPT ![p] = "done"]
    BY <2>3, <1>1, <1>3 DEF Life
  <2> QED
    BY <1>2, <2>1, <2>2, <2>3
<1>8. Phase = "exploring" /\ Phase' = Phase
  BY <1>1 DEF AtRest, Phase
<1>9. LifeMap[p] = Life(p) /\ DOMAIN LifeMap = Positions
  BY <1>1 DEF LifeMap
<1>10. CASE Life(p)' = Life(p)
  <2>1. LifeMap' = LifeMap
    BY <1>5, <1>9, <1>10, LifeMap = [q \in Positions |-> LifeMap[q]] DEF LifeMap
  <2> QED
    BY <1>1, <1>8, <2>1 DEF T!vars, LifeMap
<1>11. CASE Life(p) = "primary" /\ Life(p)' = "fallback"
  BY <1>1, <1>5, <1>8, <1>9, <1>11 DEF T!Retry, LifeMap
<1>12. CASE Life(p)' = "returned"
  BY <1>1, <1>5, <1>6, <1>8, <1>9, <1>12 DEF T!Return, T!Trying, Branches, LifeMap
<1> QED
  BY <1>7, <1>10, <1>11, <1>12

\* A step that fails ends, and the agent with it if it was alone.
LEMMA FailureMaps ==
  ASSUME Inv, AtRest, NEW p \in wave, StepFails(p)
  PROVE  T!Raise(p)
<1>1. /\ p \in Positions /\ TypeOK /\ at[p] \in Sources /\ plan' = plan
      /\ at' = [at EXCEPT ![p] = "failed"] /\ branch' = branch
      /\ UNCHANGED <<wave, collected>>
      /\ \/ wave = {p} /\ stage' = "over" /\ status' = "error"
         \/ wave # {p} /\ UNCHANGED <<stage, status>>
  BY DEF StepFails, MayFail, Raise, Sources, schedule, Inv, TypeOK
<1>2. /\ at \in [Positions -> {"waiting"} \cup Sources \cup Ended]
      /\ branch \in [Positions -> Branches]
  BY <1>1 DEF TypeOK
<1>3. LifeMap' = [LifeMap EXCEPT ![p] = "raised"]
  <2>1. \A q \in Positions \ {p} : at'[q] = at[q] /\ branch'[q] = branch[q]
    BY <1>1, <1>2
  <2>2. Life(p)' = "raised"
    BY <1>1, <1>2 DEF Life
  <2> QED
    BY <1>1, <2>1, <2>2, LifeMoves
<1>4. Life(p) \in Branches /\ LifeMap[p] = Life(p)
  BY <1>1, <1>2, LifeOf DEF LifeMap
<1>6. stage = "explore"
  BY <1>1 DEF AtRest
<1>7. Phase = "exploring" /\ Phase' = IF wave = {p} THEN "failed" ELSE Phase
  BY <1>1, <1>6 DEF Phase
<1> QED
  BY <1>1, <1>3, <1>4, <1>7 DEF T!Raise, T!Trying, Branches, LifeMap

\* Every step maps to a step of TreeExploration or to a stutter.
LEMMA NextMaps == Inv /\ AtRest /\ [Next]_vars => [T!Next]_(T!vars)
<1> SUFFICES ASSUME Inv, AtRest, [Next]_vars PROVE [T!Next]_(T!vars)
  OBVIOUS
<1>1. /\ stage \in {"classify", "decompose", "explore", "fuse", "over"}
      /\ stage \in {"classify", "decompose"} => Positions = {}
      /\ stage = "fuse" => Phase = "explored"
  BY DEF Inv, TypeOK, Staged, Positions, Phase
<1>2. CASE UNCHANGED <<plan, progress, wave, collected>> /\ Phase' = Phase
  BY <1>2, LifeUnmoved DEF T!vars, LifeMap
<1>3. CASE /\ UNCHANGED <<plan, progress, wave, collected>>
           /\ Phase \in {"planning", "explored"} /\ Phase' = "failed"
  BY <1>3, LifeUnmoved DEF T!Next, T!Fail, LifeMap
<1>4. ASSUME stage \in {"classify", "decompose"},
             NEW steps \in Plans \cup {SingleStep}, Explore(steps)
      PROVE  T!Next
  <2>1. steps \in Seq(Step) /\ DOMAIN steps = 1..Len(steps)
    <3>1. steps \in Seq(Step)
      BY StepsAreTyped
    <3> QED
      BY <3>1
  <2>2. /\ Positions' = 1..Len(steps) /\ \A p \in 1..Len(steps) : Life(p)' = "waiting"
        /\ UNCHANGED <<wave, collected>>
    BY <1>4, <2>1 DEF Explore, Positions, Life
  <2>3. Phase = "planning" /\ Phase' = "exploring"
    BY <1>4 DEF Explore, Phase
  <2>4. LifeMap' = [p \in 1..Len(steps) |-> "waiting"]
    BY <2>2 DEF LifeMap
  <2>5. Len(steps) \in {Len(s) : s \in Plans \cup {SingleStep}}
    OBVIOUS
  <2>6. T!Plan
    BY <2>2, <2>3, <2>4, <2>5 DEF T!Plan, LifeMap
  <2> QED
    BY <2>6 DEF T!Next
<1>5. CASE Classify
  BY <1>2, <1>5 DEF Classify, schedule, Phase
<1>6. CASE RouteSimple \/ Decompose
  BY <1>4, <1>6 DEF RouteSimple, Decompose
<1>7. CASE BadPlan
  BY <1>3, <1>7 DEF BadPlan, Raise, schedule, Phase
<1>8. CASE NextWave
  BY <1>8, LaunchMaps DEF T!Next
<1>9. CASE EndWave
  <2>1. /\ Phase = "exploring" /\ Phase' = Phase /\ Positions' = Positions
        /\ UNCHANGED <<plan, progress>>
        /\ wave # {} /\ wave' = {} /\ wave \subseteq Positions
        /\ \A p \in wave : at[p] \in Ended
        /\ collected' = collected \cup {p \in wave : at[p] = "done"}
    BY <1>9 DEF EndWave, Phase, Positions, Inv, TypeOK
  <2>2. LifeMap' = LifeMap
    BY <2>1 DEF LifeMap, Life, progress
  <2>3. \A p \in wave : /\ LifeMap[p] = "returned" <=> at[p] = "done"
                       /\ LifeMap[p] \in T!Over
    BY <2>1 DEF LifeMap, Life, Ended, T!Over
  <2>4. collected' = collected \cup {p \in wave : LifeMap[p] = "returned"}
    BY <2>1, <2>3
  <2>5. T!Collect
    BY <2>1, <2>2, <2>3, <2>4 DEF T!Collect, LifeMap
  <2> QED
    BY <2>5 DEF T!Next
<1>10. CASE EndExplore
  <2>1. /\ Phase = "exploring" /\ Phase' = "explored" /\ wave = {} /\ rest = {}
        /\ UNCHANGED <<plan, progress, wave, collected>>
    BY <1>10 DEF EndExplore, Phase, schedule
  <2>2. LifeMap' = LifeMap
    BY <2>1, LifeUnmoved
  <2>3. {p \in DOMAIN LifeMap : LifeMap[p] = "waiting"} = {}
    BY <2>1, LifeOf DEF LifeMap, Inv, Scheduled
  <2>4. T!Finish
    BY <2>1, <2>2, <2>3 DEF T!Finish, T!Waiting, T!Steps, LifeMap
  <2> QED
    BY <2>4 DEF T!Next
<1>11. CASE \E p \in wave : Answer(p) \/ StepFails(p)
  BY <1>11, AnswerMaps, FailureMaps DEF T!Next
<1>12. CASE NothingToFuse \/ FuseRound \/ FuseFails
  <2>1. stage = "fuse" /\ UNCHANGED <<plan, progress, wave, collected>>
    BY <1>12 DEF NothingToFuse, FuseRound, FuseFails, schedule
  <2>2. \/ stage' = "fuse"
        \/ stage' = "over" /\ status' \in {"success", "partial", "needs_more_info"}
    BY <1>12, <2>1 DEF NothingToFuse, FuseRound, FuseFails, Conclude, Verdict
  <2>3. Phase' = "explored"
    BY <2>2 DEF Phase
  <2> QED
    BY <1>1, <1>2, <2>1, <2>3
<1>13. CASE BadFusion
  BY <1>1, <1>3, <1>13 DEF BadFusion, Raise, schedule, Phase
<1>14. CASE UNCHANGED vars
  BY <1>2, <1>14 DEF vars, schedule, Phase
<1> QED
  BY <1>5, <1>6, <1>7, <1>8, <1>9, <1>10, <1>11, <1>12, <1>13, <1>14 DEF Next

\* The agent explores the steps of any plan as the tree explorer promises.
THEOREM ImplementsTreeExploration == Spec => ExploresTheTree
  BY RunningExplores, InitMaps, NextMaps, Invariance, PTL
  DEF Spec, ExploresTheTree, T!Spec

----------------------------------------------------------------------------
(* Every step brings the answer nearer. *)

Progress ==
  \/ Place[stage'] > Place[stage]
  \/ stage' = stage /\ rest' \subseteq rest /\ rest' # rest
  \/ /\ UNCHANGED <<stage, rest>>
     /\ \/ wave # {} /\ wave' = {}
        \/ /\ UNCHANGED <<wave, rounds>>
           /\ \E p \in wave : /\ Rung(p)' > Rung(p)
                            /\ \A q \in wave \ {p} : Rung(q)' = Rung(q)
        \/ wave' = wave /\ rounds' = rounds + 1 /\ rounds' <= MaxRounds

\* A retriever that is asked after another comes later within its branch.
LEMMA TurnsAscend ==
  ASSUME NEW strategy, NEW source \in Sources, NEW got,
         NextSource(strategy, source, got) # "none"
  PROVE  /\ NextSource(strategy, source, got) \in Sources
         /\ Turn[NextSource(strategy, source, got)] > Turn[source]
  BY DEF NextSource, Sources, Turn

\* A step that waits for a retriever is below the last rung.
LEMMA RungOfTrying ==
  ASSUME NEW p, at[p] \in Sources
  PROVE  Rung(p) \in 0..7
<1>1. /\ at[p] \notin Ended
      /\ Turn[at[p]] \in 0..3
  BY DEF Sources, Turn, Ended
<1>2. Rung(p) = 4 + Turn[at[p]] \/ Rung(p) = Turn[at[p]]
  BY <1>1 DEF Rung
<1> QED
  BY <1>1, <1>2

\* An answer takes its step further, whether another retriever is asked, the
\* fallback is tried or the step is done.
LEMMA AnswerClimbs ==
  ASSUME Inv, NEW p \in wave, Answer(p)
  PROVE  Progress
<1>1. /\ p \in Positions /\ at[p] \in Sources /\ branch[p] \in Branches
      /\ UNCHANGED <<stage, rest, wave, rounds>> /\ wave \subseteq Positions
      /\ at \in [Positions -> {"waiting"} \cup Sources \cup Ended]
      /\ branch \in [Positions -> Branches]
  BY DEF Answer, schedule, fusion, Inv, TypeOK
<1>2. \/ \E w \in Sources : /\ at' = [at EXCEPT ![p] = w] /\ branch' = branch
                           /\ Turn[w] > Turn[at[p]]
      \/ /\ branch[p] = "primary" /\ branch' = [branch EXCEPT ![p] = "fallback"]
         /\ \E w \in Sources : at' = [at EXCEPT ![p] = w]
      \/ at' = [at EXCEPT ![p] = "done"] /\ branch' = branch
  BY <1>1, TurnsAscend DEF Answer, FirstSource, Sources, Backtracks
<1>3. \A q \in wave \ {p} : Rung(q)' = Rung(q)
  BY <1>1, <1>2 DEF Rung
<1>4. /\ \A s \in Sources : Turn[s] \in 0..3
      /\ \A s \in Sources : s \notin Ended
  BY DEF Sources, Turn, Ended
<1>5. Rung(p)' > Rung(p)
  <2>1. CASE \E w \in Sources : /\ at' = [at EXCEPT ![p] = w] /\ branch' = branch
                               /\ Turn[w] > Turn[at[p]]
    BY <2>1, <1>1, <1>4 DEF Rung
  <2>2. CASE /\ branch[p] = "primary" /\ branch' = [branch EXCEPT ![p] = "fallback"]
             /\ \E w \in Sources : at' = [at EXCEPT ![p] = w]
    BY <2>2, <1>1, <1>4 DEF Rung
  <2>3. CASE at' = [at EXCEPT ![p] = "done"]
    <3>1. Rung(p) \in 0..7
      BY <1>1, RungOfTrying
    <3>2. Rung(p)' = 8
      BY <2>3, <1>1 DEF Rung, Ended
    <3> QED
      BY <3>1, <3>2
  <2> QED
    BY <1>2, <2>1, <2>2, <2>3
<1> QED
  BY <1>1, <1>3, <1>5 DEF Progress

\* So does a failure.
LEMMA FailureClimbs ==
  ASSUME Inv, AtRest, NEW p \in wave, StepFails(p)
  PROVE  Progress
<1>1. /\ p \in Positions /\ at[p] \in Sources /\ branch[p] \in Branches
      /\ wave \subseteq Positions /\ UNCHANGED <<rest, wave, rounds>>
      /\ at \in [Positions -> {"waiting"} \cup Sources \cup Ended]
      /\ at' = [at EXCEPT ![p] = "failed"] /\ branch' = branch
      /\ stage' = "over" \/ stage' = stage
  BY DEF StepFails, MayFail, Raise, Sources, schedule, fusion, Inv, TypeOK
<1>2. CASE stage' = "over"
  BY <1>1, <1>2 DEF AtRest, Progress, Place
<1>3. CASE stage' = stage
  <2>1. \A q \in wave \ {p} : Rung(q)' = Rung(q)
    BY <1>1 DEF Rung
  <2>2. Rung(p) \in 0..7
    BY <1>1, RungOfTrying
  <2>3. Rung(p)' = 8
    BY <1>1 DEF Rung, Ended
  <2> QED
    BY <1>1, <1>3, <2>1, <2>2, <2>3 DEF Progress
<1> QED
  BY <1>1, <1>2, <1>3

LEMMA StepsProgress == Inv /\ AtRest /\ [Next]_vars => [Progress]_vars
<1> SUFFICES ASSUME Inv, AtRest, Next PROVE Progress
  OBVIOUS
<1>1. CASE Classify \/ RouteSimple \/ Decompose \/ BadPlan \/ EndExplore
           \/ NothingToFuse \/ FuseFails \/ BadFusion
  BY <1>1 DEF Classify, RouteSimple, Decompose, BadPlan, EndExplore, NothingToFuse,
     FuseFails, BadFusion, Explore, Raise, Conclude, Progress, Place
<1>2. CASE NextWave
  BY <1>2 DEF NextWave, Launch, Ready, Progress
<1>3. CASE EndWave
  BY <1>3 DEF EndWave, Progress
<1>4. CASE \E p \in wave : Answer(p) \/ StepFails(p)
  BY <1>4, AnswerClimbs, FailureClimbs
<1>5. CASE FuseRound
  <2>1. rounds < MaxRounds /\ rounds \in Nat /\ MaxRounds \in Nat
    BY <1>5, RoundsAssumption DEF FuseRound, Inv, Staged, TypeOK
  <2> QED
    BY <1>5, <2>1 DEF FuseRound, Conclude, Progress, Place, schedule
<1> QED
  BY <1>1, <1>2, <1>3, <1>4, <1>5 DEF Next

\* Whatever the plan and the answers, no run of the agent goes on for ever:
\* each of its steps is progress towards its verdict.
THEOREM RetrievalProgresses == Spec => EveryStepIsProgress
  BY RunningExplores, Invariance, StepsProgress, PTL DEF Spec, EveryStepIsProgress, Progress
=============================================================================
