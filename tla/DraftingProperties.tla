------------------------- MODULE DraftingProperties -------------------------
(***************************************************************************)
(* What a request has to keep true of its evidence graph and its answer,   *)
(* whatever the language model replies and whichever step of an agent      *)
(* fails.                                                                  *)
(***************************************************************************)
EXTENDS Drafting

Stages == {"idle", "explore", "freeze", "plan", "execute", "extract",
           "validate", "judge", "rollback", "done", "over"}

\* The variables have their types, and the edges join nodes of the graph
\* (EvidenceGraph.add_edge).
TypeOK ==
  /\ stage \in Stages
  /\ left \in Nat
  /\ rollbacks \in 0..MaxRollbacks
  /\ nodes \in Seq(Node)
  /\ edges \subseteq Positions \X Positions
  /\ todo \in Seq(Positions)
  /\ judgement \in [passed : BOOLEAN, sections : SUBSET Positions,
                    pairs : SUBSET (Positions \X Positions),
                    faithful : SUBSET Positions]
  /\ answer \in [kind : {"none", "empty", "gap", "text"}, parts : Seq(Positions)]

Parents(s) == {p \in Positions : <<p, s>> \in edges}

\* Every section is derived from exactly one proposal, an earlier node, and
\* no proposal has two sections, also when extractions fail, when the agent
\* fails after it has added proposals, and when a draft is tried again
\* (ContentGenerator.generate: one per proposal).
OneSectionPerProposal ==
  /\ \A s \in Sections :
       \E p \in OfKind({"proposal"}) : p < s /\ Parents(s) = {p}
  /\ \A s, t \in Sections : Parents(s) \cap Parents(t) # {} => s = t

\* The sections of one attempt are in the order of their proposals'
\* priorities.  Two sections are of one attempt if the proposal of the later
\* one was there before the earlier one (ContentGenerator.generate sorts).
SectionsInPriorityOrder ==
  \A s, t \in Sections :
    \A p \in Parents(s), q \in Parents(t) :
      s < t /\ q < s => nodes[p].rank <= nodes[q].rank

\* An answer is accepted only on an evaluation of all its sections: as many
\* of them as possible were paired one to one with evidence of the graph, at
\* least one pair reached the threshold, and none failed on the way.  No
\* section is added between the evaluation and the answer, and no evaluation
\* of an earlier attempt is mistaken for it (post_validate_transition).
AcceptedAsJudged ==
  judgement.passed =>
    /\ stage \in {"judge", "done", "over"}
    /\ judgement.sections = Sections
    /\ judgement.pairs \subseteq Sections \X Sources
    /\ \A p, q \in judgement.pairs : p[1] = q[1] <=> p[2] = q[2]
    /\ \/ Sections = {p[1] : p \in judgement.pairs}
       \/ Sources = {p[2] : p \in judgement.pairs}
    /\ judgement.faithful # {}

\* The graph is append-only: no step of any agent, failed or not, removes or
\* changes a node, takes an edge away, or gives an old node a new parent
\* (evidence.py:6).
AppendOnly ==
  [][/\ \A i \in Positions : i \in DOMAIN nodes' /\ nodes'[i] = nodes[i]
     /\ edges \subseteq edges'
     /\ \A e \in edges' \ edges : e[2] \notin Positions]_vars

-----------------------------------------------------------------------------
(* Refinement: the stages within an agent are the phase it runs in. *)

Phase == CASE stage = "extract" -> "execute"
           [] stage = "judge"   -> "validate"
           [] OTHER             -> stage

W == INSTANCE Workflow WITH
       Requests <- {1},
       stage    <- [r \in {1} |-> Phase],
       retries  <- [r \in {1} |-> IF stage = "over" THEN 0 ELSE rollbacks]

\* Whatever fails within the agents, the request goes through the phases in
\* the order gateway.py documents.
FollowsWorkflow == W!Spec

-----------------------------------------------------------------------------
(* Liveness *)

\* Every request is answered: no failure of the model, of a parser or of an
\* evaluation, and no sequence of rejected drafts, keeps it from an answer.
EveryDraftIsAnswered == (stage = "explore") ~> (stage = "over")

\* The place of each stage within an attempt.
Place == [idle |-> 0, explore |-> 1, freeze |-> 2, plan |-> 3, execute |-> 4,
          extract |-> 5, validate |-> 6, judge |-> 7, rollback |-> 8, done |-> 9,
          over |-> 10]

\* Its safety half: every step brings the answer nearer.  A step goes on
\* within the attempt, or takes a proposal off the list of the generation
\* agent, or counts a rollback, of which there are at most MaxRollbacks.
EveryStepIsProgress ==
  [][\/ rollbacks' = rollbacks + 1 /\ rollbacks' <= MaxRollbacks
     \/ /\ rollbacks' = rollbacks
        /\ \/ Place[stage'] > Place[stage]
           \/ stage' = stage /\ Len(todo') < Len(todo)]_vars
=============================================================================
