------------------------------ MODULE Drafting ------------------------------
(***************************************************************************)
(* What one request makes of its evidence: the evidence graph from the     *)
(* first retrieval to the assembled answer.  The generation agent turns    *)
(* the query into proposals and extracts a section for each; the           *)
(* evaluation agent matches the sections with the evidence; a rejected     *)
(* draft is followed by another attempt on the same graph, which is        *)
(* append-only, so the sections of both are judged and delivered together. *)
(*                                                                         *)
(* The agents write into the graph of the state they are given, and        *)
(* BaseAgent.run adds the nodes of their output to it once more: each node *)
(* is written twice under one id, and what an agent has added when it      *)
(* fails stays.  Of retrieval's nodes only the evidence is kept, without   *)
(* the edges among them, which no property here is about.  The supersteps  *)
(* are sequential; the routing of the gateway and of phase_transition is   *)
(* folded into them, and Pipeline has its interleavings, its crashes and   *)
(* its human review.                                                       *)
(*                                                                         *)
(* Retrieval (module Retrieval) and the language model are external: their *)
(* answers come from sets of the instance.  Confidences and scores are     *)
(* ratings: 1 is the 0.3 from which raw evidence grounds a proposal, and   *)
(* the rating of a section with no filled slot; -1 is a score below zero.  *)
(***************************************************************************)
EXTENDS Integers, Sequences, FiniteSets, Functions

CONSTANTS
  Top,             \* the best rating
  Pass,            \* settings.EVALUATION_CONFIDENCE_THRESHOLD, as a rating
  MaxProposals,    \* settings.GENERATION_MAX_PROPOSALS
  MaxRollbacks,    \* PipelineState.max_rollbacks
  MaxPatches,      \* bound: the prompt patches of one evaluation
  Budgets,         \* max_iterations - iteration_count when a request begins
  Finds,           \* the evidence that a retrieval may add
  ProposalReplies, \* the lists of proposals that the model may answer with
  SectionReplies   \* the filled slots that the model may answer with

\* A slot of a section: a value with or without source ids, no value, a list
\* of values of which the best has sources, or a bare text.
SlotKinds == {"cited", "uncited", "void", "list", "bare"}

\* A node has one shape for every content type.  rank is the confidence of its
\* belief; of a proposal it is the priority, where 0 stands for a text.
Node == [kind  : {"raw", "fused", "proposal", "section", "evaluation", "patch"},
         rank  : Nat,
         slots : SUBSET SlotKinds]

Evidence(kind, rank) == [kind |-> kind, rank |-> rank, slots |-> {}]

\* sound: the item is a dict whose fields have the types that are read.
Item == [priority : Nat, sound : BOOLEAN]

SlotReply == [slots : SUBSET SlotKinds, conf : 0..Top]

ASSUME RatingAssumption == Top \in Nat /\ Pass \in 1..Top

ASSUME BoundAssumption ==
  /\ MaxProposals \in Nat \ {0} /\ MaxRollbacks \in Nat /\ MaxPatches \in Nat
  /\ Budgets \subseteq Nat

ASSUME ReplyAssumption ==
  /\ \A f \in Finds :
       f \in Seq({Evidence(k, c) : k \in {"raw", "fused"}, c \in 0..Top})
  /\ ProposalReplies \subseteq Seq(Item)
  /\ SectionReplies \subseteq SlotReply

VARIABLES
  stage,      \* the phase, with the steps within an agent told apart
  left,       \* the agent runs left before the gateway's hard limit
  rollbacks,  \* PipelineState.rollback_count
  nodes,      \* EvidenceGraph.nodes, from ids to nodes: the ids are the
              \* positions in the order of insertion
  edges,      \* EvidenceGraph.edges: <<source, target>>, as ids
  todo,       \* the proposals whose sections are to be extracted, in order
  judgement,  \* the last evaluation, as far as it makes post_validate accept
  answer      \* the final_output

graph == <<nodes, edges>>
vars == <<stage, left, rollbacks, nodes, edges, todo, judgement, answer>>

Positions == DOMAIN nodes
OfKind(kinds) == {i \in Positions : nodes[i].kind \in kinds}
Sources  == OfKind({"raw", "fused"})
Sections == OfKind({"section"})

Rejected == [passed |-> FALSE, sections |-> {}, pairs |-> {}, faithful |-> {}]
NoAnswer == [kind |-> "none", parts |-> <<>>]

-----------------------------------------------------------------------------
(* The evidence graph. *)

\* A plausible bug: ids are numbered within the output of an agent.
LastIdOfAgent == 0

\* A new node gets an id that no other node has had.
LastId == Len(nodes)

\* A plausible bug: nodes that are added get an id of their own each time.
SetNodesAnew(g, out) == g \o [i \in 1..Cardinality(DOMAIN out) |-> out[LastId + i]]

\* add_node: an assignment to a dict, of an old id as of a new one.
SetNodes(g, out) ==
  [i \in DOMAIN g \cup DOMAIN out |-> IF i \in DOMAIN out THEN out[i] ELSE g[i]]

\* New nodes are added by the agent and, at its end, once more by BaseAgent.run.
\* Nobody reads the graph in between but the agent.
Written(new) ==
  LET out == [i \in (LastId + 1)..(LastId + Len(new)) |-> new[i - LastId]]
  IN SetNodes(SetNodes(nodes, out), out)

\* A plausible bug: the edges are kept of a node that is not added.
AddNodeLost(node, parents) ==
  /\ UNCHANGED nodes
  /\ edges' = edges \cup {<<p, LastId + 1>> : p \in parents}

\* add_evidence: a node with an edge from each of its parents.
AddNode(node, parents) ==
  /\ nodes' = Written(<<node>>)
  /\ edges' = edges \cup {<<p, LastId + 1>> : p \in parents}

\* Nodes without parents; the merges add no edges either.
AddAll(new) == nodes' = Written(new) /\ UNCHANGED edges

\* The elements of S in the order of `before': there is one such sequence.
Orders(S, before) ==
  {s \in Bijection(1..Cardinality(S), S) :
     \A i, j \in DOMAIN s : i < j => <<s[i], s[j]>> \in before}

\* A plausible bug: the proposals are sorted like the sections, downwards.
ByPriorityDownwards(g, S) ==
  Orders(S, {p \in S \X S : \/ g[p[1]].rank > g[p[2]].rank
                            \/ g[p[1]].rank = g[p[2]].rank /\ p[1] < p[2]})

\* A stable sort on the rank, upwards; and on the confidence, downwards.
ByPriority(g, S) ==
  Orders(S, {p \in S \X S : \/ g[p[1]].rank < g[p[2]].rank
                            \/ g[p[1]].rank = g[p[2]].rank /\ p[1] < p[2]})
ByConfidence(S) ==
  Orders(S, {p \in S \X S : \/ nodes[p[1]].rank > nodes[p[2]].rank
                            \/ nodes[p[1]].rank = nodes[p[2]].rank /\ p[1] < p[2]})

-----------------------------------------------------------------------------
(* The phases without a model: gateway and helper nodes. *)

Init ==
  /\ stage = "idle" /\ left = 0 /\ rollbacks = 0
  /\ nodes = <<>> /\ edges = {}
  /\ todo = <<>> /\ judgement = Rejected /\ answer = NoAnswer

\* A chat on a session that has used up some of its iterations.
Begin ==
  /\ stage = "idle"
  /\ stage' = "explore"
  /\ left' \in Budgets
  /\ UNCHANGED <<rollbacks, graph, todo, judgement, answer>>

\* A plausible bug: an off-by-one in the gateway's limit.
GiveUpLate ==
  /\ stage \in {"explore", "freeze", "plan", "execute", "validate", "rollback"}
  /\ left < 0
  /\ stage' = "done"
  /\ UNCHANGED <<left, rollbacks, graph, todo, judgement, answer>>

\* The gateway delivers what there is once the iterations are used up.
GiveUp ==
  /\ stage \in {"explore", "freeze", "plan", "execute", "validate", "rollback"}
  /\ left = 0
  /\ stage' = "done"
  /\ UNCHANGED <<left, rollbacks, graph, todo, judgement, answer>>

\* The retrieval agent.
Explore ==
  /\ stage = "explore" /\ left > 0
  /\ \E found \in Finds : AddAll(found)
  /\ stage' = "freeze"
  /\ left' = left - 1
  /\ UNCHANGED <<rollbacks, todo, judgement, answer>>

\* The context manifest and the plan are written; no later step reads them
\* but plan_phase the manifest.
Prepare ==
  /\ stage \in {"freeze", "plan"} /\ left > 0
  /\ stage' = IF stage = "freeze" THEN "plan" ELSE "execute"
  /\ UNCHANGED <<left, rollbacks, graph, todo, judgement, answer>>

\* A plausible bug: a rejected draft is tried again without being counted.
PostValidateUncounted ==
  /\ stage = "judge"
  /\ stage' = IF ~ judgement.passed THEN "explore" ELSE "done"
  /\ UNCHANGED <<left, rollbacks, graph, todo, judgement, answer>>

\* post_validate_transition.
PostValidate ==
  /\ stage = "judge"
  /\ stage' = IF ~ judgement.passed /\ rollbacks < MaxRollbacks
              THEN "rollback" ELSE "done"
  /\ UNCHANGED <<left, rollbacks, graph, todo, judgement, answer>>

\* _rollback_routing: another attempt only if all its agents can still run.
MayRollBack == rollbacks < MaxRollbacks /\ left > 3

RollBack ==
  /\ stage = "rollback" /\ left > 0
  /\ IF MayRollBack
     THEN stage' = "explore" /\ rollbacks' = rollbacks + 1
     ELSE stage' = "done" /\ UNCHANGED rollbacks
  /\ UNCHANGED <<left, graph, todo, judgement, answer>>

-----------------------------------------------------------------------------
(* Execute: the generation agent. *)

Proposal(priority) == [kind |-> "proposal", rank |-> priority, slots |-> {}]

Fallback == <<[priority |-> 1, sound |-> TRUE]>>

Grounds == {i \in OfKind({"raw"}) : nodes[i].rank >= 1}

Cut(items) ==
  SubSeq(items, 1, IF Len(items) < MaxProposals THEN Len(items) ELSE MaxProposals)

\* Without grounds the model is not asked; a call that fails, or an answer
\* that is no list, is replaced by the fallback; a list is cut.
Proposals ==
  {Fallback} \cup
    (IF Grounds = {} THEN {}
     ELSE {Cut(r) : r \in ProposalReplies})

\* The first item whose fields raise when they are read is the one after n.
ReadUpTo(items, n) ==
  /\ \A i \in 1..n : items[i].sound
  /\ n < Len(items) => ~ items[n + 1].sound

\* Texts and numbers cannot be sorted together.
Sortable(items) ==
  \A i, j \in DOMAIN items : items[i].priority = 0 <=> items[j].priority = 0

\* The nodes are added one by one; with an item that raises, with none, and
\* with priorities that cannot be sorted the agent ends with an error.
Propose ==
  /\ stage = "execute" /\ left > 0
  /\ \E items \in Proposals : \E n \in 0..Len(items) :
       /\ ReadUpTo(items, n)
       /\ AddAll([i \in 1..n |-> Proposal(items[i].priority)])
       /\ IF n = Len(items) /\ n > 0 /\ Sortable(items)
          THEN /\ stage' = "extract"
               /\ todo' \in ByPriority(nodes', (LastId + 1)..(LastId + n))
               /\ UNCHANGED left
          ELSE stage' = "validate" /\ left' = left - 1 /\ UNCHANGED todo
  /\ UNCHANGED <<rollbacks, judgement, answer>>

\* The slots that count as filled: a dict with a value, whatever its sources.
Counted == {"cited", "uncited"}
Filled(i) == nodes[i].slots \cap Counted # {}

Section(r) ==
  [kind |-> "section", rank |-> IF r.slots \cap Counted = {} THEN 1 ELSE r.conf,
   slots |-> r.slots]

\* One proposal: an extraction that fails is logged and passed over.
Extract ==
  /\ stage = "extract"
  /\ \/ UNCHANGED graph
     \/ \E r \in SectionReplies : AddNode(Section(r), {Head(todo)})
  /\ todo' = Tail(todo)
  /\ IF Len(todo) > 1
     THEN UNCHANGED <<stage, left>>
     ELSE stage' = "validate" /\ left' = left - 1
  /\ UNCHANGED <<rollbacks, judgement, answer>>

-----------------------------------------------------------------------------
(* Validate: the evaluation agent. *)

\* A plausible bug: every section is paired with its best evidence.
AssignmentsGreedy(S, E) == {{<<s, f[s]>> : s \in S} : f \in [S -> E]}

\* linear_sum_assignment: one to one, and as many pairs as there can be.  As
\* the scores are open, so is which pairs are the best ones.
Assignments(S, E) ==
  IF Cardinality(S) <= Cardinality(E)
  THEN {{<<s, f[s]>> : s \in S} : f \in Injection(S, E)}
  ELSE {{<<f[e], e>> : e \in E} : f \in Injection(E, S)}

\* The mean of the pairs is known up to the range of their scores.
Overall(score) ==
  IF DOMAIN score = {} THEN {0}
  ELSE {v \in -1..Top :
          \E p, q \in DOMAIN score : score[p] <= v /\ v <= score[q]}

\* Nothing is known of a score but that it may be negative, as a cosine is.
Scores(M) == [M -> -1..Top]

Evaluation == [kind |-> "evaluation", rank |-> 0, slots |-> {}]
Patch      == [kind |-> "patch", rank |-> 0, slots |-> {}]

\* A result and n patches.
Results(n) == [i \in 1..(n + 1) |-> IF i = 1 THEN Evaluation ELSE Patch]

Accepted(score) ==
  [passed |-> TRUE, sections |-> Sections, pairs |-> DOMAIN score,
   faithful |-> {p[1] : p \in {q \in DOMAIN score : score[q] >= Pass}}]

\* No belief can have a negative confidence: that of the mean is refused
\* before the node is made, that of a section after it.  Both end the agent
\* with an error, whose output has no score and is rejected.
Judge(score, overall) ==
  LET valid == \A p \in DOMAIN score : score[p] >= 0
  IN \/ overall < 0 /\ UNCHANGED graph /\ judgement' = Rejected
     \/ /\ overall >= Pass
        /\ AddNode(Evaluation, Sections)
        /\ judgement' = IF valid THEN Accepted(score) ELSE Rejected
     \/ /\ overall \in 0..(Pass - 1)
        /\ \E n \in IF valid THEN 0..MaxPatches ELSE {0} :
             nodes' = Written(Results(n))
        /\ edges' = edges \cup {<<s, LastId + 1>> : s \in Sections}
        /\ judgement' = Rejected

Evaluate ==
  /\ stage = "validate" /\ left > 0
  /\ \/ Sections = {} /\ UNCHANGED graph /\ judgement' = Rejected
     \/ /\ Sections # {}
        /\ \E M \in Assignments(Sections, Sources) : \E score \in Scores(M) :
             \E overall \in Overall(score) : Judge(score, overall)
  /\ stage' = "judge"
  /\ left' = left - 1
  /\ UNCHANGED <<rollbacks, todo, answer>>

-----------------------------------------------------------------------------
(* assemble_output. *)

Assemble ==
  /\ stage = "done"
  /\ LET parts == IF Sections # {} THEN Sections ELSE OfKind({"fused"})
     IN answer' \in
          IF parts = {} THEN {[kind |-> "empty", parts |-> <<>>]}
          ELSE IF \E i \in parts : Filled(i)
          THEN {[kind |-> "text", parts |-> order] : order \in ByConfidence(parts)}
          ELSE {[kind |-> "gap", parts |-> <<>>]}
  /\ stage' = "over"
  /\ UNCHANGED <<left, rollbacks, graph, todo, judgement>>

Next == \/ Begin \/ GiveUp \/ Explore \/ Prepare \/ Propose \/ Extract
        \/ Evaluate \/ PostValidate \/ RollBack \/ Assemble

\* Every call an agent awaits returns or fails: the model's calls have a limit
\* of attempts, and the others a timeout.
Spec == Init /\ [][Next]_vars /\ WF_vars(Next)
=============================================================================
