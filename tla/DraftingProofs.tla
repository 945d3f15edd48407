--------------------------- MODULE DraftingProofs ---------------------------
(***************************************************************************)
(* Proofs about Drafting, for every rating, budget, number of proposals    *)
(* and reply of the model.  All of them rest on one inductive invariant:   *)
(* what is on the list of proposals while sections are extracted has no    *)
(* section yet, is in the order of the priorities, and comes after what    *)
(* has one; what is accepted is what the last evaluation was made of.      *)
(***************************************************************************)
EXTENDS DraftingProperties, FiniteSetTheorems, TLAPS

-----------------------------------------------------------------------------
(* The inductive invariant *)

Proposed == OfKind({"proposal"})

\* An edge leads to a later node.
EdgesForward == \A e \in edges : e[1] < e[2]

\* While sections are extracted the list is not empty, and the agent has yet
\* to be counted.
ListInUse == /\ stage = "extract" => todo # <<>> /\ left > 0
             /\ stage # "extract" => todo = <<>>

\* The list holds proposals without a section, once each and sorted.
ListIsOpen ==
  /\ \A i \in DOMAIN todo :
       /\ todo[i] \in Proposed
       /\ \A s \in Sections : <<todo[i], s>> \notin edges
  /\ \A i, j \in DOMAIN todo :
       i < j => todo[i] # todo[j] /\ nodes[todo[i]].rank <= nodes[todo[j]].rank

\* A section that was written since the list was made is of a proposal that
\* comes before those on it.
ListComesLater ==
  \A s \in Sections, i \in DOMAIN todo : \A p \in Parents(s) :
    todo[i] < s => nodes[p].rank <= nodes[todo[i]].rank

IInv == /\ TypeOK
        /\ EdgesForward
        /\ ListInUse
        /\ ListIsOpen
        /\ ListComesLater
        /\ OneSectionPerProposal
        /\ SectionsInPriorityOrder
        /\ AcceptedAsJudged

\* What it says of the graph and the list alone.
GraphInv == /\ EdgesForward
            /\ ListIsOpen
            /\ ListComesLater
            /\ OneSectionPerProposal
            /\ SectionsInPriorityOrder


-----------------------------------------------------------------------------
(* The graph grows *)

\* What every step that adds to the graph does to it.
Grows(new, E) ==
  /\ nodes' = nodes \o new
  /\ edges' = edges \cup E
  /\ E \subseteq Positions \X {Len(nodes) + 1}
  /\ new = <<>> => E = {}

\* The old nodes stay where they are, and the new ones follow.
LEMMA NodesStay ==
  ASSUME TypeOK, NEW new \in Seq(Node), NEW E, Grows(new, E)
  PROVE  /\ nodes' \in Seq(Node)
         /\ edges' \subseteq Positions' \X Positions'
         /\ \A i \in Positions : i \in Positions' /\ nodes'[i] = nodes[i]
         /\ \A i \in Positions' \ Positions :
              /\ i > Len(nodes) /\ i - Len(nodes) \in DOMAIN new
              /\ nodes'[i] = new[i - Len(nodes)]
         /\ \A e \in E : e \notin edges /\ e[2] \notin Positions
<1>1. nodes \in Seq(Node) /\ edges \subseteq Positions \X Positions
  BY DEF TypeOK
<1>2. /\ nodes' \in Seq(Node) /\ Positions = 1..Len(nodes)
      /\ Len(nodes) \in Nat /\ Len(new) \in Nat
      /\ Len(nodes') = Len(nodes) + Len(new) /\ Positions' = 1..Len(nodes')
  BY <1>1 DEF Grows, Positions
<1>3. \A i \in Positions : i \in Positions' /\ nodes'[i] = nodes[i]
  BY <1>1, <1>2 DEF Grows
<1>4. \A i \in Positions' \ Positions :
        /\ i > Len(nodes) /\ i - Len(nodes) \in DOMAIN new
        /\ nodes'[i] = new[i - Len(nodes)]
  BY <1>1, <1>2 DEF Grows
<1>5. Len(nodes) + 1 \notin Positions
  BY <1>2
<1>6. \A e \in E : e \notin edges /\ e[2] \notin Positions
  BY <1>1, <1>5 DEF Grows
<1>7. E # {} => Len(nodes) + 1 \in Positions'
  BY <1>2 DEF Grows
<1>8. edges' \subseteq Positions' \X Positions'
  BY <1>1, <1>3, <1>7 DEF Grows
<1> QED
  BY <1>2, <1>3, <1>4, <1>6, <1>8

\* No node is lost, changed, or given a new parent.
Kept ==
  /\ \A i \in Positions : i \in DOMAIN nodes' /\ nodes'[i] = nodes[i]
  /\ edges \subseteq edges'
  /\ \A e \in edges' \ edges : e[2] \notin Positions

LEMMA GrowthKeeps ==
  ASSUME TypeOK, NEW new \in Seq(Node), NEW E, Grows(new, E)
  PROVE  Kept
BY NodesStay DEF Kept, Grows, Positions

\* Nodes that are no sections leave the sections as they are.
LEMMA PlainGrowth ==
  ASSUME TypeOK, GraphInv, NEW new \in Seq(Node), NEW E, Grows(new, E),
         \A i \in DOMAIN new : new[i].kind # "section"
  PROVE  /\ Sections' = Sections
         /\ \A s \in Sections : Parents(s)' = Parents(s)
         /\ \A p \in Positions, s \in Sections :
              <<p, s>> \in edges' <=> <<p, s>> \in edges
         /\ Proposed \subseteq Proposed'
         /\ EdgesForward' /\ OneSectionPerProposal' /\ SectionsInPriorityOrder'
<1>1. edges \subseteq Positions \X Positions
  BY DEF TypeOK
<1>2. Sections' = Sections
  BY NodesStay, new \in Seq(Node) DEF Sections, OfKind
<1>3. Proposed \subseteq Proposed'
  BY NodesStay DEF Proposed, OfKind
<1>4. \A s \in Sections : s \in Positions
  BY DEF Sections, OfKind
<1>5. \A p, s : s \in Sections => (<<p, s>> \in edges' <=> <<p, s>> \in edges)
  BY <1>4, NodesStay DEF Grows
<1>6. \A s \in Sections : Parents(s)' = Parents(s)
  BY <1>1, <1>5, NodesStay DEF Parents
<1>7. EdgesForward'
  <2>1. Positions = 1..Len(nodes) /\ Len(nodes) \in Nat
    BY DEF TypeOK, Positions
  <2> QED
    BY <2>1 DEF GraphInv, EdgesForward, Grows
<1>8. OneSectionPerProposal'
  BY <1>2, <1>3, <1>6 DEF GraphInv, OneSectionPerProposal, Proposed
<1>9. SectionsInPriorityOrder'
  <2>1. \A s \in Sections : \A p \in Parents(s) : nodes'[p] = nodes[p]
    BY NodesStay DEF Parents
  <2> QED
    BY <1>2, <1>6, <2>1 DEF GraphInv, SectionsInPriorityOrder
<1> QED
  BY <1>2, <1>3, <1>5, <1>6, <1>7, <1>8, <1>9

\* If the list stays as well, so does all that the invariant says of both.
LEMMA PlainGrowthKeepsList ==
  ASSUME TypeOK, GraphInv, NEW new \in Seq(Node), NEW E, Grows(new, E),
         \A i \in DOMAIN new : new[i].kind # "section", UNCHANGED todo
  PROVE  GraphInv'
<1>1. todo \in Seq(Positions)
  BY DEF TypeOK
<1>2. \A i \in DOMAIN todo : todo[i] \in Positions /\ nodes'[todo[i]] = nodes[todo[i]]
  BY <1>1, NodesStay
<1>3. ListIsOpen'
  BY <1>2, PlainGrowth DEF GraphInv, ListIsOpen
<1>4. ListComesLater'
  <2>1. \A s \in Sections : \A p \in Parents(s) : nodes'[p] = nodes[p]
    BY NodesStay DEF Parents
  <2> QED
    BY <1>2, <2>1, PlainGrowth DEF GraphInv, ListComesLater
<1> QED
  BY <1>3, <1>4, PlainGrowth DEF GraphInv

-----------------------------------------------------------------------------
(* The list of proposals *)

\* What is left of the list, when its head is taken off.
LEMMA TailOfList ==
  ASSUME TypeOK, ListInUse, stage = "extract"
  PROVE  /\ Head(todo) = todo[1] /\ 1 \in DOMAIN todo /\ Head(todo) \in Positions
         /\ Tail(todo) \in Seq(Positions)
         /\ Len(todo) > 1 <=> Tail(todo) # <<>>
         /\ \A i \in DOMAIN Tail(todo) :
              i \in Nat /\ i > 0 /\ i + 1 \in DOMAIN todo /\ Tail(todo)[i] = todo[i + 1]
<1>1. todo \in Seq(Positions) /\ todo # <<>>
  BY DEF TypeOK, ListInUse
<1>2. Len(todo) \in Nat /\ Len(todo) > 0 /\ DOMAIN todo = 1..Len(todo)
  BY <1>1
<1>3. /\ Tail(todo) \in Seq(Positions) /\ Len(Tail(todo)) = Len(todo) - 1
      /\ \A i \in 1..(Len(todo) - 1) : Tail(todo)[i] = todo[i + 1]
  BY <1>1
<1>4. Tail(todo) \in Seq(Positions) /\ DOMAIN Tail(todo) = 1..(Len(todo) - 1)
  BY <1>3
<1>5. Head(todo) = todo[1] /\ 1 \in DOMAIN todo /\ Head(todo) \in Positions
  BY <1>1, <1>2
<1>6. Len(todo) > 1 <=> Tail(todo) # <<>>
  <2>1. \A q \in Seq(Positions) : q = <<>> <=> Len(q) = 0
    OBVIOUS
  <2>2. Tail(todo) = <<>> <=> Len(Tail(todo)) = 0
    BY <2>1, <1>3, Zenon
  <2>3. Len(todo) > 1 <=> Len(Tail(todo)) # 0
    BY <1>1, <1>2
  <2> QED
    BY <2>2, <2>3, Zenon
<1>7. \A i \in DOMAIN Tail(todo) :
        i \in Nat /\ i > 0 /\ i + 1 \in DOMAIN todo /\ Tail(todo)[i] = todo[i + 1]
  BY <1>2, <1>3, <1>4
<1> QED
  BY <1>4, <1>5, <1>6, <1>7, Zenon

\* An extraction that fails takes its proposal off the list.
LEMMA SkipKeepsGraph ==
  ASSUME IInv, stage = "extract", UNCHANGED graph, todo' = Tail(todo)
  PROVE  GraphInv'
<1>1. nodes' = nodes /\ edges' = edges
  BY DEF graph
<1>2. \A i \in DOMAIN todo' :
        i \in Nat /\ i > 0 /\ i + 1 \in DOMAIN todo /\ todo'[i] = todo[i + 1]
  BY TailOfList DEF IInv
<1>3. Sections' = Sections /\ Proposed' = Proposed /\ \A s : Parents(s)' = Parents(s)
  BY <1>1 DEF Sections, Proposed, OfKind, Positions, Parents
<1>4. ListIsOpen'
  <2>1. \A i, j \in DOMAIN todo' : i < j => i + 1 < j + 1
    BY <1>2
  <2> QED
    BY <1>1, <1>2, <1>3, <2>1 DEF IInv, ListIsOpen
<1>5. ListComesLater'
  BY <1>1, <1>2, <1>3 DEF IInv, ListComesLater
<1>6. EdgesForward' /\ OneSectionPerProposal' /\ SectionsInPriorityOrder'
  BY <1>1, <1>3 DEF IInv, EdgesForward, OneSectionPerProposal,
     SectionsInPriorityOrder, Proposed
<1> QED
  BY <1>4, <1>5, <1>6 DEF GraphInv

\* So does one that gives a section, which is the proposal's first.
LEMMA SectionKeepsGraph ==
  ASSUME IInv, stage = "extract", todo' = Tail(todo),
         NEW n \in Node, n.kind = "section",
         NEW h, NEW t, h = Head(todo), t = Len(nodes) + 1,
         Grows(<<n>>, {<<h, t>>})
  PROVE  GraphInv'
<1>1. /\ h = todo[1] /\ 1 \in DOMAIN todo /\ h \in Positions
      /\ \A i \in DOMAIN todo' :
           i \in Nat /\ i > 0 /\ i + 1 \in DOMAIN todo /\ todo'[i] = todo[i + 1]
  BY TailOfList DEF IInv
<1>2. <<n>> \in Seq(Node) /\ DOMAIN <<n>> = {1} /\ <<n>>[1] = n
  OBVIOUS
<1>3. TypeOK
  BY DEF IInv
<1>4. /\ Positions = 1..Len(nodes) /\ Len(nodes) \in Nat
      /\ edges \subseteq Positions \X Positions
  BY <1>3 DEF TypeOK, Positions
<1>5. Positions' = Positions \cup {t} /\ nodes'[t] = n /\ t \notin Positions
  BY <1>2, <1>3, <1>4 DEF Grows, Positions, TypeOK
<1>6. \A i \in Positions : nodes'[i] = nodes[i] /\ i < t /\ i \in Int
  <2>1. \A i \in Positions : nodes'[i] = nodes[i]
    BY <1>2, <1>3, NodesStay
  <2> QED
    BY <2>1, <1>4
<1>7. Sections' = Sections \cup {t} /\ Sections \subseteq Positions
  BY <1>5, <1>6 DEF Sections, OfKind
<1>8. Proposed' = Proposed
  BY <1>5, <1>6 DEF Proposed, OfKind
<1>9. edges' = edges \cup {<<h, t>>}
  BY DEF Grows
<1>10. Parents(t)' = {h} /\ \A s \in Sections : Parents(s)' = Parents(s)
  BY <1>1, <1>4, <1>5, <1>7, <1>9 DEF Parents
<1>11. h \in Proposed /\ \A s \in Sections : h \notin Parents(s)
  BY <1>1 DEF IInv, ListIsOpen, Parents
<1>12. EdgesForward'
  BY <1>1, <1>6, <1>9 DEF IInv, EdgesForward
<1>13. OneSectionPerProposal'
  <2>1. \A s \in Sections' : \E p \in Proposed' : p < s /\ Parents(s)' = {p}
    <3>1. \A s \in Sections : \E p \in Proposed : p < s /\ Parents(s) = {p}
      BY DEF IInv, OneSectionPerProposal, Proposed
    <3>2. h \in Proposed' /\ h < t
      BY <1>1, <1>6, <1>8, <1>11
    <3> QED
      BY <3>1, <3>2, <1>7, <1>8, <1>10
  <2>2. \A s, u \in Sections' : Parents(s)' \cap Parents(u)' # {} => s = u
    <3>1. \A s, u \in Sections : Parents(s) \cap Parents(u) # {} => s = u
      BY DEF IInv, OneSectionPerProposal
    <3> QED
      BY <3>1, <1>7, <1>10, <1>11
  <2> QED
    BY <2>1, <2>2 DEF OneSectionPerProposal, Proposed
<1>14. SectionsInPriorityOrder'
  <2>1. SUFFICES ASSUME NEW s \in Sections', NEW u \in Sections',
                        NEW p \in Parents(s)', NEW q \in Parents(u)', s < u, q < s
                 PROVE  nodes'[p].rank <= nodes'[q].rank
    BY DEF SectionsInPriorityOrder
  <2>2. s \in Sections
    BY <2>1, <1>4, <1>6, <1>7
  <2>3. p \in Parents(s) /\ p \in Positions
    BY <2>2, <1>10 DEF Parents
  <2>4. CASE u \in Sections
    <3>1. q \in Parents(u) /\ q \in Positions
      BY <2>4, <1>10 DEF Parents
    <3> QED
      BY <2>1, <2>2, <2>3, <2>4, <3>1, <1>6 DEF IInv, SectionsInPriorityOrder
  <2>5. CASE u = t
    <3>1. q = todo[1]
      BY <2>5, <1>1, <1>10
    <3> QED
      BY <2>1, <2>2, <2>3, <3>1, <1>1, <1>6 DEF IInv, ListComesLater
  <2> QED
    BY <2>4, <2>5, <1>7
<1>15. ListIsOpen'
  <2>1. \A i \in DOMAIN todo' : todo'[i] # h /\ nodes[h].rank <= nodes[todo'[i]].rank
    BY <1>1 DEF IInv, ListIsOpen
  <2>2. \A i \in DOMAIN todo' :
          /\ todo'[i] \in Proposed'
          /\ \A s \in Sections' : <<todo'[i], s>> \notin edges'
    BY <1>1, <1>4, <1>5, <1>7, <1>8, <1>9, <2>1 DEF IInv, ListIsOpen
  <2>3. \A i, j \in DOMAIN todo' : i < j =>
          todo'[i] # todo'[j] /\ nodes[todo'[i]].rank <= nodes[todo'[j]].rank
    <3>1. \A i, j \in DOMAIN todo' : i < j => i + 1 < j + 1
      BY <1>1
    <3> QED
      BY <1>1, <3>1 DEF IInv, ListIsOpen
  <2>4. \A i \in DOMAIN todo' : todo'[i] \in Positions
    BY <2>2, <1>8 DEF Proposed, OfKind
  <2> QED
    BY <2>2, <2>3, <2>4, <1>6 DEF ListIsOpen
<1>16. ListComesLater'
  <2>1. SUFFICES ASSUME NEW s \in Sections', NEW i \in DOMAIN todo',
                        NEW p \in Parents(s)', todo'[i] < s
                 PROVE  nodes'[p].rank <= nodes'[todo'[i]].rank
    BY DEF ListComesLater
  <2>2. /\ i \in Nat /\ i > 0 /\ i + 1 \in DOMAIN todo /\ todo'[i] = todo[i + 1]
        /\ todo[i + 1] \in Positions
    BY <1>1 DEF IInv, ListIsOpen, Proposed, OfKind
  <2>3. CASE s \in Sections
    <3>1. p \in Parents(s) /\ p \in Positions
      BY <2>3, <1>10 DEF Parents
    <3> QED
      BY <2>1, <2>2, <2>3, <3>1, <1>6 DEF IInv, ListComesLater
  <2>4. CASE s = t
    <3>1. p = todo[1] /\ p \in Positions
      BY <2>4, <1>1, <1>10
    <3> QED
      BY <2>2, <3>1, <1>1, <1>6 DEF IInv, ListIsOpen
  <2> QED
    BY <2>3, <2>4, <1>7
<1> QED
  BY <1>12, <1>13, <1>14, <1>15, <1>16 DEF GraphInv

-----------------------------------------------------------------------------
(* What the steps add to the graph *)

\* Writing nodes under new ids, once or twice, appends them.
LEMMA WrittenAppends ==
  ASSUME TypeOK, NEW new \in Seq(Node)
  PROVE  Written(new) = nodes \o new
<1> DEFINE l == Len(nodes)
           ids == (l + 1)..(l + Len(new))
           out == [i \in ids |-> new[i - l]]
           once == SetNodes(nodes, out)
           twice == SetNodes(once, out)
<1>1. /\ nodes \in Seq(Node) /\ l \in Nat /\ Len(new) \in Nat
      /\ DOMAIN nodes = 1..l
  BY DEF TypeOK
<1>2. Written(new) = twice
  BY DEF Written, LastId
<1>3. DOMAIN nodes \cup ids = 1..(l + Len(new))
  BY <1>1
<1>4. once = [i \in 1..(l + Len(new)) |-> IF i \in ids THEN new[i - l] ELSE nodes[i]]
  BY <1>3 DEF SetNodes
<1>5. twice = [i \in 1..(l + Len(new)) |-> IF i \in ids THEN new[i - l] ELSE nodes[i]]
  <2>1. DOMAIN once \cup ids = 1..(l + Len(new))
    BY <1>3, <1>4
  <2>2. \A i \in 1..(l + Len(new)) :
          (IF i \in ids THEN out[i] ELSE once[i])
            = IF i \in ids THEN new[i - l] ELSE nodes[i]
    BY <1>4
  <2> HIDE DEF once
  <2> QED
    BY <2>1, <2>2 DEF SetNodes
<1>6. /\ \A i \in 1..(l + Len(new)) :
           (nodes \o new)[i] = IF i \in ids THEN new[i - l] ELSE nodes[i]
      /\ nodes \o new = [i \in 1..(l + Len(new)) |-> (nodes \o new)[i]]
  <2> DEFINE both == nodes \o new
  <2>1. both \in Seq(Node) /\ Len(both) = l + Len(new)
    BY <1>1
  <2>2. \A i \in 1..(l + Len(new)) :
          both[i] = IF i \in ids THEN new[i - l] ELSE nodes[i]
    <3>1. \A i \in 1..(l + Len(new)) : both[i] = IF i <= l THEN nodes[i] ELSE new[i - l]
      BY <1>1
    <3> QED
      BY <1>1, <3>1
  <2>3. both = [i \in 1..(l + Len(new)) |-> both[i]]
    <3> HIDE DEF both
    <3>1. \A q \in Seq(Node) : q = [i \in 1..Len(q) |-> q[i]]
      OBVIOUS
    <3> QED
      BY <2>1, <3>1
  <2> QED
    BY <2>2, <2>3
<1>7. nodes \o new
        = [i \in 1..(l + Len(new)) |-> IF i \in ids THEN new[i - l] ELSE nodes[i]]
  <2> DEFINE both == nodes \o new
             I == 1..(l + Len(new))
             F(i) == IF i \in ids THEN new[i - l] ELSE nodes[i]
  <2>1. both = [i \in I |-> both[i]] /\ \A i \in I : both[i] = F(i)
    BY <1>6
  <2> HIDE DEF both, I, F
  <2>2. both = [i \in I |-> F(i)]
    BY <2>1
  <2> QED
    BY <2>2 DEF both, I, F
<1> HIDE DEF twice
<1> QED
  BY <1>2, <1>5, <1>7

NoSection(new) == \A i \in DOMAIN new : new[i].kind # "section"

\* A retrieval adds evidence, and no edge.
LEMMA ExploreGrows ==
  ASSUME TypeOK, Explore
  PROVE  \E new \in Seq(Node) : Grows(new, {}) /\ NoSection(new)
<1>1. PICK found \in Finds : AddAll(found)
  BY DEF Explore
<1>2. found \in Seq({Evidence(k, c) : k \in {"raw", "fused"}, c \in 0..Top})
  BY ReplyAssumption
<1>3. \A v \in {Evidence(k, c) : k \in {"raw", "fused"}, c \in 0..Top} :
        v \in Node /\ v.kind # "section"
  BY RatingAssumption DEF Evidence, Node
<1>4. found \in Seq(Node) /\ NoSection(found)
  <2> DEFINE S == {Evidence(k, c) : k \in {"raw", "fused"}, c \in 0..Top}
  <2>1. found \in Seq(S) /\ \A v \in S : v \in Node /\ v.kind # "section"
    BY <1>2, <1>3
  <2> HIDE DEF S
  <2>2. \A i \in DOMAIN found : found[i] \in S
    BY <2>1
  <2> QED
    BY <2>1, <2>2 DEF NoSection
<1>5. Grows(found, {})
  BY <1>1, <1>4, WrittenAppends DEF AddAll, Grows
<1> QED
  BY <1>4, <1>5

\* The lists that the model, its cut, or the fallback gives are lists of items.
LEMMA ProposalsAreItems == Proposals \subseteq Seq(Item)
<1>1. Fallback \in Seq(Item)
  BY DEF Fallback, Item
<1>2. \A r \in Seq(Item) : Cut(r) \in Seq(Item)
  BY BoundAssumption DEF Cut
<1> QED
  BY <1>1, <1>2, ReplyAssumption DEF Proposals

Added(items, n) == [i \in 1..n |-> Proposal(items[i].priority)]

\* How an attempt to propose ends: with the list of what it added, or failed.
Ended(n) ==
  \/ /\ n > 0 /\ stage' = "extract" /\ UNCHANGED left
     /\ todo' \in ByPriority(nodes', (Len(nodes) + 1)..(Len(nodes) + n))
  \/ stage' = "validate" /\ left' = left - 1 /\ UNCHANGED todo

\* The generation agent adds one proposal for each item it could read.
LEMMA ProposeGrows ==
  ASSUME TypeOK, Propose
  PROVE  \E n \in Nat, new \in Seq(Node) :
           /\ Grows(new, {}) /\ Ended(n) /\ NoSection(new)
           /\ DOMAIN new = 1..n /\ \A i \in 1..n : new[i].kind = "proposal"
<1>1. PICK items \in Proposals : \E n \in 0..Len(items) :
        AddAll(Added(items, n)) /\ Ended(n)
  BY DEF Propose, Added, Ended, LastId
<1>2. PICK n \in 0..Len(items) : AddAll(Added(items, n)) /\ Ended(n)
  BY <1>1
<1>3. items \in Seq(Item) /\ n \in Nat
  BY ProposalsAreItems
<1>4. /\ DOMAIN Added(items, n) = 1..n
      /\ \A i \in 1..n : /\ Added(items, n)[i] \in Node
                         /\ Added(items, n)[i].kind = "proposal"
  <2>1. \A i \in 1..n : items[i] \in Item
    BY <1>2, <1>3
  <2>2. \A i \in 1..n : items[i].priority \in Nat
    BY <2>1 DEF Item
  <2>3. \A c \in Nat : Proposal(c) \in Node /\ Proposal(c).kind = "proposal"
    BY DEF Proposal, Node
  <2> QED
    BY <2>2, <2>3 DEF Added
<1>5. Added(items, n) \in Seq(Node)
  BY <1>3, <1>4 DEF Added
<1>6. NoSection(Added(items, n))
  BY <1>4 DEF NoSection
<1>7. Grows(Added(items, n), {})
  BY <1>2, <1>5, WrittenAppends DEF AddAll, Grows
<1> QED
  BY <1>2, <1>3, <1>4, <1>5, <1>6, <1>7

\* An extraction adds nothing, or a section with an edge from its proposal.
LEMMA ExtractGrows ==
  ASSUME TypeOK, ListInUse, Extract
  PROVE  \/ UNCHANGED graph
         \/ \E n \in Node : n.kind = "section" /\
              Grows(<<n>>, {<<Head(todo), Len(nodes) + 1>>})
<1>1. ASSUME NEW r \in SectionReplies, AddNode(Section(r), {Head(todo)})
      PROVE  Section(r) \in Node /\ Section(r).kind = "section" /\
              Grows(<<Section(r)>>, {<<Head(todo), Len(nodes) + 1>>})
  <2>1. r \in SlotReply
    BY ReplyAssumption
  <2>2. Section(r) \in Node /\ Section(r).kind = "section"
    BY <2>1, RatingAssumption DEF Section, Node, SlotReply
  <2>3. nodes \in Seq(Node) /\ Head(todo) \in Positions
    BY TailOfList DEF TypeOK, Extract
  <2>4. nodes' = nodes \o <<Section(r)>>
    <3>1. <<Section(r)>> \in Seq(Node)
      BY <2>2
    <3> QED
      BY <1>1, <3>1, WrittenAppends DEF AddNode
  <2>5. edges' = edges \cup {<<Head(todo), Len(nodes) + 1>>}
    BY <1>1 DEF AddNode, LastId
  <2> QED
    BY <2>2, <2>3, <2>4, <2>5 DEF Grows
<1> QED
  BY <1>1 DEF Extract

Judged(new) == \A i \in DOMAIN new : new[i].kind \in {"evaluation", "patch"}

\* An evaluation adds its result, with an edge from each section, and patches.
LEMMA EvaluateGrows ==
  ASSUME TypeOK, Evaluate
  PROVE  \E new \in Seq(Node) : \E E : Grows(new, E) /\ Judged(new)
<1>1. nodes \in Seq(Node) /\ Sections \subseteq Positions
  BY DEF TypeOK, Sections, OfKind
<1>2. Evaluation \in Node /\ Evaluation.kind = "evaluation"
  BY DEF Evaluation, Node
<1>3. Patch \in Node /\ Patch.kind = "patch"
  BY DEF Patch, Node
<1> DEFINE E == {<<s, Len(nodes) + 1>> : s \in Sections}
<1>4. CASE UNCHANGED graph
  <2>1. Grows(<<>>, {}) /\ Judged(<<>>) /\ <<>> \in Seq(Node)
    BY <1>1, <1>4 DEF Grows, Judged, graph
  <2> QED
    BY <2>1
<1>5. CASE AddNode(Evaluation, Sections)
  <2>1. nodes' = nodes \o <<Evaluation>> /\ edges' = edges \cup E
    <3>1. <<Evaluation>> \in Seq(Node)
      BY <1>2
    <3> QED
      BY <1>5, <3>1, WrittenAppends DEF AddNode, LastId
  <2>2. Grows(<<Evaluation>>, E)
    BY <1>1, <2>1 DEF Grows
  <2>3. <<Evaluation>> \in Seq(Node) /\ Judged(<<Evaluation>>)
    BY <1>2 DEF Judged
  <2> QED
    BY <2>2, <2>3
<1>6. ASSUME NEW n \in Nat, nodes' = Written(Results(n)), edges' = edges \cup E
      PROVE  \E new \in Seq(Node) : \E F : Grows(new, F) /\ Judged(new)
  <2>1. /\ DOMAIN Results(n) = 1..(n + 1)
        /\ \A i \in 1..(n + 1) :
             Results(n)[i] \in Node /\ Results(n)[i].kind \in {"evaluation", "patch"}
    BY <1>2, <1>3 DEF Results
  <2>2. Results(n) \in Seq(Node) /\ Len(Results(n)) = n + 1
    BY <2>1 DEF Results
  <2>3. Judged(Results(n)) /\ Results(n) # <<>>
    BY <2>1, <2>2 DEF Judged
  <2>4. E \subseteq Positions \X {Len(nodes) + 1}
    BY <1>1
  <2>5. Grows(Results(n), E)
    BY <1>6, <2>2, <2>3, <2>4, WrittenAppends DEF Grows
  <2> QED
    BY <2>2, <2>3, <2>5
<1>7. \/ UNCHANGED graph
      \/ AddNode(Evaluation, Sections)
      \/ \E n \in Nat : nodes' = Written(Results(n)) /\ edges' = edges \cup E
  <2>1. ASSUME NEW score, NEW overall, Judge(score, overall)
        PROVE  \/ UNCHANGED graph
               \/ AddNode(Evaluation, Sections)
               \/ \E n \in Nat : nodes' = Written(Results(n)) /\ edges' = edges \cup E
    BY <2>1, BoundAssumption DEF Judge, LastId
  <2> QED
    BY <2>1 DEF Evaluate
<1> QED
  BY <1>4, <1>5, <1>6, <1>7

-----------------------------------------------------------------------------
(* The invariant is inductive *)

\* The invariant, as what it says of the graph and the rest.
LEMMA GraphInvOf == IInv => TypeOK /\ ListInUse /\ AcceptedAsJudged /\ GraphInv
  BY DEF IInv, GraphInv

\* And back.
LEMMA InvOfGraph == TypeOK /\ ListInUse /\ AcceptedAsJudged /\ GraphInv => IInv
  BY DEF IInv, GraphInv

\* What was typed over the old nodes is typed over the new ones.
LEMMA TypesGrow ==
  ASSUME TypeOK, NEW new \in Seq(Node), NEW E, Grows(new, E)
  PROVE  /\ nodes' \in Seq(Node) /\ edges' \subseteq Positions' \X Positions'
         /\ Positions \subseteq Positions'
         /\ \A q \in Seq(Positions) : q \in Seq(Positions')
<1>1. Positions \subseteq Positions'
  BY NodesStay
<1>2. \A q \in Seq(Positions) : q \in Seq(Positions')
  BY <1>1
<1> QED
  BY <1>1, <1>2, NodesStay

\* Nothing is in the graph at first.
LEMMA InitInv == Init => IInv
<1> SUFFICES ASSUME Init PROVE IInv
  OBVIOUS
<1>1. Positions = {} /\ Sections = {} /\ Proposed = {}
  BY DEF Init, Positions, Sections, Proposed, OfKind
<1>2. /\ nodes \in Seq(Node) /\ todo \in Seq(Positions)
      /\ answer.parts \in Seq(Positions) /\ DOMAIN todo = {}
  BY DEF Init, NoAnswer
<1>3. TypeOK
  BY <1>1, <1>2, BoundAssumption DEF Init, TypeOK, Stages, NoAnswer, Rejected
<1> QED
  BY <1>1, <1>2, <1>3 DEF Init, IInv, EdgesForward, ListInUse, ListIsOpen,
     ListComesLater, OneSectionPerProposal, SectionsInPriorityOrder,
     AcceptedAsJudged, Rejected

\* A step that leaves graph and list alone leaves what is said of them.
LEMMA UnmovedKeepsGraph ==
  ASSUME IInv, UNCHANGED <<nodes, edges, todo>>
  PROVE  GraphInv'
<1>1. /\ Positions' = Positions /\ Sections' = Sections /\ Proposed' = Proposed
      /\ \A s : Parents(s)' = Parents(s)
  BY DEF Positions, Sections, Proposed, OfKind, Parents
<1> QED
  BY <1>1 DEF IInv, GraphInv, EdgesForward, ListIsOpen, ListComesLater,
     OneSectionPerProposal, SectionsInPriorityOrder, Proposed

\* The steps of the gateway and of the helper nodes.
LEMMA RoutingKeepsInv ==
  ASSUME IInv, Begin \/ GiveUp \/ Prepare \/ PostValidate \/ RollBack
  PROVE  IInv'
<1>1. UNCHANGED <<nodes, edges, todo, judgement, answer>>
  BY DEF Begin, GiveUp, Prepare, PostValidate, RollBack, graph
<1>2. Positions' = Positions /\ Sections' = Sections /\ Sources' = Sources
  BY <1>1 DEF Positions, Sections, Sources, OfKind
<1>3. stage' \in Stages /\ left' \in Nat /\ rollbacks' \in 0..MaxRollbacks
  <2>1. stage' \in Stages
    BY DEF Stages, Begin, GiveUp, Prepare, PostValidate, RollBack
  <2>2. left' \in Nat
    BY BoundAssumption DEF IInv, TypeOK, Begin, GiveUp, Prepare, PostValidate, RollBack
  <2>3. rollbacks' \in 0..MaxRollbacks
    BY BoundAssumption
    DEF IInv, TypeOK, Begin, GiveUp, Prepare, PostValidate, RollBack, MayRollBack
  <2> QED
    BY <2>1, <2>2, <2>3
<1>4. TypeOK'
  BY <1>1, <1>2, <1>3 DEF IInv, TypeOK
<1>5. stage # "extract" /\ stage' # "extract"
  BY DEF Begin, GiveUp, Prepare, PostValidate, RollBack
<1>6. ListInUse'
  BY <1>1, <1>5 DEF IInv, ListInUse
<1>7. judgement.passed => stage' = "done"
  BY DEF IInv, AcceptedAsJudged, Begin, GiveUp, Prepare, PostValidate, RollBack
<1>8. AcceptedAsJudged'
  BY <1>1, <1>2, <1>7 DEF IInv, AcceptedAsJudged
<1> QED
  BY <1>1, <1>4, <1>6, <1>8, UnmovedKeepsGraph DEF GraphInv, IInv

\* A retrieval adds to the graph before any list is made.
LEMMA ExploreKeepsInv ==
  ASSUME IInv, Explore
  PROVE  IInv'
<1>1. PICK new \in Seq(Node) : Grows(new, {}) /\ NoSection(new)
  BY ExploreGrows DEF IInv
<1>2. /\ UNCHANGED <<rollbacks, todo, judgement, answer>>
      /\ stage = "explore" /\ stage' = "freeze" /\ left' = left - 1 /\ left > 0
  BY DEF Explore
<1>3. TypeOK'
  BY <1>1, <1>2, TypesGrow DEF IInv, TypeOK, Stages
<1>4. ListInUse'
  BY <1>2 DEF IInv, ListInUse
<1>5. AcceptedAsJudged'
  BY <1>2 DEF IInv, AcceptedAsJudged
<1>6. GraphInv'
  BY <1>1, <1>2, GraphInvOf, PlainGrowthKeepsList DEF NoSection
<1> QED
  BY <1>3, <1>4, <1>5, <1>6 DEF GraphInv, IInv

\* The pairs are one to one, and cover the sections or the evidence.
LEMMA AssignmentsPair ==
  ASSUME NEW S, NEW E, NEW M \in Assignments(S, E)
  PROVE  /\ M \subseteq S \X E
         /\ \A p, q \in M : p[1] = q[1] <=> p[2] = q[2]
         /\ S = {p[1] : p \in M} \/ E = {p[2] : p \in M}
<1>1. CASE \E f \in Injection(S, E) : M = {<<s, f[s]>> : s \in S}
  <2>1. PICK f \in Injection(S, E) : M = {<<s, f[s]>> : s \in S}
    BY <1>1
  <2>2. f \in [S -> E] /\ \A a, b \in S : f[a] = f[b] => a = b
    BY <2>1 DEF Injection, IsInjective
  <2>3. M \subseteq S \X E
    BY <2>1, <2>2
  <2>4. \A p, q \in M : p[1] = q[1] <=> p[2] = q[2]
    BY <2>1, <2>2
  <2>5. S = {p[1] : p \in M}
    <3>1. \A s \in S : \E p \in M : p[1] = s
      <4>1. \A s \in S : <<s, f[s]>> \in M /\ <<s, f[s]>>[1] = s
        BY <2>1
      <4> QED
        BY <4>1
    <3> QED
      BY <2>3, <3>1
  <2> QED
    BY <2>3, <2>4, <2>5
<1>2. CASE \E f \in Injection(E, S) : M = {<<f[e], e>> : e \in E}
  <2>1. PICK f \in Injection(E, S) : M = {<<f[e], e>> : e \in E}
    BY <1>2
  <2>2. f \in [E -> S] /\ \A a, b \in E : f[a] = f[b] => a = b
    BY <2>1 DEF Injection, IsInjective
  <2>3. M \subseteq S \X E
    BY <2>1, <2>2
  <2>4. \A p, q \in M : p[1] = q[1] <=> p[2] = q[2]
    BY <2>1, <2>2
  <2>5. E = {p[2] : p \in M}
    <3>1. \A e \in E : \E p \in M : p[2] = e
      <4>1. \A e \in E : <<f[e], e>> \in M /\ <<f[e], e>>[2] = e
        BY <2>1
      <4> QED
        BY <4>1
    <3> QED
      BY <2>3, <3>1
  <2> QED
    BY <2>3, <2>4, <2>5
<1> QED
  BY <1>1, <1>2 DEF Assignments

\* A mean that passes has a pair that passes.
LEMMA MeanIsReached ==
  ASSUME NEW M, NEW score \in [M -> -1..Top], NEW v \in Overall(score), v >= Pass
  PROVE  \E p \in M : score[p] >= Pass
<1>1. DOMAIN score # {}
  BY RatingAssumption DEF Overall
<1>2. v \in -1..Top /\ \E q \in M : v <= score[q]
  BY <1>1 DEF Overall
<1> QED
  BY <1>2, RatingAssumption

\* What an evaluation accepts, it has paired.
LEMMA EvaluateJudges ==
  ASSUME IInv, Evaluate
  PROVE  \/ judgement' = Rejected
         \/ /\ judgement'.passed /\ judgement'.sections = Sections
            /\ judgement'.pairs \in Assignments(Sections, Sources)
            /\ judgement'.faithful # {}
            /\ judgement'.faithful \subseteq {p[1] : p \in judgement'.pairs}
            /\ judgement' \in [passed : BOOLEAN, sections : {Sections},
                               pairs : {judgement'.pairs},
                               faithful : {judgement'.faithful}]
<1>1. ASSUME NEW M \in Assignments(Sections, Sources), NEW score \in [M -> -1..Top],
             NEW v \in Overall(score), Judge(score, v), judgement' # Rejected
      PROVE  /\ judgement'.passed /\ judgement'.sections = Sections
             /\ judgement'.pairs \in Assignments(Sections, Sources)
             /\ judgement'.faithful # {}
             /\ judgement'.faithful \subseteq {p[1] : p \in judgement'.pairs}
             /\ judgement' \in [passed : BOOLEAN, sections : {Sections},
                                pairs : {judgement'.pairs},
                                faithful : {judgement'.faithful}]
  <2>1. judgement' = Accepted(score) /\ v >= Pass
    BY <1>1 DEF Judge
  <2>2. PICK p \in M : score[p] >= Pass
    BY <2>1, MeanIsReached
  <2>3. DOMAIN score = M
    OBVIOUS
  <2>4. p[1] \in judgement'.faithful
    BY <2>1, <2>2, <2>3 DEF Accepted
  <2> QED
    BY <2>1, <2>3, <2>4 DEF Accepted
<1> QED
  BY <1>1 DEF Evaluate, Scores

\* An evaluation leaves the sections that it has judged.
LEMMA EvaluateKeepsInv ==
  ASSUME IInv, Evaluate
  PROVE  IInv'
<1>0. PICK new \in Seq(Node) : \E E : Grows(new, E) /\ Judged(new)
  BY EvaluateGrows DEF IInv
<1>1. PICK E : new \in Seq(Node) /\ Grows(new, E) /\ Judged(new)
  BY <1>0
<1>2. /\ UNCHANGED <<rollbacks, todo, answer>> /\ left > 0
      /\ stage = "validate" /\ stage' = "judge" /\ left' = left - 1
  BY DEF Evaluate
<1>3. TypeOK
  BY DEF IInv
<1>4. /\ Positions \subseteq Positions'
      /\ \A i \in Positions : nodes'[i] = nodes[i]
      /\ \A i \in Positions' \ Positions : nodes'[i].kind \in {"evaluation", "patch"}
  BY <1>1, <1>3, NodesStay DEF Judged
<1>5. Sections' = Sections /\ Sources' = Sources
  BY <1>4 DEF Sections, Sources, OfKind
<1>6. Sections \subseteq Positions /\ Sources \subseteq Positions
  BY DEF Sections, Sources, OfKind
<1>7. ListInUse'
  BY <1>2 DEF IInv, ListInUse
<1>8. GraphInv'
  BY <1>1, <1>2, GraphInvOf, PlainGrowthKeepsList DEF Judged
<1>9. CASE judgement' = Rejected
  <2>1. TypeOK'
    BY <1>1, <1>2, <1>3, <1>9, TypesGrow DEF TypeOK, Stages, Rejected
  <2>2. AcceptedAsJudged'
    BY <1>9 DEF AcceptedAsJudged, Rejected
  <2> QED
    BY <1>7, <1>8, <2>1, <2>2, InvOfGraph DEF GraphInv, IInv
<1>10. CASE judgement' # Rejected
  <2> DEFINE j == judgement'
  <2>1. /\ j.passed /\ j.sections = Sections /\ j.faithful # {}
        /\ j.pairs \in Assignments(Sections, Sources)
        /\ j.faithful \subseteq {p[1] : p \in j.pairs}
        /\ j \in [passed : BOOLEAN, sections : {Sections},
                  pairs : {j.pairs}, faithful : {j.faithful}]
    BY <1>10, EvaluateJudges
  <2>2. /\ j.pairs \subseteq Sections \X Sources
        /\ \A p, q \in j.pairs : p[1] = q[1] <=> p[2] = q[2]
        /\ Sections = {p[1] : p \in j.pairs} \/ Sources = {p[2] : p \in j.pairs}
    BY <2>1, AssignmentsPair
  <2>3. j.pairs \subseteq Positions' \X Positions' /\ j.faithful \subseteq Positions'
    BY <2>1, <2>2, <1>4, <1>6
  <2>4. j \in [passed : BOOLEAN, sections : SUBSET Positions',
               pairs : SUBSET (Positions' \X Positions'),
               faithful : SUBSET Positions']
    BY <2>1, <2>3, <1>4, <1>6
  <2>5. TypeOK'
    BY <1>1, <1>2, <1>3, <2>4, TypesGrow DEF TypeOK, Stages
  <2>6. AcceptedAsJudged'
    BY <1>2, <1>5, <2>1, <2>2 DEF AcceptedAsJudged
  <2> QED
    BY <1>7, <1>8, <2>5, <2>6 DEF GraphInv, IInv
<1> QED
  BY <1>9, <1>10

\* What a sequence of Orders is.
LEMMA OrdersAre ==
  ASSUME NEW S, IsFiniteSet(S), NEW before, NEW q \in Orders(S, before)
  PROVE  /\ q \in Seq(S) /\ DOMAIN q = 1..Cardinality(S)
         /\ \A i, j \in DOMAIN q :
              i < j => q[i] # q[j] /\ <<q[i], q[j]>> \in before
         /\ S # {} => q # <<>>
<1>1. Cardinality(S) \in Nat
  BY FS_CardinalityType
<1>2. q \in [1..Cardinality(S) -> S] /\ \A i, j \in DOMAIN q : q[i] = q[j] => i = j
  BY DEF Orders, Bijection, Injection, IsInjective
<1>3. q \in Seq(S) /\ DOMAIN q = 1..Cardinality(S)
  BY <1>1, <1>2
<1>4. \A i, j \in DOMAIN q : i < j => <<q[i], q[j]>> \in before
  BY DEF Orders
<1>5. \A i, j \in DOMAIN q : i < j => q[i] # q[j]
  BY <1>1, <1>2
<1>6. S # {} => q # <<>>
  <2>1. S # {} => Cardinality(S) # 0
    BY FS_EmptySet
  <2> QED
    BY <2>1, <1>1, <1>3
<1> QED
  BY <1>3, <1>4, <1>5, <1>6

\* The list is made of proposals that have just been added.
LEMMA ProposeKeepsInv ==
  ASSUME IInv, Propose
  PROVE  IInv'
<1>1. PICK n \in Nat, new \in Seq(Node) :
        /\ Grows(new, {}) /\ Ended(n) /\ NoSection(new)
        /\ DOMAIN new = 1..n /\ \A i \in 1..n : new[i].kind = "proposal"
  BY ProposeGrows DEF IInv
<1>2. /\ UNCHANGED <<rollbacks, judgement, answer>>
      /\ stage = "execute" /\ left > 0
  BY DEF Propose
<1>3. TypeOK /\ todo = <<>> /\ ~ judgement.passed
  BY <1>2 DEF IInv, ListInUse, AcceptedAsJudged
<1>4. AcceptedAsJudged'
  BY <1>2, <1>3 DEF AcceptedAsJudged
<1>5. CASE UNCHANGED todo /\ stage' = "validate" /\ left' = left - 1
  <2>1. TypeOK'
    BY <1>1, <1>2, <1>3, <1>5, TypesGrow DEF TypeOK, Stages
  <2>2. ListInUse'
    BY <1>3, <1>5 DEF ListInUse
  <2>3. GraphInv'
    BY <1>1, <1>5, GraphInvOf, PlainGrowthKeepsList DEF NoSection
  <2> QED
    BY <1>4, <2>1, <2>2, <2>3 DEF GraphInv, IInv
<1>6. CASE /\ n > 0 /\ stage' = "extract" /\ UNCHANGED left
           /\ todo' \in ByPriority(nodes', (Len(nodes) + 1)..(Len(nodes) + n))
  <2> DEFINE S == (Len(nodes) + 1)..(Len(nodes) + n)
  <2>1. /\ nodes \in Seq(Node) /\ Positions = 1..Len(nodes) /\ Len(nodes) \in Nat
        /\ edges \subseteq Positions \X Positions
    BY <1>3 DEF TypeOK, Positions
  <2>2. nodes' = nodes \o new /\ Len(new) = n /\ edges' = edges
    BY <1>1 DEF Grows
  <2>3. S = Positions' \ Positions
    BY <2>1, <2>2 DEF Positions
  <2>4. IsFiniteSet(S) /\ S # {}
    <3>1. Len(nodes) + 1 \in S /\ Len(nodes) + 1 \in Int /\ Len(nodes) + n \in Int
      BY <1>6, <2>1
    <3> QED
      BY <3>1, FS_Interval
  <2> HIDE DEF S
  <2>5. /\ todo' \in Seq(S) /\ todo' # <<>>
        /\ \A i \in DOMAIN todo' : todo'[i] \in S
        /\ \A i, j \in DOMAIN todo' : i < j =>
             todo'[i] # todo'[j] /\ nodes'[todo'[i]].rank <= nodes'[todo'[j]].rank
    <3> DEFINE before == {p \in S \X S :
                            \/ nodes'[p[1]].rank < nodes'[p[2]].rank
                            \/ nodes'[p[1]].rank = nodes'[p[2]].rank /\ p[1] < p[2]}
    <3>1. todo' \in Orders(S, before)
      BY <1>6 DEF ByPriority, S
    <3>2. \A x \in S : nodes'[x].rank \in Nat
      <4>1. nodes' \in Seq(Node) /\ \A x \in S : x \in DOMAIN nodes'
        BY <1>1, <1>3, <2>3, NodesStay DEF Positions
      <4>2. \A x \in S : nodes'[x] \in Node
        BY <4>1
      <4> QED
        BY <4>2 DEF Node
    <3>3. \A p \in before : /\ p[1] \in S /\ p[2] \in S
                            /\ nodes'[p[1]].rank <= nodes'[p[2]].rank
      BY <3>2
    <3> HIDE DEF before
    <3>4. /\ todo' \in Seq(S) /\ todo' # <<>>
          /\ \A i, j \in DOMAIN todo' :
               i < j => todo'[i] # todo'[j] /\ <<todo'[i], todo'[j]>> \in before
      BY <2>4, <3>1, OrdersAre
    <3>5. \A i \in DOMAIN todo' : todo'[i] \in S
      BY <3>4
    <3>6. \A i, j \in DOMAIN todo' :
            i < j => nodes'[todo'[i]].rank <= nodes'[todo'[j]].rank
      <4>1. \A x, y : <<x, y>> \in before => nodes'[x].rank <= nodes'[y].rank
        BY <3>3
      <4> QED
        BY <3>4, <4>1
    <3> QED
      BY <3>4, <3>5, <3>6
  <2>6. \A x \in S : nodes'[x].kind = "proposal" /\ x \in Positions' /\ x \notin Positions
    BY <1>1, <1>3, <2>3, NodesStay
  <2>7. S \subseteq Positions' /\ todo' \in Seq(Positions')
    BY <2>5, <2>6
  <2>8. TypeOK'
    BY <1>1, <1>2, <1>3, <1>6, <2>7, TypesGrow DEF TypeOK, Stages
  <2>9. ListInUse'
    BY <1>2, <1>6, <2>5 DEF ListInUse
  <2>10. /\ Sections' = Sections /\ Sections \subseteq Positions
         /\ EdgesForward' /\ OneSectionPerProposal' /\ SectionsInPriorityOrder'
    BY <1>1, GraphInvOf, PlainGrowth DEF NoSection, Sections, OfKind
  <2>11. ListIsOpen'
    <3>1. \A x \in S : x \in Proposed' /\ \A s \in Sections' : <<x, s>> \notin edges'
      BY <2>1, <2>2, <2>6 DEF Proposed, OfKind
    <3> QED
      BY <2>5, <3>1 DEF ListIsOpen
  <2>12. ListComesLater'
    <3>1. \A x \in S, s \in Positions : ~ (x < s)
      BY <2>1 DEF S
    <3> QED
      BY <2>5, <2>10, <3>1 DEF ListComesLater
  <2> QED
    BY <1>4, <2>8, <2>9, <2>10, <2>11, <2>12 DEF IInv
<1> QED
  BY <1>1, <1>5, <1>6 DEF Ended

\* The head of the list has its section, or none, when it is taken off.
LEMMA ExtractKeepsInv ==
  ASSUME IInv, Extract
  PROVE  IInv'
<1>1. /\ stage = "extract" /\ todo' = Tail(todo)
      /\ UNCHANGED <<rollbacks, judgement, answer>>
      /\ \/ Len(todo) > 1 /\ UNCHANGED <<stage, left>>
         \/ ~ (Len(todo) > 1) /\ stage' = "validate" /\ left' = left - 1
  BY DEF Extract
<1>2. TypeOK /\ left > 0 /\ ~ judgement.passed
  BY <1>1 DEF IInv, ListInUse, AcceptedAsJudged
<1>3. Tail(todo) \in Seq(Positions) /\ (Len(todo) > 1 <=> Tail(todo) # <<>>)
  BY <1>1, TailOfList DEF IInv
<1>4. ListInUse'
  BY <1>1, <1>2, <1>3 DEF ListInUse
<1>5. AcceptedAsJudged'
  BY <1>1, <1>2 DEF AcceptedAsJudged
<1>6. stage' \in Stages /\ left' \in Nat
  BY <1>1, <1>2 DEF TypeOK, Stages
<1>7. CASE UNCHANGED graph
  <2>1. Positions' = Positions /\ nodes' = nodes /\ edges' = edges
    BY <1>7 DEF graph, Positions
  <2>2. TypeOK'
    BY <1>1, <1>2, <1>3, <1>6, <2>1 DEF TypeOK
  <2> QED
    BY <1>1, <1>4, <1>5, <1>7, <2>2, SkipKeepsGraph DEF GraphInv, IInv
<1>8. ASSUME NEW n \in Node, n.kind = "section",
             Grows(<<n>>, {<<Head(todo), Len(nodes) + 1>>})
      PROVE  IInv'
  <2>1. <<n>> \in Seq(Node)
    OBVIOUS
  <2>2. TypeOK'
    BY <1>1, <1>2, <1>3, <1>6, <1>8, <2>1, TypesGrow DEF TypeOK
  <2>3. GraphInv'
    BY <1>1, <1>8, SectionKeepsGraph
  <2> QED
    BY <1>4, <1>5, <2>2, <2>3 DEF GraphInv, IInv
<1> QED
  BY <1>2, <1>7, <1>8, ExtractGrows DEF IInv

\* The answer changes nothing that was judged.
LEMMA AssembleKeepsInv ==
  ASSUME IInv, Assemble
  PROVE  IInv'
<1>1. /\ stage = "done" /\ stage' = "over"
      /\ UNCHANGED <<left, rollbacks, nodes, edges, todo, judgement>>
  BY DEF Assemble, graph
<1>2. Positions' = Positions /\ Sections' = Sections /\ Sources' = Sources
  BY <1>1 DEF Positions, Sections, Sources, OfKind
<1>3. ASSUME NEW parts \in {Sections, OfKind({"fused"})},
             NEW order \in ByConfidence(parts)
      PROVE  order \in Seq(Positions)
  <2>1. parts \subseteq Positions
    BY DEF Sections, OfKind
  <2>2. IsFiniteSet(parts)
    <3>1. Positions = 1..Len(nodes) /\ Len(nodes) \in Nat
      BY DEF IInv, TypeOK, Positions
    <3>2. IsFiniteSet(Positions)
      BY <3>1, FS_Interval
    <3> QED
      BY <2>1, <3>2, FS_Subset
  <2>3. order \in Seq(parts)
    BY <2>2, OrdersAre DEF ByConfidence
  <2> QED
    BY <2>1, <2>3
<1>4. answer' \in [kind : {"none", "empty", "gap", "text"}, parts : Seq(Positions)]
  <2>1. <<>> \in Seq(Positions)
    OBVIOUS
  <2>2. \/ answer' \in {[kind |-> "empty", parts |-> <<>>],
                        [kind |-> "gap", parts |-> <<>>]}
        \/ \E parts \in {Sections, OfKind({"fused"})} :
             answer' \in {[kind |-> "text", parts |-> order] :
                           order \in ByConfidence(parts)}
    BY DEF Assemble
  <2>3. \/ answer' = [kind |-> "empty", parts |-> <<>>]
        \/ answer' = [kind |-> "gap", parts |-> <<>>]
        \/ \E order \in Seq(Positions) : answer' = [kind |-> "text", parts |-> order]
    BY <1>3, <2>2
  <2>4. \A k \in {"none", "empty", "gap", "text"}, q \in Seq(Positions) :
          [kind |-> k, parts |-> q]
            \in [kind : {"none", "empty", "gap", "text"}, parts : Seq(Positions)]
    OBVIOUS
  <2> QED
    BY <2>1, <2>3, <2>4, Zenon
<1>5. TypeOK'
  BY <1>1, <1>2, <1>4 DEF IInv, TypeOK, Stages
<1>6. ListInUse' /\ AcceptedAsJudged'
  BY <1>1, <1>2 DEF IInv, ListInUse, AcceptedAsJudged
<1> QED
  BY <1>1, <1>5, <1>6, UnmovedKeepsGraph DEF GraphInv, IInv

\* Every step keeps the invariant.
LEMMA NextInv == IInv /\ [Next]_vars => IInv'
<1> SUFFICES ASSUME IInv, [Next]_vars PROVE IInv'
  OBVIOUS
<1>1. CASE UNCHANGED vars
  <2>1. UNCHANGED <<nodes, edges, todo, stage, left, rollbacks, judgement, answer>>
    BY <1>1 DEF vars, graph
  <2>2. Positions' = Positions /\ Sections' = Sections /\ Sources' = Sources
    BY <2>1 DEF Positions, Sections, Sources, OfKind
  <2>3. TypeOK' /\ ListInUse' /\ AcceptedAsJudged'
    BY <2>1, <2>2 DEF IInv, TypeOK, ListInUse, AcceptedAsJudged
  <2> QED
    BY <2>1, <2>3, UnmovedKeepsGraph DEF GraphInv, IInv
<1> QED
  BY <1>1, RoutingKeepsInv, ExploreKeepsInv, ProposeKeepsInv, ExtractKeepsInv,
     EvaluateKeepsInv, AssembleKeepsInv DEF Next

-----------------------------------------------------------------------------
(* The theorems *)

\* The inductive invariant holds in every state.
THEOREM Invariance == Spec => []IInv
  BY InitInv, NextInv, PTL DEF Spec

\* The variables keep their types, whatever the model replies.
THEOREM TypesHold == Spec => []TypeOK
  BY Invariance, PTL DEF IInv

\* A proposal never gets a second section: the proposals of an attempt that
\* failed or was rejected are not taken up again.
THEOREM SectionsAreOfOneProposal == Spec => []OneSectionPerProposal
  BY Invariance, PTL DEF IInv

\* The sections of an attempt are in the order of the priorities.
THEOREM SectionsAreSorted == Spec => []SectionsInPriorityOrder
  BY Invariance, PTL DEF IInv

\* An accepted answer is the one that was judged, on a matching of its sections
\* with the evidence.
THEOREM AcceptanceIsEarned == Spec => []AcceptedAsJudged
  BY Invariance, PTL DEF IInv

\* No step takes anything away from the graph.
LEMMA StepsKeep == IInv /\ [Next]_vars => [Kept]_vars
<1> SUFFICES ASSUME IInv, Next PROVE Kept
  BY DEF Kept, vars
<1>1. CASE UNCHANGED graph
  BY <1>1 DEF Kept, graph, Positions
<1>2. CASE Explore
  BY <1>2, ExploreGrows, GrowthKeeps DEF IInv
<1>3. CASE Propose
  BY <1>3, ProposeGrows, GrowthKeeps DEF IInv
<1>4. CASE Extract
  <2>1. ASSUME NEW n \in Node, Grows(<<n>>, {<<Head(todo), Len(nodes) + 1>>})
        PROVE  Kept
    <3>1. <<n>> \in Seq(Node)
      OBVIOUS
    <3> QED
      BY <2>1, <3>1, GrowthKeeps DEF IInv
  <2> QED
    BY <1>1, <1>4, <2>1, ExtractGrows DEF IInv
<1>5. CASE Evaluate
  BY <1>5, EvaluateGrows, GrowthKeeps DEF IInv
<1>6. CASE Begin \/ GiveUp \/ Prepare \/ PostValidate \/ RollBack \/ Assemble
  BY <1>1, <1>6 DEF Begin, GiveUp, Prepare, PostValidate, RollBack, Assemble
<1> QED
  BY <1>2, <1>3, <1>4, <1>5, <1>6 DEF Next

\* The evidence graph is append-only.
THEOREM GraphIsAppendOnly == Spec => AppendOnly
  BY Invariance, StepsKeep, PTL DEF Spec, AppendOnly, Kept

-----------------------------------------------------------------------------
(* Drafting implements Workflow *)

StageMap == [r \in {1} |-> Phase]
RetriesMap == [r \in {1} |-> IF stage = "over" THEN 0 ELSE rollbacks]

\* The initial states map to initial states of Workflow.
LEMMA InitMaps == Init => W!Init
  BY DEF Init, W!Init, Phase

\* Every step maps to a step of Workflow or to a stutter.
LEMMA NextMaps == IInv /\ [Next]_vars => [W!Next]_(W!vars)
<1> SUFFICES ASSUME IInv, [Next]_vars PROVE [W!Next]_(W!vars)
  OBVIOUS
<1>1. stage \in Stages /\ rollbacks \in 0..MaxRollbacks /\ MaxRollbacks \in Nat
  BY BoundAssumption DEF IInv, TypeOK
<1>2. CASE StageMap' = StageMap /\ RetriesMap' = RetriesMap
  BY <1>2 DEF StageMap, RetriesMap, W!vars
<1>3. ASSUME StageMap[1] \in DOMAIN W!Follows,
             StageMap'[1] \in W!Follows[StageMap[1]], RetriesMap' = RetriesMap
      PROVE  W!Next
  <2>1. StageMap' = [StageMap EXCEPT ![1] = StageMap'[1]]
    BY DEF StageMap
  <2>2. W!Advance(1)
    BY <1>3, <2>1 DEF StageMap, RetriesMap, W!Advance
  <2> QED
    BY <2>2 DEF W!Next
<1>4. ASSUME StageMap[1] \in DOMAIN W!Follows, StageMap'[1] = "done",
             RetriesMap' = RetriesMap
      PROVE  W!Next
  <2>1. StageMap' = [StageMap EXCEPT ![1] = "done"]
    BY <1>4 DEF StageMap
  <2>2. W!GiveUp(1)
    BY <1>4, <2>1 DEF StageMap, RetriesMap, W!GiveUp
  <2> QED
    BY <2>2 DEF W!Next
<1>5. CASE UNCHANGED vars
  BY <1>2, <1>5 DEF vars, StageMap, RetriesMap, Phase
<1>6. CASE Begin
  <2>1. /\ StageMap[1] = "idle" /\ RetriesMap = [r \in {1} |-> rollbacks]
        /\ StageMap' = [StageMap EXCEPT ![1] = "explore"]
        /\ RetriesMap' = [RetriesMap EXCEPT ![1] = rollbacks]
    BY <1>6 DEF Begin, StageMap, RetriesMap, Phase
  <2>2. "explore" \in W!Stages \ {"idle"}
    BY DEF W!Stages, W!Follows
  <2>3. W!Start(1)
    BY <1>1, <2>1, <2>2 DEF StageMap, RetriesMap, W!Start
  <2> QED
    BY <2>3 DEF W!Next
<1>7. CASE GiveUp
  BY <1>4, <1>7 DEF GiveUp, StageMap, RetriesMap, Phase, W!Follows
<1>8. CASE Explore \/ Prepare
  BY <1>3, <1>8 DEF Explore, Prepare, StageMap, RetriesMap, Phase, W!Follows
<1>9. CASE Propose
  <2>1. stage = "execute" /\ stage' \in {"extract", "validate"} /\ rollbacks' = rollbacks
    BY <1>9 DEF Propose
  <2> QED
    BY <1>2, <1>3, <2>1 DEF StageMap, RetriesMap, Phase, W!Follows
<1>10. CASE Extract
  <2>1. stage = "extract" /\ stage' \in {"extract", "validate"} /\ rollbacks' = rollbacks
    BY <1>10 DEF Extract
  <2> QED
    BY <1>2, <1>3, <2>1 DEF StageMap, RetriesMap, Phase, W!Follows
<1>11. CASE Evaluate
  <2>1. stage = "validate" /\ stage' = "judge" /\ rollbacks' = rollbacks
    BY <1>11 DEF Evaluate
  <2> QED
    BY <1>2, <2>1 DEF StageMap, RetriesMap, Phase
<1>12. CASE PostValidate
  <2>1. stage = "judge" /\ stage' \in {"rollback", "done"} /\ rollbacks' = rollbacks
    BY <1>12 DEF PostValidate
  <2> QED
    BY <1>3, <2>1 DEF StageMap, RetriesMap, Phase, W!Follows
<1>13. CASE RollBack
  <2>1. CASE MayRollBack
    <3>1. /\ StageMap[1] = "rollback" /\ RetriesMap[1] = rollbacks
          /\ rollbacks < MaxRollbacks
          /\ StageMap' = [StageMap EXCEPT ![1] = "explore"]
          /\ RetriesMap' = [RetriesMap EXCEPT ![1] = @ + 1]
      BY <1>13, <2>1 DEF RollBack, MayRollBack, StageMap, RetriesMap, Phase
    <3>2. W!Retry(1)
      BY <3>1 DEF StageMap, RetriesMap, W!Retry
    <3> QED
      BY <3>2 DEF W!Next
  <2>2. CASE ~ MayRollBack
    BY <1>4, <1>13, <2>2 DEF RollBack, StageMap, RetriesMap, Phase, W!Follows
  <2> QED
    BY <2>1, <2>2
<1>14. CASE Assemble
  <2>1. /\ StageMap[1] \in DOMAIN W!Follows
        /\ StageMap' = [StageMap EXCEPT ![1] = "over"]
        /\ RetriesMap' = [RetriesMap EXCEPT ![1] = 0]
    BY <1>14 DEF Assemble, StageMap, RetriesMap, Phase, W!Follows
  <2>2. W!End(1)
    BY <2>1 DEF StageMap, RetriesMap, W!End
  <2> QED
    BY <2>2 DEF W!Next
<1> QED
  BY <1>5, <1>6, <1>7, <1>8, <1>9, <1>10, <1>11, <1>12, <1>13, <1>14 DEF Next

\* Whatever the agents add, fail to add or reject, the request goes through the
\* phases that the orchestration promises.
THEOREM DraftingFollowsWorkflow == Spec => FollowsWorkflow
  BY InitMaps, NextMaps, Invariance, PTL DEF Spec, FollowsWorkflow, W!Spec

-----------------------------------------------------------------------------
(* Every step brings the answer nearer *)

Progress ==
  \/ rollbacks' = rollbacks + 1 /\ rollbacks' <= MaxRollbacks
  \/ /\ rollbacks' = rollbacks
     /\ \/ Place[stage'] > Place[stage]
        \/ stage' = stage /\ Len(todo') < Len(todo)

LEMMA StepsProgress == IInv /\ [Next]_vars => [Progress]_vars
<1> SUFFICES ASSUME IInv, Next PROVE Progress
  OBVIOUS
<1>1. stage \in Stages /\ rollbacks \in 0..MaxRollbacks /\ MaxRollbacks \in Nat
  BY BoundAssumption DEF IInv, TypeOK
<1>2. CASE Begin \/ GiveUp \/ Explore \/ Prepare \/ PostValidate \/ Assemble
  BY <1>1, <1>2 DEF Progress, Place, Begin, GiveUp, Explore, Prepare, PostValidate,
     Assemble
<1>3. CASE Propose
  <2>1. stage = "execute" /\ stage' \in {"extract", "validate"} /\ rollbacks' = rollbacks
    BY <1>3 DEF Propose
  <2> QED
    BY <2>1 DEF Progress, Place
<1>4. CASE Evaluate
  BY <1>4 DEF Progress, Place, Evaluate
<1>5. CASE Extract
  <2>1. /\ stage = "extract" /\ rollbacks' = rollbacks /\ todo' = Tail(todo)
        /\ stage' = "validate" \/ stage' = stage
    BY <1>5 DEF Extract
  <2>2. todo # <<>> /\ todo \in Seq(Positions)
    BY <2>1 DEF IInv, ListInUse, TypeOK
  <2>3. Len(todo') < Len(todo)
    BY <2>1, <2>2
  <2> QED
    BY <2>1, <2>3 DEF Progress, Place
<1>6. CASE RollBack
  BY <1>1, <1>6 DEF Progress, Place, RollBack, MayRollBack
<1> QED
  BY <1>2, <1>3, <1>4, <1>5, <1>6 DEF Next

\* No request goes on for ever: each of its steps is progress towards the
\* answer.
THEOREM DraftingProgresses == Spec => EveryStepIsProgress
  BY Invariance, StepsProgress, PTL DEF Spec, EveryStepIsProgress, Progress
=============================================================================
