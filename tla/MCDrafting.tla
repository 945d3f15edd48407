----------------------------- MODULE MCDrafting -----------------------------
(***************************************************************************)
(* The instance of Drafting for TLC: two attempts at most.  The lists of   *)
(* proposals are empty, unsorted, cut, unsound and not sortable; sections  *)
(* are filled, filled in a way that does not count, and weak.  A request   *)
(* has iterations for all of it, for one attempt, or is cut off within it. *)
(***************************************************************************)
EXTENDS DraftingProperties

P(priority) == [priority |-> priority, sound |-> TRUE]
Unsound     == [priority |-> 1, sound |-> FALSE]

MCFinds ==
  {<<Evidence("raw", 0), Evidence("fused", 1)>>, <<Evidence("raw", 1)>>, <<>>}

MCProposals == {<<>>, <<P(2), P(1), P(3)>>, <<P(1), Unsound>>, <<P(0), P(2)>>}

MCSections ==
  {[slots |-> {"cited", "uncited", "void"}, conf |-> 2],
   [slots |-> {"list", "bare"}, conf |-> 2]}

MCBudgets == {2, 6, 7}
=============================================================================
