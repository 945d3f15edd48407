SPECIFICATION Spec
CONSTANTS
  Top = 2
  Pass = 2
  MaxProposals = 2
  MaxRollbacks = 1
  MaxPatches = 1
  Budgets <- MCBudgets
  Finds <- MCFinds
  ProposalReplies <- MCProposals
  SectionReplies <- MCSections
CHECK_DEADLOCK FALSE
INVARIANTS
  TypeOK
  OneSectionPerProposal
  SectionsInPriorityOrder
  AcceptedAsJudged
PROPERTIES
  AppendOnly
  FollowsWorkflow
  EveryDraftIsAnswered
