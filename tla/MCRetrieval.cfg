SPECIFICATION Spec
CONSTANTS
  Plans <- MCPlans
  TopQuality = 2
  Threshold = 2
  MaxRounds = 3
CHECK_DEADLOCK FALSE
INVARIANTS
  TypeOK
  DependenciesFirst
  ForcedOnlyIfStuck
  EveryStepCounts
  BacktrackingNeverWorsens
  PoorResultsAreRetried
  VerdictIsFounded
PROPERTIES
  ExploresTheTree
  EveryRunAnswers
