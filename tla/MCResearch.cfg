SPECIFICATION Spec
CONSTANTS
  MaxIterations = {1, 2}
  RecursionLimit = 25
  Batch = 1
  MaxStarts = 2
INVARIANTS
  TypeOK
  JudgedByOwnExperiment
  ReportIsOwn
PROPERTIES
  ExperimentsOnlyAdvance
  FollowsCycle
  EveryResearchEnds
