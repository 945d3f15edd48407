SPECIFICATION Spec
CONSTANTS
  MaxRuns = 2
CHECK_DEADLOCK FALSE
INVARIANTS
  TypeOK
  CompletedRanItsProgram
  RunEndsItsProcess
PROPERTIES
  EveryRunEnds
