SPECIFICATION Spec
CONSTANTS
  MaxRuns = 1
CHECK_DEADLOCK FALSE
INVARIANTS
  TimedOutIsTerminated
