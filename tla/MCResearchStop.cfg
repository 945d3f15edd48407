SPECIFICATION Spec
CONSTANTS
  MaxIterations = {2}
  RecursionLimit = 25
  Batch = 1
  MaxStarts = 2
PROPERTIES
  StopIsHonoured
