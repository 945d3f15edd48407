SPECIFICATION Spec
CONSTANTS
  Requests = {q1, q2}
  MaxIterations = {2, 7}
  MaxRollbacks = 1
  HITL = TRUE
INVARIANTS
  ChatExplores
