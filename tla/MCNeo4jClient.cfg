SPECIFICATION Spec
CONSTANTS
  Calls = {c1, c2, c3, c4}
  MaxTries = 2
  NoDriver = NoDriver
CHECK_DEADLOCK FALSE
INVARIANTS
  TypeOK
  LostOnlyToAFailure
  NoDriverLeaks
  ClosedOnce
PROPERTIES
  SharesOneDriver
  EveryCallReturns
