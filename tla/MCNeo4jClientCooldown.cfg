SPECIFICATION Spec
CONSTANTS
  Calls = {c1, c2, c3}
  MaxTries = 2
  NoDriver = NoDriver
CHECK_DEADLOCK FALSE
PROPERTIES
  FailedConnectCoolsDown
