SPECIFICATION Spec
CONSTANTS
  MaxSessions = 2
  MaxStarts = 2
  CallbackMayThrow = TRUE
PROPERTIES StopReturns
CHECK_DEADLOCK FALSE
