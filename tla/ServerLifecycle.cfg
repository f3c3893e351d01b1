SPECIFICATION Spec
CONSTANTS
  MaxSessions = 3
  MaxStarts = 2
  CallbackMayThrow = TRUE
INVARIANTS TypeOK StopLeavesNothing SessionEventsPaired StopReachesEverySession
PROPERTIES StopReturnsUnlessOrphan
CHECK_DEADLOCK FALSE
