SPECIFICATION Spec
CONSTANTS
  Producers = {p1, p2}
  Rx = rx0
  Stoppers = {s1}
  MaxResp = 1
  MaxCmd = 1
  SendMayThrow = TRUE
INVARIANTS TypeOK InOrderDelivery NoResponseUncovered ExclusiveTeardown StopReachesSender
PROPERTIES StopEndsSession SenderEndEndsSession
CHECK_DEADLOCK FALSE
