SPECIFICATION ReadingPeerSpec
CONSTANTS
  Producers = {p1}
  Rx = rx0
  Stoppers = {}
  MaxResp = 1
  MaxCmd = 1
  SendMayThrow = FALSE
PROPERTIES SubmittedIsSent
CHECK_DEADLOCK FALSE
