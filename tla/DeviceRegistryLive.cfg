SPECIFICATION Spec
CONSTANTS
  Busid = {b1, b2}
  Session = {s1, s2}
  EventThread = ev
  Users = {}
  None = None
  AutoBind = TRUE
  DisconnectOnAnyError = TRUE
  MaxMade = 1
  MaxPlugs = 1
  MaxCalls = 0
PROPERTIES ImplementsOwnership UnplugEndsSession
CHECK_DEADLOCK FALSE
