SPECIFICATION Spec
CONSTANTS
  Busid = {b1}
  Session = {s1}
  EventThread = ev
  Users = {}
  None = None
  AutoBind = TRUE
  DisconnectOnAnyError = FALSE
  MaxMade = 2
  MaxPlugs = 2
  MaxCalls = 0
INVARIANTS NoZombie
CHECK_DEADLOCK FALSE
