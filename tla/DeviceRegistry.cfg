SPECIFICATION Spec
CONSTANTS
  Busid = {b1}
  Session = {s1, s2}
  EventThread = ev
  Users = {u1}
  None = None
  AutoBind = TRUE
  DisconnectOnAnyError = TRUE
  MaxMade = 2
  MaxPlugs = 2
  MaxCalls = 1
SYMMETRY Symmetry
INVARIANTS TypeOK ListsAgree NoDanglingResponder ObserversInformed
CHECK_DEADLOCK FALSE
