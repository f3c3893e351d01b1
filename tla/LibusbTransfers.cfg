SPECIFICATION Spec
CONSTANTS
  Urb = {u1, u2}
  Args = {a1, a2}
  NoArgs = NoArgs
  MaxSubmits = 2
  MaxUnlinks = 1
  MaxConnections = 2
  DisconnectOnAnyError = TRUE
  Hotplug = TRUE
INVARIANTS TypeOK AnsweredOnce SubmitBeforeUnlink QuietWhenClosed TrackedIsAlive
PROPERTIES DisconnectionCompletes UnlinkAnswered RemovalEndsConnection
CHECK_DEADLOCK FALSE
