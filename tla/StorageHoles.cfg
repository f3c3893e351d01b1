SPECIFICATION MscSpec
CONSTANTS
  Blocks = 2
  BlockUnits = 2
  HoleUnits = 4
  LbaWidth = 16
  CountWidth = 8
  ZeroCount = 2
  ReplySize = 2
  MaxCmds = 2
  MaxMscConns = 2
INVARIANTS HolesAreExact
CHECK_DEADLOCK FALSE
