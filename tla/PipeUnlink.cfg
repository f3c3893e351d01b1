SPECIFICATION TransportSpec
CONSTANTS
  Capacity = 2
  MaxPendingRequests = 2
  Writers = {w1, w2}
  Timed = {w1}
  WriteSizes = {1, 3}
  Lengths = {1}
  MaxPull = 3
  MaxData = 4
  MaxReqs = 3
  MaxConns = 2
  FifoCapacity = 1
  PipeWriters = {w1}
  PipeReaders = {r1}
  InEps = {0, 129}
  OutEps <- OutOrder
  PipeSizes = {2}
  PipeLengths = {1}
  SeqSpace = 8
  SeqBase = 6
  PipeMaxReqs = 2
  PipeMaxWrites = 1
  PipeMaxConns = 2
  SchedEps = {e1, e2}
  IsoEps = {e1}
  Frame = 2
  Delays = {3}
  MaxUrbs = 3
  LastSubmit = 1
  EndOfTime = 3
  MaxStarts = 2
  Interfaces <- Composite
  NoEndpoint = 99
  MaxUrb = 2
  MaxOpens = 2
  Keys = {1, 2}
  MaxKeys = 2
  Codes = {3}
  MotionLimit = 4
  MaxReports = 2
  MaxInputs = 2
  MaxInputConns = 2
INVARIANTS PipeUnlinkIsTrue
CHECK_DEADLOCK FALSE
