SPECIFICATION ClassesSpec
CONSTANTS
  Blocks = 2
  BlockUnits = 2
  HoleUnits = 4
  LbaWidth = 16
  CountWidth = 8
  ZeroCount = 2
  ReplySize = 2
  MaxCmds = 2
  MaxMscConns = 2
  ResponseLimit = 3
  NoteLimit = 2
  MaxNetReqs = 4
  MaxNetConns = 2
  OutTransfers <- NetTransfers
  MaxNetOuts = 2
  MaxDataConns = 2
  FrameSizes = {2, 3}
  DefaultInterval = 2
  Intervals = {1, 2}
  UrbShapes <- Urbs
  MaxFrames = 3
  EndOfVideo = 3
  MaxUvcConns = 2
  Rates = {3, 6}
  PeriodPackets = 4
  AskedRates = {3, 5}
  UrbPackets = 3
  ChunkSize = 4
  AccWidth = 32
  Window = 2
  MaxPacing = 2
  WavWidth = 6
  WavHeader = 1
  MaxUacUrbs = 3
  MaxSets = 3
  MaxUacConns = 2
  Codings = {1, 2}
  NoteRoom = 2
  MaxAcmReqs = 3
  MaxAcmOuts = 2
  MaxAcmConns = 2
  WireUrbs <- ClientUrbs
  WireDevices <- ExportedDevices
  MaxBuffer = 3
  MaxIsoPackets = 2
  NonIso = 99
  MaxWireCmds = 2
  RingSizes = {0, 1, 3}
  InlineSize = 2
  PoolSize = 2
  MaxContainerOps = 6
  DeviceFunctions = {"camera", "microphone", "speaker", "acm", "ecm", "hid", "bare"}
  Channels = 2
  RateCount = 3
  VideoFormats = {"uncompressed", "h264", "mjpeg", "frame_based"}
  ReportSize = 300
  TextLengths = {126}
  MaxFunctions = 2
INVARIANTS ClassesTypeOK StorageCorrect NetworkCorrect StreamingCorrect WireInSync ContainersAgree DescriptorsConsistent
CHECK_DEADLOCK FALSE
