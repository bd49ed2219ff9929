SPECIFICATION Spec
CONSTANTS
  p1 = p1
  Payloads <- OnePayload
  Confirmations = 1
  OpenFrames = 1
  QuietFrames = 2
  Window = 0
  PreRoll = 1
  PostRoll = 1
  RecordPost = 4
  ReservoirCap = 4
  MaxLen = 4
  HorizonSlack = 0
  Cells <- Scene
  MinBlob = 1
  MaxObjects = 2
  IouGate <- Quarter
  CentroidMax = 5
  MergeFrames = 2
  QueueSize = 1
  Masks <- TwoPallets
  FrameSteps = {1}
  MaxTs = 5
INVARIANT ReadsStayOnTrack
INVARIANT RecordsAccounted
PROPERTY StandingObjectsKeepTracks
PROPERTY RecorderStops
CHECK_DEADLOCK FALSE
