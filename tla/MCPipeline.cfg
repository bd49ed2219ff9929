SPECIFICATION Spec
CONSTANTS
  p1 = p1
  Payloads <- OnePayload
  Confirmations = 2
  OpenFrames = 2
  QuietFrames = 1
  Window = 8
  PreRoll = 1
  PostRoll = 6
  ReservoirCap = 4
  MaxLen = 3
  HorizonSlack = 1
  FrameSteps = {1, 6}
  GapSteps = {1, 5}
  Seeds <- ColdAndWarmStart
  MaxTs = 12
INVARIANT EverySegmentAccounted
INVARIANT NoEventSpansDiscontinuity
INVARIANT PassesKeepTheWindow
PROPERTY EvidenceComplete
PROPERTY EmittedWhenDue
PROPERTY ImplementsLedger
CHECK_DEADLOCK FALSE
