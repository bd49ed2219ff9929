SPECIFICATION Spec
CONSTANTS
  OpenFrames = 3
  QuietFrames = 2
  MaxFrames = 9
  Budget = 2
  FallbackAfter = 2
  DmStride = 5
  Variants = {v1, v2}
  MaxAttempts = 11
  Candidates = {c1}
  FrameSets = {{1}, {1, 2}}
  SizeCap = 2
  MaxAge = 1
  MaxWrites = 3
  PassOpenFrames = 2
  PassQuietFrames = 1
  MinPassFrames = 3
  Grace = 2
  QueueSize = 2
  Workers = {w1, w2}
  MaxBenchFrames = 9
  MaxCommands = 3
  Units = {"cam", "twin", "other", "clone", "obs"}
  Named = {"cam", "twin", "other", "clone"}
  PathOf <- MCPathOf
  ProductOf <- MCProductOf
  Absent = "none"
  Buses <- MCBuses
  MaxReplugs = 3
  Modes <- MCModes
  Capabilities <- MCCapabilities
  Achieved = {27, 56, 58, 60}
  Uncompressed = {"Y8", "Y12", "UYVY", "YUY2"}
  Packed = {"UYVY", "YUY2"}
  Y8Formats = {"Y8"}
  MonoFormats = {"Y8", "Y12"}
  Garbage = "????"
  d1 = d1
  d2 = d2
  p1 = p1
  Desks <- TwoDesks
  Payloads <- OnePayload
  Expected = {1}
  MaxEvents = 2
  MaxSessions = 2
  MaxClock = 2
  IdleGaps = {4}
  PassLengths = {2, 3}
  NumPasses = 2
  TailFrames = 1
  MaxConcurrent = {1, 2}
  CollectorCap = 1
  MaxJitter = 5
  MaxSegments = 2
  Viewers = {s1, s2}
  MaxOverlays = 2
  MaxUpdates = 4
  Lineups <- MCLineups
  MaxStarts = 3
  Calibrated = {"camA", "camB"}
  MaxSaves = 3
  MaxSecond = 3
  Missing = Missing
  Torn = Torn
SYMMETRY DeskOrder
INVARIANT SegmentsMatchReference
INVARIANT NoDecoderIsHidden
PROPERTY BurstsAreKept
INVARIANT PassesAreJudged
INVARIANT OpensTheNamedCamera
INVARIANT LockedModeStreams
INVARIANT SummaryIsSound
PROPERTY ClosedIsFinal
INVARIANT TruthReconciles
INVARIANT PicturesAreTheirStamps
INVARIANT EveryCaptureHasAnOwner
INVARIANT SavedConfigSurvives
CHECK_DEADLOCK FALSE
