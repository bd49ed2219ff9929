SPECIFICATION SpecWedged
CONSTANTS
  c1 = c1
  c2 = c2
  s1 = s1
  s2 = s2
  Cameras <- TwoCameras
  EventsPer = 1
  CameraCapacity = 1
  StationCapacity = 1
  Sinks <- OneSink
PROPERTY ShutdownReturns
