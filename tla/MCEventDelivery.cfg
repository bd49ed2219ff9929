SPECIFICATION Spec
CONSTANTS
  c1 = c1
  c2 = c2
  s1 = s1
  s2 = s2
  Cameras <- TwoCameras
  EventsPer = 2
  CameraCapacity = 1
  StationCapacity = 3
  Sinks <- TwoSinks
SYMMETRY Interchangeable
INVARIANT CleanRunLostNothing
