SPECIFICATION SupervisionSpec
CONSTANTS
  Sups <- TwoSups
  Writers <- TwoWriters
  MaxLevel = 1
  MaxRequests = 2
INVARIANT OneWriter
INVARIANT OneRequestDrains
INVARIANT StoppedIsTrue
PROPERTY LatchStops
