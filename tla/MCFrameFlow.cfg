SPECIFICATION FlowSpec
CONSTANTS
  MaxSize = 2
  NumFrames = 5
INVARIANT DropsAreCounted
PROPERTY RunEnds
