SPECIFICATION FlowSpec
CONSTANTS
  MaxSize = 2
  NumFrames = 4
INVARIANT ConnectionsAreMarked
