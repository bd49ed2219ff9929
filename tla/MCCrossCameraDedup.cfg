SPECIFICATION Spec
CONSTANTS
  c1 = c1
  c2 = c2
  p1 = p1
  p2 = p2
  Cameras <- TwoCameras
  Payloads <- TwoPayloads
  Window = 1
  Slack = 1
  MaxTracked = 2
  Gaps <- Downtimes
  MaxTs = 3
  MaxPasses = 4
  MaxRestarts = 1
SYMMETRY Interchangeable
INVARIANT NoDoubleCount
INVARIANT StoreIsCurrent
