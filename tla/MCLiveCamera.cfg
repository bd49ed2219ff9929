SPECIFICATION Spec
CONSTANTS
  MaxCaptures = 2
  Wedging = {1}
INVARIANT NoOrphanGraph
INVARIANT SettingsAreHonest
PROPERTY StopFreesDevice
CHECK_DEADLOCK FALSE
