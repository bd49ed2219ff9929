SPECIFICATION Spec
CONSTANTS
  HandoffSize = 4
  MaxZombies = 1
  MaxOutage = 1
  MaxConns = 3
INVARIANT OutageIsBounded
PROPERTY FirstOfConnectionMarked
PROPERTY StopEndsEverything
PROPERTY ZombiesCannotPoison
