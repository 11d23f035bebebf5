SPECIFICATION FairSpec
CONSTANTS
  h1 = h1
  h2 = h2
  idle = idle
  Handlers = {h1, h2}
  Idle = idle
  MaxClock = 3
  MaxFaults = 2
CHECK_DEADLOCK FALSE
INVARIANTS TypeOK KnownBeforeSeen NoFalseSighting CaughtUp
PROPERTIES NeverGoesBack StatusIsShown
