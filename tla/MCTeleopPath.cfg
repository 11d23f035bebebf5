SPECIFICATION FairSpec
CONSTANTS
  none = none
  Drives = {"forward"}
  None = none
  MaxConns = 2
  MaxUp = 1
  MaxFlight = 1
  MaxFaults = 1
CHECK_DEADLOCK FALSE
INVARIANTS TypeOK StoppedWhenQuiet InControlOnly
PROPERTIES ReleaseStops EmergencyStops
