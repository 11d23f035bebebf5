SPECIFICATION Spec
CONSTANTS
  none = none
  Drives = {"forward", "left"}
  None = none
  MaxConns = 2
  MaxUp = 1
  MaxFlight = 1
  MaxFaults = 0
CHECK_DEADLOCK FALSE
INVARIANT LeavingPageStops
