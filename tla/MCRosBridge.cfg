SPECIFICATION FairSpec
CONSTANTS
  none = none
  Sensors = {"odom"}
  Depth <- QueueDepths
  Values = {0, 1}
  Reopen = 1
  None = none
CHECK_DEADLOCK FALSE
INVARIANTS TypeOK NoFakeVideo
PROPERTIES NewestFrame CameraComesBack TelemetrySettles ShutdownEnds
