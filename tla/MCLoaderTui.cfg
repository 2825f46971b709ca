SPECIFICATION Spec
CONSTANTS
  NoOverride = NoOverride
  Settings <- Verbose
  Latencies <- Medians
  Trips = 2
PROPERTIES CostsFollowCalibration
CHECK_DEADLOCK FALSE
