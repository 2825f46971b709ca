SPECIFICATION Spec
CONSTANTS
  NoOverride = NoOverride
  Settings <- OutOfRange
  Latencies <- Medians
  Trips = 2
INVARIANT BudgetsRise
CHECK_DEADLOCK FALSE
