SPECIFICATION Spec
CONSTANTS
  NoOverride = NoOverride
  Settings <- Ordered
  Latencies <- Medians
  Trips = 2
INVARIANTS TypeOK BudgetsRise CostsComplete TakeTurns NotifiedMeansReady
PROPERTIES CalibrationEnds CostsWritten BpfExitNoticed CalibrationShrinks ImplementsHandover
CHECK_DEADLOCK FALSE
