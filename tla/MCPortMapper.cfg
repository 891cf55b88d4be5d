SPECIFICATION TelemetrySpec
CONSTANTS
  Conns = {c1}
  NullReadable = TRUE
  MaxChecks = 2
INVARIANTS
  TelemetryTypeOK
  ReleasedOnce
PROPERTIES
  MapCommandEnds
  TelemetryInOrder
CHECK_DEADLOCK FALSE
