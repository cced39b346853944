SPECIFICATION Spec
SYMMETRY Symmetry
CHECK_DEADLOCK FALSE
CONSTANTS
  Platforms = {w1, w2}
  None = None
  MaxRequest = 3
  MaxTelemetryAge = 1
  MaxCrashes = 0
  EndMayFail = FALSE
INVARIANTS
  NewerEndWins
