SPECIFICATION FairSpec
CHECK_DEADLOCK FALSE
CONSTANTS
  Platforms = {w1}
  None = None
  MaxRequest = 3
  MaxTelemetryAge = 1
  MaxCrashes = 0
  EndMayFail = FALSE
PROPERTIES
  EndingTerminates
  EndedRideIsForgotten
