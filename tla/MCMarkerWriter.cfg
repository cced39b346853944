\* One marker and its removal: intents that alternate return to a value that was
\* acknowledged while another is in flight.
SPECIFICATION FairSpec
CONSTANTS
  Markers = {m1}
  Clear = Clear
  None = None
  RetryAfter = 1
  MaxRequests = 3
  MaxFaults = 2
  MaxCrashes = 1
INVARIANTS
  CommittedIsDurable
  LoadSeesEarlierIntents
PROPERTIES
  PreferenceOutlivesImport
  ImplementsRegister
  MarkerSettles
CHECK_DEADLOCK FALSE
