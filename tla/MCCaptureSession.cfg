\* Three captures, two of them overlapping their finalization, on up to five connection
\* generations, with three save operations.
SPECIFICATION FairSpec
CONSTANTS
  None = None
  Devices = {d1}
  MaxCaptures = 3
  MaxLinks = 5
  MaxSaves = 3
INVARIANTS
  WriterHoldsSlot
  ReceiptsMatchClaims
PROPERTIES
  SaveClosesOnlyItsLink
  RecordingIsNotDisplaced
  SaveResolves
  ClaimsAreSettled
