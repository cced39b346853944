SPECIFICATION Spec
CONSTANTS
  None = None
  Good = Good
  Bad = Bad
  Inputs <- MCInputs
  Refused <- MCRefused
  Capacity = 2
  MaxUploads = 1
  PageSize = 1
  ConflictPages = 2
  MaxPoints = 1
  MaxOperations = 3
  MaxSpots = 2
  MaxChanges = 3
  MaxLate = 1
INVARIANTS ExactlyOnce DirectoryConverges DeletionIsFinal DraftIsShown
CHECK_DEADLOCK FALSE
