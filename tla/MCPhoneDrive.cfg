SPECIFICATION FairSpec
CONSTANTS
  None = None
  ContactIds = {1}
  Throttle = Throttle
  Brake = Brake
  Actions = {Throttle, Brake}
  Layouts = {"Buttons"}
  LastGeneration = 9
  Budgets = {3, 5}
  DefaultBudget = 3
  Cadence = 1
  InputMaxAge = 2
  SubmissionWindow = 1
  LastSequence = 3
  Capacity = 1
  MaxTime = 2
  MaxAttempts = 1
  MaxEvents = 4
  NativeReasons = {"TouchCancelled"}
CHECK_DEADLOCK FALSE
INVARIANTS SetpointIsHeld NeutralFindsRoom
PROPERTIES EndOfHoldOwesNeutral NeutralIsSettled SilentHoldEnds NeutralResolves
