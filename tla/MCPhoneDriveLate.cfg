SPECIFICATION Spec
CONSTANTS
  None = None
  ContactIds = {1}
  Throttle = Throttle
  Brake = Brake
  Actions = {Throttle, Brake}
  Layouts = {"Buttons"}
  LastGeneration = 9
  Budgets = {3}
  DefaultBudget = 3
  Cadence = 1
  InputMaxAge = 3
  SubmissionWindow = 1
  LastSequence = 3
  Capacity = 2
  MaxTime = 3
  MaxAttempts = 1
  MaxEvents = 4
  NativeReasons = {"TouchCancelled"}
SYMMETRY Symmetry
CHECK_DEADLOCK FALSE
PROPERTY CancelRetainsNeutral
