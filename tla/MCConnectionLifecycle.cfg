SPECIFICATION FairSpec
CONSTANTS
  Devices = {d1, d2}
  None = None
  RevisionModulus = 3
  RetryAttemptMax = 4
  Jitters = {1000}
  MaxGeneration = 5
  MaxRetryToken = 4
INVARIANTS
  RetryOwnsFailedAttempt
  InitialRetriesAreBounded
PROPERTIES
  VerdictIsFinal
  ImplementsTokens
  IdentificationTerminates
  LostConnectionIsRetried
