SPECIFICATION Spec
CONSTANTS
  Programs <- RetryingPrograms
  MaxAttempts = 4
  MaxCloses = 3
CHECK_DEADLOCK FALSE
INVARIANT ConnectIsLegal
