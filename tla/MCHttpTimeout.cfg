\* What the error message of line 221 says.
SPECIFICATION Spec
CONSTANTS
  MaxRequests = 2
  Timeout = 1
  AnswerWait = 0
  RetryWait = 1
  PauseWait = 2
  MaxAttempts = 3
  MaxPieces = 1
  Schemas = {"http"}
CHECK_DEADLOCK FALSE
INVARIANTS
  TimedOutWasTried
