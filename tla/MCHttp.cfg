\* Three requests, over connections with and without TLS.  shutdown ends the
\* program.
SPECIFICATION Spec
CONSTANTS
  MaxRequests = 3
  Timeout = 1
  AnswerWait = 0
  RetryWait = 1
  PauseWait = 2
  MaxAttempts = 3
  MaxPieces = 2
  Schemas = {"http", "https"}
CHECK_DEADLOCK FALSE
INVARIANTS
  TypeOK
  FrontExists
PROPERTIES
  OwnAnswers
  AnsweredOnce
