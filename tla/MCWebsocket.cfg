\* A server that sends three frames; two ticks between attempts.  shutdown ends
\* the program.
SPECIFICATION Spec
CONSTANTS
  Retry = 2
  MaxFrames = 3
CHECK_DEADLOCK FALSE
INVARIANTS
  CloseFrameOnce
PROPERTIES
  ImplementsLink
  MessagesIntact
  UsesConnection
  FollowsEnabled
