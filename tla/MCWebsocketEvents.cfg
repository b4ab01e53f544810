\* What line 206 means to say of the events.
SPECIFICATION Spec
CONSTANTS
  Retry = 1
  MaxFrames = 1
CHECK_DEADLOCK FALSE
PROPERTIES
  DisconnectFollowsConnect
