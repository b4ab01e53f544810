\* Two clients, so that the table may have a gap before the one that stays.
\* shutdown ends the program.
SPECIFICATION Spec
CONSTANTS
  Clients = {c1, c2}
  Nobody = nobody
  MaxRefs = 2
  Ports = {1}
  MaxPieces = 1
  RetryWait = 1
CHECK_DEADLOCK FALSE
INVARIANTS
  TableExact
  NoneLeaks
PROPERTIES
  EventsInTurn
  RequestsFollowed
