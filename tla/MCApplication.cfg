\* Two connectors and two edits, of deckfiles that return a table or something
\* else, or fail. The program may end.
SPECIFICATION Spec
CONSTANTS
  Names = {n1, n2}
  Kinds = {"table", "nil", "raises", "missing"}
  MaxStamp = 2
  MaxMade = 2
  EarlyEdits = FALSE
CHECK_DEADLOCK FALSE
INVARIANTS
  CalledOnce
  NothingMissed
PROPERTIES
  SurvivesReload
  RequestsServed
