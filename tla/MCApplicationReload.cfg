\* One connector and one edit, of deckfiles that return a table or something
\* else. The program may end.
SPECIFICATION Spec
CONSTANTS
  Names = {n1}
  Kinds = {"table", "nil"}
  MaxStamp = 1
  MaxMade = 1
  EarlyEdits = FALSE
CHECK_DEADLOCK FALSE
INVARIANTS
  ActiveIsTable
