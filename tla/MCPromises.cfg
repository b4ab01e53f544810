SPECIFICATION Spec
CONSTANTS
  Coroutines = {c1, c2}
  Promises = {p1, p2}
  Keys = {k1}
  Values = {v1, v2}
  Timeouts = {0}
  DefaultTimeout = 1
  MaxResets = 1
  None = None
SYMMETRY Symmetry
INVARIANTS
  OnlySuspendedParked
PROPERTIES
  AnswerStands
  WakeTruth
  
