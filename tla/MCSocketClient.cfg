\* One client socket, abandoned attempts overlapping with the current one.
SPECIFICATION Spec
CONSTANTS
  Sockets = {s1}
  Workers = {w1, w2}
  Handles = {h1, h2, h3}
  Hosts = {alpha, beta}
  MaxSockets = 3
  None = None
INVARIANTS
  HandlesOwned
  ConnectedToTarget
  JoinNeedsNoLock
PROPERTIES
  AttemptsSettle
  ImplementsConnection
