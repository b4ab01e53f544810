\* What a write returns while the TLS handshake is still going on.
SPECIFICATION Spec
CONSTANTS
  Sockets = {s1}
  Workers = {w1}
  Handles = {h1}
  Hosts = {alpha}
  MaxSockets = 1
  None = None
INVARIANTS
  WriteAllOrError
