\* Three sockets that listen or are accepted, with a SocketSet that has room for
\* two of them.
SPECIFICATION Spec
CONSTANTS
  Sockets = {s1, s2, s3}
  Workers = {w1, w2}
  Handles = {h1, h2, h3}
  Hosts = {}
  MaxSockets = 2
  None = None
SYMMETRY Symmetry
INVARIANTS
  PoolHolds
