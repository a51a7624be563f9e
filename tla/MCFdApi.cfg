SPECIFICATION Spec
CONSTANTS
  INT_MAX = 9
  INVALID_SOCKET = INVALID_SOCKET
  Handles = {h1, h2, h3}
  MaxCrt = 4
  Threads = {t1, t2}
  Loop = t1
  NStates = 4
  Early = {2}
  MaxSockets = 3
  MaxOpens = 3
  MaxSends = 1
SYMMETRY Symmetry
INVARIANTS Denotes NothingElseLost PendingMatches
CHECK_DEADLOCK FALSE
