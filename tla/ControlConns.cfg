\* Three connections, one of them unauthorized.
SPECIFICATION ConnSpec
CONSTANTS
  Conns = {c1, c2, c3}
  Denied = {c3}
  MaxLines = 1
CHECK_DEADLOCK FALSE
INVARIANTS OpenIsOwned
PROPERTIES CancelEndsWait
