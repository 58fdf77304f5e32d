CONSTANTS
  c1 = c1
  c2 = c2
  Conn <- MCOneConn
  None = None
  NumLoops = 1
  Fd = {7}
  MAXFDS = 8
  MaxMoves = 2
  MaxFaults = 0
  Traffic = FALSE
SPECIFICATION Spec
PROPERTY Reaped
CHECK_DEADLOCK FALSE
