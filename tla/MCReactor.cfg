CONSTANTS
  c1 = c1
  c2 = c2
  Conn <- MCConn
  None = None
  NumLoops = 1
  Fd = {7, 8, 9}
  MAXFDS = 9
  MaxMoves = 3
  MaxFaults = 1
  Traffic = TRUE
SPECIFICATION Spec
INVARIANTS TypeOK CallbackTargetAlive NoneLeftWaiting TablesCoherent NothingMissed TimerHeld
PROPERTIES StrandedForGood Reaped
CHECK_DEADLOCK FALSE
