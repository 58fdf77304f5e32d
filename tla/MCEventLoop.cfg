CONSTANTS
  t1 = t1
  t2 = t2
  t3 = t3
  c1 = c1
  c2 = c2
  Task <- MCTask
  Caller <- MCCaller
  MaxQuitCalls = 2
SPECIFICATION Spec
INVARIANTS WakeupPending QuitSignalled
PROPERTIES QuitTakesEffect RunsInOrder
CHECK_DEADLOCK FALSE
