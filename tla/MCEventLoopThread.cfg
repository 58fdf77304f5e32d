SPECIFICATION LifeSpec
CONSTANTS
  t1 = t1
  t2 = t2
  Owner = Owner
  Task <- MCTask
  Caller <- MCCaller
  MaxQuitCalls = 1
CHECK_DEADLOCK FALSE
INVARIANT Lifetimes
PROPERTIES StartReturns DestructorEndsLoop
