CONSTANTS
  t1 = t1
  t2 = t2
  t3 = t3
  w1 = w1
  w2 = w2
  a1 = a1
  a2 = a2
  x1 = x1
  x2 = x2
  None = None
  QueueSize = 2
  Task <- MCTask
  Worker <- MCWorker
  Adder <- MCAdder
  Destroyer <- MCDestroyer
SPECIFICATION Spec
INVARIANTS RingCoherent NoLostSignal FreedLast
PROPERTIES ImplementsWorkQueue TasksRun DestroyReturns
CHECK_DEADLOCK FALSE
