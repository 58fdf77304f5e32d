CONSTANTS
  n1 = n1
  n2 = n2
  n3 = n3
  Node <- MCNode
  Timeout <- MCTimeout
  Wrap = 5
  MaxNow = 12
SPECIFICATION Spec
PROPERTIES NoEarlyExpiry SweepComplete
CHECK_DEADLOCK FALSE
SYMMETRY Symmetry
