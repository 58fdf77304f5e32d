SPECIFICATION Spec
CONSTANTS
  Size = {1, 2, 3}
  MaxBytes = 10
INVARIANTS BytesInOrder BrokenOnlyWhenFull
CHECK_DEADLOCK FALSE
