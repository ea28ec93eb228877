SPECIFICATION Spec
CONSTANTS
  Attempts = 3
  Commands = 1
  MaxBytes = 6
INVARIANT NothingMisread
CHECK_DEADLOCK FALSE
