SPECIFICATION FairSpec
CONSTANTS
  Attempts = 2
  Commands = 2
  MaxBytes = 8
INVARIANTS
  TypeOK
  CutsDoNotShow
PROPERTY SessionEnds
CHECK_DEADLOCK FALSE
