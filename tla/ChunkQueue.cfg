SPECIFICATION Spec
CONSTANTS
  PoolMax = 2
  TempDirs = 2
  UploadLimit = 1
  MaxPiece = 2
  MaxBytes = 3
  MaxQueued = 1
  MaxStale = 0
INVARIANTS
  NothingLost
  InOrder
CHECK_DEADLOCK FALSE
