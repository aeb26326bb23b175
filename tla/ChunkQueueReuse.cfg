SPECIFICATION Spec
CONSTANTS
  PoolMax = 1
  TempDirs = 2
  UploadLimit = 0
  MaxPiece = 2
  MaxBytes = 2
  MaxQueued = 1
  MaxStale = 1
INVARIANT
  Accounting
CHECK_DEADLOCK FALSE
