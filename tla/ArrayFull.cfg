SPECIFICATION FullSpec
CONSTANTS
  Obj = {1, 2, 3}
  Strings = {1, 2, 3}
  Key = {1, 2}
  IndexKey <- MCIndexKey
  MaxUnique = 0
  Growth = 2
INVARIANT
  OwnedOnce
CHECK_DEADLOCK FALSE
