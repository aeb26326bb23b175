SPECIFICATION Spec
CONSTANTS
  Obj = {1, 2, 3}
  Strings = {1, 2}
  Key = {1, 2, 3}
  IndexKey <- MCIndexKey
  MaxUnique = 2
  Growth = 2
INVARIANTS
  IndexSorted
  SearchRight
PROPERTIES
  SearchEnds
  ImplementsTable
CHECK_DEADLOCK FALSE
