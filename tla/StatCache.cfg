SPECIFICATION Spec
CONSTANTS
  Key = {1, 2, 3, 4}
  Name = {"a", "b", "c"}
  Hash <- MCHash
  MimeType <- MCMime
  EtagFlags = 1
  File = {"file"}
  Directory = {"dir"}
  Special = {}
  FirstDisk <- MCDisk
  Mutable = {"a"}
  MaxChanges = 2
INVARIANTS
  TreeHoldsEntries
  AnswerTrue
CHECK_DEADLOCK FALSE
