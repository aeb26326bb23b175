SPECIFICATION Spec
CONSTANTS
  Child = {1, 2, 3}
  MaxWorker = 2
  MaxSignals = 2
  MaxDeaths = 1
INVARIANTS
  ChildrenCounted
  ForwardedOnce
  PidFileKept
CHECK_DEADLOCK FALSE
