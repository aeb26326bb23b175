SPECIFICATION Spec
CONSTANTS
  Child = {1, 2}
  MaxWorker = 1
  MaxSignals = 3
  MaxDeaths = 1
PROPERTIES
  HupReachesWorkers
  StopAfterReap
  WorkersReplaced
  GracefulStop
CHECK_DEADLOCK FALSE
