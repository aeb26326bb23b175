SPECIFICATION Spec
CONSTANTS
  Growth = 2
  MaxConns = 3
  MaxFds = 5
  FdLimit = 7
  OpenAtStart = {1, 3}
  Listeners = {3}
  MaxCloseErrors = 1
INVARIANTS
  NdxConsistent
  PoolKeepsObjects
  RoutesToOwner
  FdAccounting
PROPERTY
  ImplementsTable
CHECK_DEADLOCK FALSE
