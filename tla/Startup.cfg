SPECIFICATION Spec
CONSTANTS
  MaxFd = 5
  MaxGenerations = 3
  Hook = {"set_defaults", "cleanup", "handle_sighup", "handle_trigger"}
  HooksOf <- MCHooksOf
  HasInit = {"a", "c"}
  SlotSize = 2
  Configs <- MCConfigs
  SelectLimit = 7
  MaxHups = 2
INVARIANTS
  LogHasItsDescriptor
  LogFollowsRotation
  SocketsListen
  PrivilegesGivenUp
  ServesWithPluginsReady
  StopReleases
CHECK_DEADLOCK FALSE
