SPECIFICATION ReadSpec
CONSTANTS
  Env <- MCEnv
  NumberOf <- MCNumberOf
  Pid = 7
  Cwds <- MCCwds
  MaxLost = 1
  OutOfRange = {"99"}
  Lines <- MCLines
  Directories <- MCDirectories
  OtherFiles <- MCOtherFiles
  YYSTACKDEPTH = 14
  Budget = 6
INVARIANT DocumentRootTaken
CHECK_DEADLOCK FALSE
