SPECIFICATION FairReadSpec
CONSTANTS
  Env <- MCEnv
  NumberOf <- MCNumberOf
  Pid = 7
  Cwds <- MCCwds
  MaxLost = 1
  OutOfRange = {"99"}
  Lines <- MCLines
  Directories <- MCDirectories
  OtherFiles <- MCOtherFiles
  YYSTACKDEPTH = 14
  Budget = 6
INVARIANTS StackFitsRule ModesAgree ContextsFormTree
  StreamReleased OptionsTaken ModulesComplete
PROPERTIES ContentKept TokenDigested
CHECK_DEADLOCK FALSE
