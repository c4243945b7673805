SPECIFICATION BuildSpec
CONSTANTS
  Name <- Names
  File <- Files
  Key <- Keys
  Path <- Paths
  NoKey = NoKey
  Workspaces <- AllWorkspaces
  Covers <- CoversDir
INVARIANTS
  NeverPanics
  OrderKept
  ProbesPlaced
  ReadsAfterWrites
CHECK_DEADLOCK FALSE
