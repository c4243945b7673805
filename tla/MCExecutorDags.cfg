SPECIFICATION FairSpec
CONSTANTS
  NodeCount = 3
  Recipes = {"lib", "app"}
  Workers = {w1, w2}
  None = None
  Plans <- EveryDag
  DrainMayFail = FALSE
INVARIANTS
  OutcomeTold
PROPERTIES
  ImplementsContract
  Terminates
CHECK_DEADLOCK FALSE
