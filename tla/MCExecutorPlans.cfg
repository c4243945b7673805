SPECIFICATION Spec
CONSTANTS
  NodeCount = 6
  Recipes = {"seed", "checks", "lib", "ship", "app"}
  Workers = {w1, w2}
  None = None
  Plans <- EveryShape
  DrainMayFail = TRUE
INVARIANTS
  TerminalAlone
  PendingExact
PROPERTIES
  StartsAfterDeps
  UsesPool
CHECK_DEADLOCK FALSE
