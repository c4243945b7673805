SPECIFICATION Spec
CONSTANTS
  Threads = {t1, t2}
  Main = main
  Workers = {w1, w2}
  Apart = FALSE
  Nothing = Nothing
  Running = Running
  Conflict = Conflict
  Plans <- AllPlans
PROPERTIES
  ImplementsContract
  InvocationEnds
CHECK_DEADLOCK FALSE
