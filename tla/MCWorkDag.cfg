SPECIFICATION Spec
CONSTANTS
  MaxNodes = 4
  Threads = {t1, t2}
  Width = 8
  NoNode = NoNode
SYMMETRY Symmetry
INVARIANTS
  ReleasedRight
CHECK_DEADLOCK FALSE
