SPECIFICATION Spec
CONSTANTS
  Nowhere = Nowhere
  NoDir = Nowhere
  NoTarget = NoTarget
  Layouts <- AllLayouts
INVARIANTS
  LoadFaithful
  ImporteesServed
  MergedRight
CHECK_DEADLOCK FALSE
