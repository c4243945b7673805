CONSTANTS
  Drafts <- MCDrafts
  Imported <- MCImported
SPECIFICATION Spec
INVARIANTS
  EffectsKept
  ReadsAreEdges
  NothingUnbound
  KeyedOnReads
CHECK_DEADLOCK FALSE
