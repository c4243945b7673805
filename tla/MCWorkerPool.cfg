SPECIFICATION FairSpec
CONSTANTS
  i1 = i1
  i2 = i2
  i3 = i3
  Items = {i1, i2, i3}
  Payload <- OneOfEach
  Workers = {w1, w2}
  Shutdown = Shutdown
  None = None
  SetupMayFail = TRUE
INVARIANTS
  NoSleepOverWork
  OwnTraces
PROPERTIES
  ImplementsContract
  EveryItemEnds
CHECK_DEADLOCK FALSE
