SPECIFICATION Spec
CONSTANTS
  ann = ann
  bob = bob
  art = art
  note = note
  b1 = b1
  b2 = b2
  huge = huge
  vast = vast
  Nothing = Nothing
  Waker = Waker
  Callers <- MCCallers
  Plays <- MCPlays
  MaxCalls = 1
  Keys <- MCKeys
  Bodies <- MCBodies
  TooBig <- MCTooBig
  OverCap <- MCOverCap
  MaxRetries = 1
  MaxConnections = 1
  MaxFaults = 1
INVARIANTS StoreIsTrue SlotsExact
PROPERTY EveryoneEnds
CHECK_DEADLOCK FALSE
