SPECIFICATION Spec
CONSTANTS
  Name <- Names
  Key <- Keys
  Path <- Paths
  Outside = {"out"}
  Member <- Members
  NoMember = NoMember
  NoSlot = NoSlot
  NoName = NoName
  NoKey = NoKey
  MaxCalls = 3
  Cookfiles <- AllCookfiles
INVARIANTS
  CapturedByOwner
  EachBodyOnce
  CyclesExact
PROPERTY PassEnds
CHECK_DEADLOCK FALSE
