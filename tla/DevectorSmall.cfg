SPECIFICATION Spec
CONSTANTS
  Values = {x, y, z}
  Raw = Raw
  Unspec = Unspec
  SBuf = 2
  SizeMax = 7
  MaxSize = 7
  NewCapacity <- Doubling
  ShouldShrink <- FitsSmallBuffer
  SelfMoveKeeps = TRUE
  ShiftMayThrow = FALSE
  MaxLen = 4
  MaxRange = 3
  Excepted = {"insert", "assign"}
VIEW TheObject
INVARIANTS TypeOK WellFormed ObjectsLive
PROPERTIES ImplementsContract EndsMoveNothing
