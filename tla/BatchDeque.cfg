SPECIFICATION Spec
CONSTANTS
  SegmentSize = 2
  Word = 64
  Values = {x, y}
  Raw = Raw
  Unspec = Unspec
  Default = x
  MaxSegments = 3
  MapMax = 8
  SelfMoveKeeps = TRUE
  ShiftMayThrow = FALSE
  MaxLen = 4
  MaxRange = 2
  MaxStable = 5
  Calls <- EveryCall
  Excepted = {"insert", "stable_insert", "assign"}
VIEW TheObject
INVARIANTS TypeOK WellFormed EachSegmentOnce ObjectsLive IteratorIsPosition SegmentIsItsElements
PROPERTIES ImplementsContract ElementsStay
