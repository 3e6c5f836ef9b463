SPECIFICATION ReserveSpec
CONSTANTS
  SegmentSize = 2
  Word = 64
  Values = {x}
  Raw = Raw
  Unspec = Unspec
  Default = x
  MaxSegments = 3
  MapMax = 8
  SelfMoveKeeps = TRUE
  ShiftMayThrow = FALSE
  MaxLen = 4
  MaxRange = 1
  MaxStable = 5
  Calls <- ReservingCalls
  Excepted = {}
VIEW TheObject
INVARIANTS BackPromiseKept
