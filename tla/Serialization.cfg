SPECIFICATION Spec
CONSTANTS
  Values = {x, y}
  Raw = Raw
  Unspec = Unspec
  Default = x
  SelfMoveKeeps = TRUE
  ShiftMayThrow = FALSE
  SBuf = 2
  SizeMax = 7
  MaxSize = 6
  Growth <- Doubling
  AllowsShrink <- Always
  SegmentSize = 2
  Word = 64
  MaxSegments = 3
  MapMax = 4
  MaxLen = 3
VIEW TheState
INVARIANTS LoadLeavesObjects
PROPERTIES LoadRestores LoadReusesMemory UnsafeResizeKeeps
