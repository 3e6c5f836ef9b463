SPECIFICATION Spec
CONSTANTS
  Values = {x, y}
  Raw = Raw
  Unspec = Unspec
  Default = x
  SelfMoveKeeps = TRUE
  MaxSize = 5
  AllowsShrink <- Always
  MaxNew = 2
  SwapSize = 3
  AnyRanges = FALSE
  SegmentSize = 2
  Word = 64
  MaxSegments = 3
  MapMax = 8
  MaxElements = 5
  Forms = {"count", "range", "copy"}
  AllocatorThrowsIn = {"count"}
  InputMaxSize = 7
  MaxBefore = 2
  MaxFree = 2
  MaxStream = 3
INVARIANTS GuardsCoverNewBuffer OneBufferLeft OneOfEachPairDestroyed SwapEffect InputEffect
PROPERTIES FreesEmptySegments ImplementsStrongCall
