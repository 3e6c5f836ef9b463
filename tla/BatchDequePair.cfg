SPECIFICATION Spec
CONSTANTS
  SegmentSize = 2
  Word = 64
  Values = {x}
  Raw = Raw
  Unspec = Unspec
  Default = x
  MaxSegments = 2
  MapMax = 4
  SelfMoveKeeps = TRUE
  ShiftMayThrow = FALSE
  Allocators = {p, q}
  MaxLen = 2
  Avoided = {"copy to an unequal allocator", "move to an unequal allocator",
             "swap unequal allocators"}
  Excepted = {"copy"}
VIEW TheObjects
SYMMETRY Symmetry
INVARIANTS BothWellFormed
PROPERTIES RightAllocator ImplementsPairContract
