SPECIFICATION PairsSpec
CONSTANTS
  Values = {x, y}
  Raw = Raw
  Unspec = Unspec
  SBuf = 2
  SizeMax = 5
  MaxSize = 5
  NewCapacity <- Doubling
  ShouldShrink <- Always
  SelfMoveKeeps = TRUE
  ShiftMayThrow = FALSE
  Allocators = {p, q}
  Buffers = {"b1", "b2", "b3"}
  MaxLen = 2
  Avoided = {"steal into a small buffer", "construct with an unequal allocator",
             "move a small one across allocators"}
  Excepted = {"copy"}
VIEW TheObjects
SYMMETRY Symmetry
INVARIANTS PairsWellFormed OneUserEach PairsUseOwnBuffers
PROPERTIES RightAllocator ImplementsPairContract
