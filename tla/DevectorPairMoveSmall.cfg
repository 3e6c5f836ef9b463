SPECIFICATION PairsSpec
CONSTANTS
  Values = {x}
  Raw = Raw
  Unspec = Unspec
  SBuf = 2
  SizeMax = 5
  MaxSize = 5
  NewCapacity <- Doubling
  ShouldShrink <- Always
  SelfMoveKeeps = TRUE
  ShiftMayThrow = FALSE
  Allocators = {p}
  Buffers = {"b1", "b2", "b3"}
  MaxLen = 3
  Avoided = {"construct with an unequal allocator", "move a small one across allocators"}
  Excepted = {}
VIEW TheObjects
INVARIANTS PairsUseOwnBuffers
