SPECIFICATION ReserveSpec
CONSTANTS
  Values = {x}
  Raw = Raw
  Unspec = Unspec
  SBuf = 0
  SizeMax = 9
  MaxSize = 8
  NewCapacity <- Tripling
  ShouldShrink <- Always
  SelfMoveKeeps = TRUE
  ShiftMayThrow = TRUE
  MaxLen = 4
  MaxRange = 2
  Excepted = {}
VIEW ObjectAndPromise
INVARIANTS PromiseKept
