SPECIFICATION Spec
CONSTANTS
  Word = 32
  MaxSize = 31
  MaxPushed = 31
  Wrapping = {}
INVARIANT NothingOutside
