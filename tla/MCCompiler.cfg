CONSTANTS
  ByteBits = 2
  WordBits = 4
  I64Max = 7
  MAX_REGS = 2
  MAX_SPANS = 2
  MAX_DEPTH = 2
  EXPR_STACK = 3
  Names <- MCNames
  Types <- MCTypes
  Elems <- MCElems
  MaxTypes = 3
  MaxNest = 4
SPECIFICATION CompilerSpec
INVARIANTS
  RegistersPlaced
  RefsResolve
  DerivedSound
  SpansCover
  InvertsLength
  Measured
