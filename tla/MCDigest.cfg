CONSTANTS
  ByteBits = 2
  WordBits = 12
  I64Max = 2047
  CrcSpecs <- MCCrcSpecs
  Pieces <- MCPieces
  ZeroRuns <- MCZeroRuns
  ZeroBlock = 2
  MaxFed = 4
  MaxCalls = 3
SPECIFICATION DigestSpec
INVARIANT DigestOfWhole
