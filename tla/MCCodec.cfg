CONSTANTS
  ByteBits = 2
  WordBits = 4
  I64Max = 7
  MAX_REGS = 2
  MAX_SPANS = 2
  MAX_DEPTH = 3
  Code <- MCCode
  Prog <- MCProg
  Requests <- MCWireRequests
  Buffers <- MCBuffers
  Inputs <- MCValueInputs
  Dsts <- MCDsts
SPECIFICATION CodecSpec
INVARIANTS
  PackTypeOK
  SlotsHold
  Repackable
  OwnOutputDecodes
  SameValue
  RoundTrip
  KeysCached
PROPERTY
  IntoAllOrNothing
