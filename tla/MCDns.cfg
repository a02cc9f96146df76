CONSTANTS
  LenBits = 1
  Octet = 8
  MAX_NAME_WIRE = 7
  Dot <- MCDot
  Messages <- MCMessages
  Received <- MCReceived
SPECIFICATION DnsSpec
INVARIANTS TableNames MessageRoundTrip CutNoticed NamesReencode
PROPERTY UnpackEnds
