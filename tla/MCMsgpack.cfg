CONSTANTS
  Settings <- MCSettings
  Values <- MCValues
  Received <- MCReceived
SPECIFICATION MsgpackSpec
INVARIANTS Recoded Compact
