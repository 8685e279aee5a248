SPECIFICATION RunFairSpec
CONSTANTS
  ROOM_N = 2
  Slice = 2
  CountMod = 16
  PAYLOAD = PAYLOAD
  Blank = Blank
  Other = Other
  Canary = Canary
  Payloads <- MCPayloads
  Blobs <- MCBlobs
  UartValid = TRUE
INVARIANTS
  ScriptHolds
PROPERTIES
  QuietCompletes
