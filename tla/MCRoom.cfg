SPECIFICATION FairSpec
CONSTANTS
  ROOM_N = 2
  Slice = 2
  CountMod = 2
  PAYLOAD = PAYLOAD
  Blank = Blank
  Payloads <- MCPayloads
  Blobs <- MCBlobs
INVARIANTS
  TypeOK
  UserWindow
  KernelNeverFaults
  DeadlineLive
  PreemptedAtDeadline
  OwedSlot
PROPERTIES
  MemoryOwned
  EdgeSpec
  EntryResolves
