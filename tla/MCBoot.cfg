SPECIFICATION FairSpec
INVARIANTS
  Ready
  S11Proves
  HaltDeserved
PROPERTIES
  BootEnds
