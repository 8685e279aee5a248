SPECIFICATION Spec
CONSTANTS
  CHRONICLE_CAP = 3
  BBOX_CAP = 2
  MaxPuts = 7
INVARIANTS
  DumpInOrder
  HaltNamesFailure
