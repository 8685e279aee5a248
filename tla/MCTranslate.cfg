SPECIFICATION Spec
CONSTANTS
  FAN = 2
  PT_PAGES = 6
  Perm = {"RX", "RW"}
  MaxCalls = 3
  MaxPages = 2
INVARIANTS
  TypeOK
  TreeShape
  PoolExact
PROPERTIES
  FlatSpec
