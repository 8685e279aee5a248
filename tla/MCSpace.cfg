SPECIFICATION Spec
CONSTANTS
  WORD = 64
  PAGE = 2
  VA = 32
  OWNER_MAX = 8
  Facts <- AllFacts
INVARIANTS
  RegionsAreWrapSafe
  MappedIsOwned
  ImageHasItsRights
  HonestFactsAreMapped
PROPERTIES
  ArmedGrowsByRoomsOnly
