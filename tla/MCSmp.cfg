SPECIFICATION FairSpec
CONSTANTS
  N = 4
  Cluster <- TwoClusters
  Aff3 <- NoAff3
INVARIANTS
  TypeOK
  OnlineReady
  NoUnbound
  EchoExclusive
  EverySgiCounted
  S13Proves
PROPERTIES
  OnlineStays
  ReachesAnswer
