SPECIFICATION FairSpec
CONSTANTS
  N = 3
  Cluster <- OneCluster
  Aff3 <- NoAff3
PROPERTIES
  EchoAnswered
