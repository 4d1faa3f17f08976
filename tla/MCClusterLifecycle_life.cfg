\* A name that is used twice, with failures, an outage and a restart.
SPECIFICATION FairSpec
CONSTANTS
  Provisions = {TRUE}
  NumNodes = 2
  InKubeconfig = TRUE
  Retries = 1
  RetryLimit = 0
  MaxCreations = 2
  MaxFaults = 1
INVARIANT CloudIsSound
PROPERTY ReadyIsTrueInTheEnd
PROPERTY SkyletsFollowClusters
PROPERTY ReadyClustersAreServed
CHECK_DEADLOCK FALSE
