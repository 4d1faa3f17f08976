\* Two skylets that install, and links between their clusters.
SPECIFICATION FairSpec
CONSTANTS
  c1 = c1
  c2 = c2
  Clusters = {c1, c2}
  LinkNames = {l1}
  Pairs <- OneWay
  KindClusters = {}
  RetryLimit = 1
  MaxChanges = 3
  MaxFaults = 1
INVARIANT FabricIsSound
INVARIANT PeersFollowLinks
PROPERTY InstallersGetThrough
CHECK_DEADLOCK FALSE
