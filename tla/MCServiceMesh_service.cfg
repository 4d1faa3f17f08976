\* A service on a primary and two other clusters, created, deleted and
\* created again.
SPECIFICATION FairSpec
CONSTANTS
  p = p
  s = s
  t = t
  Clusters = {p, s, t}
  Primary = p
  Pods <- MCPods
  NodePort = FALSE
  MaxChanges = 3
  MaxFaults = 1
CONSTRAINT MCBound
INVARIANT MeshIsSound
INVARIANT DeletedServicesLeaveNothing
PROPERTY ControllersSettle
CHECK_DEADLOCK FALSE
