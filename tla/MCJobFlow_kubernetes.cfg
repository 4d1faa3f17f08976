\* One job on two Kubernetes clusters that may be deleted at any moment, with a
\* heartbeat, a failing call to a manager, a restart of the scheduler, and tasks
\* that leave their cluster.
SPECIFICATION Spec
CONSTANTS
  Jobs = {j1}
  Clusters = {c1, c2}
  Replicas = 2
  Manager = "kubernetes"
  RetryLimit = 9
  ReadyAtStart = {c1, c2}
  MayNotFit = FALSE
  MayDelete = TRUE
  MaxCreates = 1
  MaxBeats = 1
  MaxFailures = 1
  MaxRestarts = 1
  MaxLosses = 1
  MaxLog = 16
SYMMETRY Symmetry
VIEW View
INVARIANT TypeOK
INVARIANT NoOverPlacement
INVARIANT NoUnlistedTasks
PROPERTY PlacementStays
CHECK_DEADLOCK FALSE
