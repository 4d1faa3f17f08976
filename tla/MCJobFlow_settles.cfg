\* No failures, under fairness; one cluster is there, the other comes later, and
\* the job may fit on neither.
SPECIFICATION FairSpec
CONSTANTS
  Jobs = {j1}
  Clusters = {c1, c2}
  Replicas = 2
  Manager = "kubernetes"
  RetryLimit = 9
  ReadyAtStart = {c1}
  MayNotFit = TRUE
  MayDelete = TRUE
  MaxCreates = 1
  MaxBeats = 1
  MaxFailures = 0
  MaxRestarts = 0
  MaxLosses = 0
  MaxLog = 13
INVARIANT WritesSettle
 
PROPERTY DeletedJobsLeaveNothing
 
CHECK_DEADLOCK FALSE
