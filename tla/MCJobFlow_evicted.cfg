\* A job controller that passes its retry limit evicts.
SPECIFICATION FairSpec
CONSTANTS
  Jobs = {j1}
  Clusters = {c1}
  Replicas = 2
  Manager = "kubernetes"
  RetryLimit = 0
  ReadyAtStart = {c1}
  MayNotFit = FALSE
  MayDelete = FALSE
  MaxCreates = 1
  MaxBeats = 2
  MaxFailures = 1
  MaxRestarts = 0
  MaxLosses = 0
  MaxLog = 24
PROPERTY EvictedJobsArePlacedAgain
CHECK_DEADLOCK FALSE
