\* Slurm does not find the job submitted before.
SPECIFICATION Spec
CONSTANTS
  Jobs = {j1}
  Clusters = {c1}
  Replicas = 2
  Manager = "slurm"
  RetryLimit = 9
  ReadyAtStart = {c1}
  MayNotFit = FALSE
  MayDelete = FALSE
  MaxCreates = 1
  MaxBeats = 1
  MaxFailures = 0
  MaxRestarts = 0
  MaxLosses = 0
  MaxLog = 12
INVARIANT NoOverPlacement
CHECK_DEADLOCK FALSE
