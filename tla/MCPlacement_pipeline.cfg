\* Two clusters of any manager, READY or not, and every kind of request.
SPECIFICATION Spec
CONSTANTS
  GpuLabels = {"nvidia-a100", "a100-sxm", "gtx-1080"}
  Accelerators = {"A100", "GTX 1080"}
  ClosestMatch <- MCClosestMatch
  Named = {"A100"}
  DefaultMinWeight = 1
  DefaultMaxWeight = 100
  Caches <- MCCaches
  JobSpecs <- MCJobSpecs
INVARIANT PlacementIsSound
INVARIANT ReportsOnlyWhatIsFree
INVARIANT FailsOnlyWithoutRoom
INVARIANT BetterClustersAreFull
CHECK_DEADLOCK FALSE
