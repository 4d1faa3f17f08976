\* Both threads, a reconnect, resyncs, and lists that may raise.
SPECIFICATION FairSpec
CONSTANTS
  Names = {n1, n2}
  MaxRevision = 3
  MaxReconnects = 2
  Resyncs = TRUE
  ListMayFail = TRUE
INVARIANT TypeOK
INVARIANT PromiseWhileUndisturbed
INVARIANT CacheIsHistorical
INVARIANT NeverGoesBack
PROPERTY ConvergesOrDies
CHECK_DEADLOCK FALSE
