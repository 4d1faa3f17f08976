\* Two worker processes, a deleting thread and a conditional updater.
SPECIFICATION Spec
CONSTANTS
  Absent = Absent
  Names = {n1}
  Specs = {s1, s2}
  Statuses = {u1}
  Loops = {w1, w2}
  Threads = {t1}
  Clients = {c1}
  MaxRevision = 3
  EtcdMayFail = TRUE
SYMMETRY Symmetry
INVARIANT TypeOK
INVARIANT WatchDescribesStore
INVARIANT WatchEventsFit
PROPERTY ImplementsObjectLog
PROPERTY SwapReplacesWhatWasRead
