\* Two worker processes that create one name.
SPECIFICATION Spec
CONSTANTS
  Absent = Absent
  Names = {n1}
  Specs = {s1}
  Statuses = {u1}
  Loops = {w1, w2}
  Threads = {}
  Clients = {}
  MaxRevision = 2
  EtcdMayFail = FALSE
SYMMETRY Symmetry
PROPERTY NoCreateOverwrite
