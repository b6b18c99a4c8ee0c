CONSTANTS
  Client = {c1, c2}
  Category = {k1, k2}
  Service = {v1, v2}
  Order = {}
  Log = {}
  None = None
  Grants = {TRUE, FALSE}
  Targets = {"PENDING"}
  Faults = TRUE
SPECIFICATION Spec
SYMMETRY Symmetry
INVARIANTS TypeOK OneSnapshotEach PromisesKept
