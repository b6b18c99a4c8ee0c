CONSTANTS
  Client = {c1, c2}
  Category = {k1}
  Service = {v1}
  Order = {q1}
  Log = {l1}
  None = None
  Grants = {FALSE}
  Targets = {"PENDING", "COMPLETED"}
  Faults = TRUE
SPECIFICATION Spec
SYMMETRY Symmetry
INVARIANTS LateCompletionFlagged RecoveryRecorded
PROPERTIES BreachSticks
