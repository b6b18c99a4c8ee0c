CONSTANTS
  Call = {q1, q2}
  Limit = 2
  Window = 2
  Capacity = 2
  Refill = 1
  Cost = 1
  MaxTime = 4
  None = None
  Short = 1
  Long = 2
  MaxViolations = 2
SPECIFICATION Spec
SYMMETRY Symmetry
INVARIANTS TypeOK WindowKept TokensCovered
PROPERTIES RefusedForCause LockoutNotShortened
