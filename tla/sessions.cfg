CONSTANTS
  Session = {s1, s2}
  Tab = {p1, p2}
  User = {u1}
  None = None
  Ttl = 1
  Lifetime = 2
  MaxTime = 3
  MaxRequests = 3
  Faults = TRUE
SPECIFICATION Spec
SYMMETRY Symmetry
INVARIANTS TypeOK WithinLifetime ParentSpent OneLine EndedForGood
