CONSTANTS
  User = {u1, u2}
  None = None
  Faults = TRUE
SPECIFICATION Spec
SYMMETRY Symmetry
INVARIANTS TypeOK SomeAdminRemains
PROPERTIES CustomersStayCustomers ClosedStaysClosed VerificationTracked
