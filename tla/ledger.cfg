CONSTANTS
  Customer = {c1, c2}
  Staff = {s1}
  Room = {r1}
  Key = {k1}
  None = None
  RoomsInStock = 1
  Stock <- MCStock
  MaxQty = 1
  MaxOps = 2
  MaxRetries = 1
  Ops = {"update", "reassign"}
  Faults = TRUE
  RedisFaults = FALSE
  KeysExpire = FALSE
  OneAtATime = TRUE
SPECIFICATION Spec
SYMMETRY Symmetry
INVARIANTS InventoryExact LogIsChain LateRetryBooksNothing
PROPERTIES ImplementsLedger
