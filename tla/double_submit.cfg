CONSTANTS
  Customer = {c1, c2}
  Staff = {s1}
  Room = {r1}
  Key = {k1}
  None = None
  RoomsInStock = 2
  Stock <- MCStock
  MaxQty = 1
  MaxOps = 0
  MaxRetries = 1
  Ops = {"update"}
  Faults = FALSE
  RedisFaults = FALSE
  KeysExpire = FALSE
  OneAtATime = FALSE
SPECIFICATION Spec
SYMMETRY Symmetry
INVARIANTS OneBookingPerKey
