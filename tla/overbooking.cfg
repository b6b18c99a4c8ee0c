CONSTANTS
  Customer = {c1, c2}
  Staff = {s1, s2}
  Room = {r1}
  Key = {}
  None = None
  RoomsInStock = 1
  Stock <- MCStock
  MaxQty = 1
  MaxOps = 1
  MaxRetries = 1
  Ops = {"update"}
  Faults = FALSE
  RedisFaults = FALSE
  KeysExpire = FALSE
  OneAtATime = FALSE
SPECIFICATION Spec
SYMMETRY Symmetry
INVARIANTS NoOverbooking
