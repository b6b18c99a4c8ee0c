CONSTANTS
  Customer = {c1, c2}
  Staff = {s1}
  Room = {r1}
  Key = {k1}
  None = None
  RoomsInStock = 1
  Stock <- MCStock
  MaxQty = 1
  MaxOps = 1
  MaxRetries = 1
  Ops = {"update", "reassign"}
  Faults = TRUE
  RedisFaults = TRUE
  KeysExpire = TRUE
  OneAtATime = FALSE
SPECIFICATION FairSpec
INVARIANTS AnswerIsDurable
PROPERTIES RequestsEnd
